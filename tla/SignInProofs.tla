---------------------------- MODULE SignInProofs ----------------------------
(***************************************************************************)
(* Proofs about SignIn, for any number of requests, addresses, slots and   *)
(* passwords.                                                              *)
(*                                                                         *)
(* Placed ties where a request is to what it holds; it is inductive with   *)
(* the types.  On it stand the two results: that no two requests are in    *)
(* flight from one address (Alone), which keeps the lockout ahead of the   *)
(* attempts, and that a request whose generation is still in force weighs  *)
(* against the password in force (InForce), which is what createAt's       *)
(* comparison relies on.                                                   *)
(***************************************************************************)
EXTENDS SignIn, FiniteSetTheorems, TLAPS

Stages == {"idle", "queue", "read", "weighing", "slowed", "opens",
           "queue to hash", "hash", "sets", "revokes"}

SecretOK ==
  /\ password \in 0..count /\ count \in 0..MaxPasswords
  /\ sessions \in SUBSET (1..MaxPasswords) /\ generation \in Nat
LimitsOK ==
  /\ failures \in [Addresses -> 0..(FreeAttempts + 1)] /\ locked \in SUBSET Addresses
  /\ Cardinality(Tracked) <= MaxTracked
RequestsOK ==
  /\ at \in [Handlers -> Stages] /\ from \in [Handlers -> Addresses \cup {Nobody}]
  /\ kind \in [Handlers -> {"login", "change", "setup"}]
  /\ slot \in [Handlers -> {"none", "shared", "home"}]
WeighedOK == seen \in [Handlers -> Nat] /\ under \in [Handlers -> 0..MaxPasswords]
TrayOK == resetting \in BOOLEAN /\ commands \in 0..MaxCommands

\* What a request holds, given where it is.
Placed ==
  \A r \in Handlers :
    /\ at[r] = "idle" <=> from[r] = Nobody
    /\ at[r] = "opens" => under[r] # 0
    /\ at[r] \in {"read", "weighing", "opens"} => seen[r] <= generation

Inv == SecretOK /\ LimitsOK /\ RequestsOK /\ WeighedOK /\ TrayOK /\ Placed

\* An address that is admitted is admitted once.
Alone == \A r, q \in Handlers : r # q /\ from[r] = from[q] => from[r] = Nobody

\* Under the generation in force, one weighs against the password in force.
InForce ==
  \A r \in Handlers :
    at[r] \in {"weighing", "opens"} /\ seen[r] = generation /\ ~Revoking =>
      under[r] = password

-----------------------------------------------------------------------------
\* limiter.fail and limiter.success keep the table within its size.
LEMMA LimitsKept ==
  ASSUME LimitsOK, NEW a \in Addresses,
         \/ Fail(a) \/ Success(a)
         \/ failures' = [failures EXCEPT ![a] = 0] /\ locked' = locked
         \/ locked' = locked \ {a} /\ failures' = failures
         \/ UNCHANGED limits
  PROVE  LimitsOK'
<1> USE SignInAssumption DEF LimitsOK
<1>f. IsFiniteSet(Tracked) /\ Tracked' \subseteq Addresses
  <2>1. Tracked \subseteq Addresses /\ Tracked' \subseteq Addresses
    BY DEF Tracked
  <2> QED
    BY <2>1, FS_Subset
<1>n. Cardinality(Tracked) \in Nat
  BY <1>f, FS_CardinalityType
<1>1. CASE Tracked' \subseteq Tracked /\ failures' \in [Addresses -> 0..(FreeAttempts + 1)]
                                      /\ locked' \subseteq Addresses
  <2>1. IsFiniteSet(Tracked')
    BY <1>1, <1>f, FS_Subset
  <2>2. Cardinality(Tracked') \in Nat
    BY <2>1, FS_CardinalityType
  <2>3. Cardinality(Tracked') <= Cardinality(Tracked)
    BY <1>1, <1>f, FS_Subset
  <2> QED
    BY <1>1, <1>n, <2>2, <2>3
<1>2. CASE Fail(a) /\ ~IsFull(a)
  <2>1. failures' = [failures EXCEPT ![a] = IF @ > FreeAttempts THEN @ ELSE @ + 1]
    BY <1>2 DEF Fail
  <2>2. locked' \subseteq Addresses
    BY <1>2 DEF Fail
  <2>3. failures' \in [Addresses -> 0..(FreeAttempts + 1)]
    BY <2>1
  <2>4. Tracked' = Tracked \cup {a}
    BY <2>1 DEF Tracked
  <2>5. Cardinality(Tracked \cup {a}) =
          IF a \in Tracked THEN Cardinality(Tracked) ELSE Cardinality(Tracked) + 1
    BY <1>f, FS_AddElement
  <2>6. a \in Tracked \/ Cardinality(Tracked) < MaxTracked
    BY <1>2, <1>n DEF IsFull, Tracked
  <2>7. Cardinality(Tracked') <= MaxTracked
    BY <1>n, <2>4, <2>5, <2>6
  <2> QED
    BY <2>2, <2>3, <2>7
<1>3. CASE ~(Fail(a) /\ ~IsFull(a))
  <2>1. /\ Tracked' \subseteq Tracked /\ locked' \subseteq Addresses
        /\ failures' \in [Addresses -> 0..(FreeAttempts + 1)]
    BY <1>3 DEF Fail, Success, limits, Tracked
  <2> QED
    BY <1>1, <2>1
<1> QED
  BY <1>2, <1>3

LEMMA InvInit == Init => Inv
<1> SUFFICES ASSUME Init PROVE Inv
  OBVIOUS
<1> USE SignInAssumption DEF Init
<1>1. SecretOK
  BY DEF SecretOK
<1>7. TrayOK
  <2>1. resetting \in BOOLEAN
    BY Zenon
  <2>2. commands \in 0..MaxCommands
    OBVIOUS
  <2> QED
    BY <2>1, <2>2 DEF TrayOK
<1>6. WeighedOK
  BY DEF WeighedOK
<1>2. RequestsOK
  BY DEF RequestsOK, Stages
<1>3. Tracked = {}
  BY DEF Tracked
<1>4. LimitsOK
  BY <1>3, FS_EmptySet DEF LimitsOK
<1>5. Placed
  BY DEF Placed
<1> QED
  BY <1>1, <1>2, <1>4, <1>5, <1>6, <1>7 DEF Inv

LEMMA InvStep == Inv /\ [Next]_vars => Inv'
<1> SUFFICES ASSUME Inv, [Next]_vars PROVE Inv'
  OBVIOUS
<1> USE SignInAssumption DEF secret, store, request, weighed, tray
<1>a. SecretOK /\ LimitsOK /\ RequestsOK /\ WeighedOK /\ TrayOK /\ Placed
  BY DEF Inv
<1>z. 0 \in Nat /\ 0 \in 0..MaxPasswords
  OBVIOUS
<1>s. /\ SecretOK /\ UNCHANGED secret /\ UNCHANGED store => SecretOK'
      /\ TrayOK /\ UNCHANGED tray => TrayOK'
      /\ LimitsOK /\ UNCHANGED limits => LimitsOK'
      /\ WeighedOK /\ UNCHANGED weighed => WeighedOK'
  BY DEF SecretOK, TrayOK, LimitsOK, Tracked, limits, WeighedOK
<1>1. ASSUME NEW r \in Handlers, NEW a \in Addresses, Login(r, a) \/ Change(r, a) \/ Setup(r, a) PROVE Inv'
  <2>1. LimitsOK'
    BY <1>1, <1>a, <1>s DEF Login, Change, Setup, Begins, Goes
  <2>2. SecretOK'
    BY <1>1, <1>a, <1>s DEF Login, Change, Setup, Begins, Goes
  <2>3. TrayOK'
    BY <1>1, <1>a, <1>s DEF Login, Change, Setup, Begins, Goes
  <2>4. RequestsOK'
    <3>1. /\ \E x \in {"queue", "queue to hash"} : at' = [at EXCEPT ![r] = x]
          /\ \E w \in {"login", "change", "setup"} : kind' = [kind EXCEPT ![r] = w]
          /\ from' = [from EXCEPT ![r] = a] /\ UNCHANGED slot
      BY <1>1 DEF Login, Change, Setup, Begins, Goes
    <3>2. at' \in [Handlers -> Stages]
      BY ONLY <1>a, <3>1 DEF RequestsOK, Stages
    <3>3. kind' \in [Handlers -> {"login", "change", "setup"}]
      BY ONLY <1>a, <3>1 DEF RequestsOK
    <3>4. /\ from' \in [Handlers -> Addresses \cup {Nobody}]
          /\ slot' \in [Handlers -> {"none", "shared", "home"}]
      BY ONLY <1>a, <3>1 DEF RequestsOK
    <3> QED
      BY ONLY <3>2, <3>3, <3>4 DEF RequestsOK
  <2>5. WeighedOK'
    BY <1>1, <1>a, <1>s DEF Login, Change, Setup, Begins, Goes
  <2>6. Placed'
    <3>1. PICK to \in {"queue", "queue to hash"} :
            at' = [at EXCEPT ![r] = to] /\ from' = [from EXCEPT ![r] = a] /\ UNCHANGED <<seen, under, generation>>
      BY <1>1 DEF Login, Change, Setup, Begins, Goes
    <3>2. a # Nobody /\ at \in [Handlers -> Stages] /\ from \in [Handlers -> Addresses \cup {Nobody}]
      BY <1>a DEF RequestsOK
    <3>3. ASSUME NEW q \in Handlers
          PROVE /\ (at'[q] = "idle") <=> (from'[q] = Nobody)
                /\ at'[q] = "opens" => under'[q] # 0
                /\ at'[q] \in {"read", "weighing", "opens"} => seen'[q] <= generation'
      <4>1. CASE q = r
        BY <3>1, <3>2, <4>1
      <4>2. CASE q # r
        BY <1>a, <3>1, <3>2, <4>2 DEF Placed
      <4> QED
        BY <4>1, <4>2
    <3> QED
      BY <3>3 DEF Placed
  <2> QED
    BY <2>1, <2>2, <2>3, <2>4, <2>5, <2>6 DEF Inv
<1>2. ASSUME NEW r \in Handlers, ReadsTheGeneration(r) PROVE Inv'
  <2>1. LimitsOK'
    BY <1>2, <1>a, <1>s DEF ReadsTheGeneration, TakesASlot, FreeSlots, Goes
  <2>2. SecretOK'
    BY <1>2, <1>a, <1>s DEF ReadsTheGeneration, TakesASlot, FreeSlots, Goes
  <2>3. TrayOK'
    BY <1>2, <1>a, <1>s DEF ReadsTheGeneration, TakesASlot, FreeSlots, Goes
  <2>4. RequestsOK'
    <3>1. /\ \E x \in {"read", "hash"} : at' = [at EXCEPT ![r] = x]
          /\ \E s \in {"shared", "home"} : slot' = [slot EXCEPT ![r] = s]
          /\ UNCHANGED <<from, kind>>
      BY <1>2 DEF ReadsTheGeneration, TakesASlot, FreeSlots, Goes, request
    <3>2. at' \in [Handlers -> Stages]
      BY ONLY <1>a, <3>1 DEF RequestsOK, Stages
    <3>3. slot' \in [Handlers -> {"none", "shared", "home"}]
      BY ONLY <1>a, <3>1 DEF RequestsOK
    <3> QED
      BY ONLY <1>a, <3>1, <3>2, <3>3 DEF RequestsOK
  <2>5. WeighedOK'
    BY <1>2, <1>a DEF ReadsTheGeneration, TakesASlot, FreeSlots, Goes, WeighedOK, SecretOK
  <2>6. Placed'
    BY <1>2, <1>a DEF ReadsTheGeneration, TakesASlot, FreeSlots, Goes, Placed, RequestsOK, WeighedOK, SecretOK
  <2> QED
    BY <2>1, <2>2, <2>3, <2>4, <2>5, <2>6 DEF Inv
<1>3. ASSUME NEW r \in Handlers, ReadsThePassword(r) PROVE Inv'
  <2>1. LimitsOK'
    BY <1>3, <1>a, <1>s DEF ReadsThePassword, Goes
  <2>2. SecretOK'
    BY <1>3, <1>a, <1>s DEF ReadsThePassword, Goes
  <2>3. TrayOK'
    BY <1>3, <1>a, <1>s DEF ReadsThePassword, Goes
  <2>4. RequestsOK'
    BY <1>3, <1>a DEF ReadsThePassword, Goes, RequestsOK, Stages
  <2>5. WeighedOK'
    BY <1>3, <1>a DEF ReadsThePassword, Goes, WeighedOK, SecretOK
  <2>6. Placed'
    BY <1>3, <1>a DEF ReadsThePassword, Goes, Placed, RequestsOK, WeighedOK, SecretOK
  <2> QED
    BY <2>1, <2>2, <2>3, <2>4, <2>5, <2>6 DEF Inv
<1>4. ASSUME NEW r \in Handlers, IsRight(r) PROVE Inv'
  <2>0. from[r] \in Addresses
    BY <1>4, <1>a DEF IsRight, Goes, Placed, RequestsOK
  <2>1. LimitsOK'
    BY <1>4, <1>a, <2>0, LimitsKept DEF IsRight, ReleasesTheSlot, Drops, Goes
  <2>2. SecretOK'
    BY <1>4, <1>a, <1>s DEF IsRight, ReleasesTheSlot, Drops, Goes
  <2>3. TrayOK'
    BY <1>4, <1>a, <1>s DEF IsRight, ReleasesTheSlot, Drops, Goes
  <2>4. RequestsOK'
    BY <1>4, <1>a DEF IsRight, ReleasesTheSlot, Drops, Goes, RequestsOK, Stages
  <2>7. UNCHANGED weighed \/ Drops(r)
    BY <1>4 DEF IsRight
  <2>5. WeighedOK'
    BY <2>7, <1>a, <1>z DEF Drops, WeighedOK
  <2>6. Placed'
    <3>1. /\ under[r] # 0 /\ UNCHANGED from /\ generation' = generation /\ at[r] = "weighing"
          /\ \/ at' = [at EXCEPT ![r] = "opens"] /\ UNCHANGED weighed
             \/ at' = [at EXCEPT ![r] = "queue to hash"] /\ Drops(r)
      BY <1>4 DEF IsRight, Goes, request, secret
    <3>2. at \in [Handlers -> Stages] /\ seen \in [Handlers -> Nat] /\ under \in [Handlers -> 0..MaxPasswords]
      BY <1>a DEF RequestsOK, WeighedOK
    <3>3. \A q \in Handlers : q # r => at'[q] = at[q] /\ seen'[q] = seen[q] /\ under'[q] = under[q]
      BY <3>1, <3>2 DEF Drops, weighed
    <3>4. /\ at'[r] \in {"opens", "queue to hash"}
          /\ at'[r] = "opens" => under'[r] = under[r] /\ seen'[r] = seen[r]
      BY <3>1, <3>2 DEF weighed
    <3> QED
      BY <1>a, <3>1, <3>3, <3>4 DEF Placed
  <2> QED
    BY <2>1, <2>2, <2>3, <2>4, <2>5, <2>6 DEF Inv
<1>5. ASSUME NEW r \in Handlers, IsWrong(r) PROVE Inv'
  <2>0. from[r] \in Addresses
    BY <1>5, <1>a DEF IsWrong, Goes, Placed, RequestsOK
  <2>1. LimitsOK'
    BY <1>5, <1>a, <2>0, LimitsKept DEF IsWrong, ReleasesTheSlot, Drops, Goes
  <2>2. SecretOK'
    BY <1>5, <1>a, <1>s DEF IsWrong, ReleasesTheSlot, Drops, Goes
  <2>3. TrayOK'
    BY <1>5, <1>a, <1>s DEF IsWrong, ReleasesTheSlot, Drops, Goes
  <2>4. RequestsOK'
    BY <1>5, <1>a DEF IsWrong, ReleasesTheSlot, Drops, Goes, RequestsOK, Stages
  <2>5. WeighedOK'
    BY <1>5, <1>a DEF IsWrong, ReleasesTheSlot, Drops, Goes, WeighedOK, SecretOK
  <2>6. Placed'
    BY <1>5, <1>a DEF IsWrong, ReleasesTheSlot, Drops, Goes, Placed, RequestsOK, WeighedOK, SecretOK
  <2> QED
    BY <2>1, <2>2, <2>3, <2>4, <2>5, <2>6 DEF Inv
<1>6. ASSUME NEW r \in Handlers, Refuses(r) PROVE Inv'
  <2>1. LimitsOK'
    BY <1>6, <1>a, <1>s DEF Refuses, Answered, Drops
  <2>2. SecretOK'
    BY <1>6, <1>a, <1>s DEF Refuses, Answered, Drops
  <2>3. TrayOK'
    BY <1>6, <1>a, <1>s DEF Refuses, Answered, Drops
  <2>4. RequestsOK'
    BY <1>6, <1>a DEF Refuses, Answered, Drops, RequestsOK, Stages
  <2>5. WeighedOK'
    BY <1>6, <1>a DEF Refuses, Answered, Drops, WeighedOK, SecretOK
  <2>6. Placed'
    BY <1>6, <1>a DEF Refuses, Answered, Drops, Placed, RequestsOK, WeighedOK, SecretOK
  <2> QED
    BY <2>1, <2>2, <2>3, <2>4, <2>5, <2>6 DEF Inv
<1>7. ASSUME NEW r \in Handlers, OpensASession(r) PROVE Inv'
  <2>1. LimitsOK'
    BY <1>7, <1>a, <1>s DEF OpensASession, MayOpen, Answered, Drops
  <2>0. under[r] \in 1..MaxPasswords
    BY <1>7, <1>a DEF OpensASession, Placed, WeighedOK
  <2>2. SecretOK'
    BY <1>7, <1>a, <2>0 DEF OpensASession, SecretOK, secret
  <2>3. TrayOK'
    BY <1>7, <1>a, <1>s DEF OpensASession, MayOpen, Answered, Drops
  <2>4. RequestsOK'
    BY <1>7, <1>a DEF OpensASession, MayOpen, Answered, Drops, RequestsOK, Stages
  <2>5. WeighedOK'
    BY <1>7, <1>a DEF OpensASession, MayOpen, Answered, Drops, WeighedOK, SecretOK
  <2>6. Placed'
    BY <1>7, <1>a DEF OpensASession, MayOpen, Answered, Drops, Placed, RequestsOK, WeighedOK, SecretOK
  <2> QED
    BY <2>1, <2>2, <2>3, <2>4, <2>5, <2>6 DEF Inv
<1>8. ASSUME NEW r \in Handlers, QueuesToHash(r) PROVE Inv'
  <2>1. LimitsOK'
    BY <1>8, <1>a, <1>s DEF QueuesToHash, TakesASlot, FreeSlots, Goes
  <2>2. SecretOK'
    BY <1>8, <1>a, <1>s DEF QueuesToHash, TakesASlot, FreeSlots, Goes
  <2>3. TrayOK'
    BY <1>8, <1>a, <1>s DEF QueuesToHash, TakesASlot, FreeSlots, Goes
  <2>4. RequestsOK'
    <3>1. /\ \E x \in {"read", "hash"} : at' = [at EXCEPT ![r] = x]
          /\ \E s \in {"shared", "home"} : slot' = [slot EXCEPT ![r] = s]
          /\ UNCHANGED <<from, kind>>
      BY <1>8 DEF QueuesToHash, TakesASlot, FreeSlots, Goes, request
    <3>2. at' \in [Handlers -> Stages]
      BY ONLY <1>a, <3>1 DEF RequestsOK, Stages
    <3>3. slot' \in [Handlers -> {"none", "shared", "home"}]
      BY ONLY <1>a, <3>1 DEF RequestsOK
    <3> QED
      BY ONLY <1>a, <3>1, <3>2, <3>3 DEF RequestsOK
  <2>5. WeighedOK'
    BY <1>8, <1>a, <1>s DEF QueuesToHash, TakesASlot, FreeSlots, Goes
  <2>6. Placed'
    BY <1>8, <1>a DEF QueuesToHash, TakesASlot, FreeSlots, Goes, Placed, RequestsOK, WeighedOK, SecretOK
  <2> QED
    BY <2>1, <2>2, <2>3, <2>4, <2>5, <2>6 DEF Inv
<1>9. ASSUME NEW r \in Handlers, Hashes(r) PROVE Inv'
  <2>1. LimitsOK'
    BY <1>9, <1>a, <1>s DEF Hashes, ReleasesTheSlot, Goes
  <2>2. SecretOK'
    BY <1>9, <1>a, <1>s DEF Hashes, ReleasesTheSlot, Goes
  <2>3. TrayOK'
    BY <1>9, <1>a, <1>s DEF Hashes, ReleasesTheSlot, Goes
  <2>4. RequestsOK'
    BY <1>9, <1>a DEF Hashes, ReleasesTheSlot, Goes, RequestsOK, Stages
  <2>5. WeighedOK'
    BY <1>9, <1>a, <1>s DEF Hashes, ReleasesTheSlot, Goes
  <2>6. Placed'
    BY <1>9, <1>a DEF Hashes, ReleasesTheSlot, Goes, Placed, RequestsOK, WeighedOK, SecretOK
  <2> QED
    BY <2>1, <2>2, <2>3, <2>4, <2>5, <2>6 DEF Inv
<1>10. ASSUME NEW r \in Handlers, SetsThePassword(r) PROVE Inv'
  <2>0. from[r] \in Addresses
    BY <1>10, <1>a DEF SetsThePassword, Goes, Placed, RequestsOK
  <2>1. LimitsOK'
    BY <1>10, <1>a, <2>0, LimitsKept DEF SetsThePassword, IsRefused, Goes
  <2>2. SecretOK'
    BY <1>10, <1>a DEF SetsThePassword, IsRefused, Goes, SecretOK
  <2>3. TrayOK'
    BY <1>10, <1>a, <1>s DEF SetsThePassword, IsRefused, Goes
  <2>4. RequestsOK'
    BY <1>10, <1>a DEF SetsThePassword, IsRefused, Goes, RequestsOK, Stages
  <2>5. WeighedOK'
    BY <1>10, <1>a, <1>s DEF SetsThePassword, IsRefused, Goes
  <2>6. Placed'
    BY <1>10, <1>a DEF SetsThePassword, IsRefused, Goes, Placed, RequestsOK, WeighedOK, SecretOK
  <2> QED
    BY <2>1, <2>2, <2>3, <2>4, <2>5, <2>6 DEF Inv
<1>11. ASSUME NEW r \in Handlers, SetsNothing(r) PROVE Inv'
  <2>1. LimitsOK'
    BY <1>11, <1>a, <1>s DEF SetsNothing, Answered, Drops
  <2>2. SecretOK'
    BY <1>11, <1>a, <1>s DEF SetsNothing, Answered, Drops
  <2>3. TrayOK'
    BY <1>11, <1>a, <1>s DEF SetsNothing, Answered, Drops
  <2>4. RequestsOK'
    BY <1>11, <1>a DEF SetsNothing, Answered, Drops, RequestsOK, Stages
  <2>5. WeighedOK'
    BY <1>11, <1>a DEF SetsNothing, Answered, Drops, WeighedOK, SecretOK
  <2>6. Placed'
    BY <1>11, <1>a DEF SetsNothing, Answered, Drops, Placed, RequestsOK, WeighedOK, SecretOK
  <2> QED
    BY <2>1, <2>2, <2>3, <2>4, <2>5, <2>6 DEF Inv
<1>12. ASSUME NEW r \in Handlers, RevokesAfterSetting(r) PROVE Inv'
  <2>1. LimitsOK'
    BY <1>12, <1>a, <1>s DEF RevokesAfterSetting, RevokeAll, Answered, Drops
  <2>2. SecretOK'
    BY <1>12, <1>a DEF RevokesAfterSetting, RevokeAll, Answered, Drops, SecretOK
  <2>3. TrayOK'
    BY <1>12, <1>a, <1>s DEF RevokesAfterSetting, RevokeAll, Answered, Drops
  <2>4. RequestsOK'
    BY <1>12, <1>a DEF RevokesAfterSetting, RevokeAll, Answered, Drops, RequestsOK, Stages
  <2>5. WeighedOK'
    BY <1>12, <1>a DEF RevokesAfterSetting, RevokeAll, Answered, Drops, WeighedOK, SecretOK
  <2>6. Placed'
    BY <1>12, <1>a DEF RevokesAfterSetting, RevokeAll, Answered, Drops, Placed, RequestsOK, WeighedOK, SecretOK
  <2> QED
    BY <2>1, <2>2, <2>3, <2>4, <2>5, <2>6 DEF Inv
<1>13. ASSUME NEW r \in Handlers, GivesUp(r) PROVE Inv'
  <2>1. LimitsOK'
    BY <1>13, <1>a, <1>s DEF GivesUp, Answered, Drops
  <2>2. SecretOK'
    BY <1>13, <1>a, <1>s DEF GivesUp, Answered, Drops
  <2>3. TrayOK'
    BY <1>13, <1>a, <1>s DEF GivesUp, Answered, Drops
  <2>4. RequestsOK'
    BY <1>13, <1>a DEF GivesUp, Answered, Drops, RequestsOK, Stages
  <2>5. WeighedOK'
    BY <1>13, <1>a, <1>z DEF GivesUp, Answered, Drops, WeighedOK
  <2>6. Placed'
    BY <1>13, <1>a DEF GivesUp, Answered, Drops, Placed, RequestsOK, WeighedOK, SecretOK
  <2> QED
    BY <2>1, <2>2, <2>3, <2>4, <2>5, <2>6 DEF Inv
<1>14. ASSUME NEW a \in Addresses, SetupAgain(a) PROVE Inv'
  <2>1. LimitsOK'
    BY <1>14, <1>a, LimitsKept DEF SetupAgain
  <2>2. SecretOK'
    BY <1>14, <1>a, <1>s DEF SetupAgain
  <2>3. TrayOK'
    BY <1>14, <1>a, <1>s DEF SetupAgain
  <2>4. RequestsOK' /\ WeighedOK'
    BY <1>14, <1>a DEF SetupAgain, RequestsOK, WeighedOK
  <2>5. Placed'
    BY <1>14, <1>a DEF SetupAgain, Placed, WeighedOK, SecretOK
  <2> QED
    BY <2>1, <2>2, <2>3, <2>4, <2>5 DEF Inv
<1>15. ASSUME NEW a \in Addresses, LockoutEnds(a) \/ Forgets(a) PROVE Inv'
  <2>1. LimitsOK'
    BY <1>15, <1>a, LimitsKept DEF LockoutEnds, Forgets
  <2>2. SecretOK'
    BY <1>15, <1>a, <1>s DEF LockoutEnds, Forgets
  <2>3. TrayOK'
    BY <1>15, <1>a, <1>s DEF LockoutEnds, Forgets
  <2>4. RequestsOK' /\ WeighedOK'
    BY <1>15, <1>a DEF LockoutEnds, Forgets, RequestsOK, WeighedOK
  <2>5. Placed'
    BY <1>15, <1>a DEF LockoutEnds, Forgets, Placed, WeighedOK, SecretOK
  <2> QED
    BY <2>1, <2>2, <2>3, <2>4, <2>5 DEF Inv
<1>16. ASSUME NEW p \in 1..MaxPasswords, SessionEnds(p) PROVE Inv'
  <2>1. LimitsOK'
    BY <1>16, <1>a, <1>s DEF SessionEnds
  <2>2. SecretOK'
    BY <1>16, <1>a DEF SessionEnds, SecretOK
  <2>3. TrayOK'
    BY <1>16, <1>a, <1>s DEF SessionEnds
  <2>4. RequestsOK' /\ WeighedOK'
    BY <1>16, <1>a DEF SessionEnds, RequestsOK, WeighedOK
  <2>5. Placed'
    BY <1>16, <1>a DEF SessionEnds, Placed, WeighedOK, SecretOK
  <2> QED
    BY <2>1, <2>2, <2>3, <2>4, <2>5 DEF Inv
<1>17. ASSUME ResetPassword PROVE Inv'
  <2>1. LimitsOK'
    BY <1>17, <1>a, <1>s DEF ResetPassword, Commands
  <2>2. SecretOK'
    BY <1>17, <1>a DEF ResetPassword, SecretOK
  <2>3. TrayOK'
    BY <1>17, <1>a DEF ResetPassword, Commands, TrayOK
  <2>4. RequestsOK' /\ WeighedOK'
    BY <1>17, <1>a DEF ResetPassword, Commands, RequestsOK, WeighedOK
  <2>5. Placed'
    BY <1>17, <1>a DEF ResetPassword, Commands, Placed, WeighedOK, SecretOK
  <2> QED
    BY <2>1, <2>2, <2>3, <2>4, <2>5 DEF Inv
<1>18. ASSUME RevokesAfterReset PROVE Inv'
  <2>1. LimitsOK'
    BY <1>18, <1>a, <1>s DEF RevokesAfterReset, RevokeAll
  <2>2. SecretOK'
    BY <1>18, <1>a DEF RevokesAfterReset, RevokeAll, SecretOK
  <2>3. TrayOK'
    BY <1>18, <1>a DEF RevokesAfterReset, TrayOK
  <2>4. RequestsOK' /\ WeighedOK'
    BY <1>18, <1>a DEF RevokesAfterReset, RevokeAll, RequestsOK, WeighedOK
  <2>5. Placed'
    BY <1>18, <1>a DEF RevokesAfterReset, RevokeAll, Placed, WeighedOK, SecretOK
  <2> QED
    BY <2>1, <2>2, <2>3, <2>4, <2>5 DEF Inv
<1>19. ASSUME RevokeAllSessions PROVE Inv'
  <2>1. LimitsOK'
    BY <1>19, <1>a, <1>s DEF RevokeAllSessions, RevokeAll, Commands
  <2>2. SecretOK'
    BY <1>19, <1>a DEF RevokeAllSessions, RevokeAll, SecretOK
  <2>3. TrayOK'
    BY <1>19, <1>a DEF RevokeAllSessions, Commands, TrayOK
  <2>4. RequestsOK' /\ WeighedOK'
    BY <1>19, <1>a DEF RevokeAllSessions, RevokeAll, Commands, RequestsOK, WeighedOK
  <2>5. Placed'
    BY <1>19, <1>a DEF RevokeAllSessions, RevokeAll, Commands, Placed, WeighedOK, SecretOK
  <2> QED
    BY <2>1, <2>2, <2>3, <2>4, <2>5 DEF Inv
<1>20. CASE UNCHANGED vars
  BY <1>20, <1>a, <1>s DEF vars, Inv, RequestsOK, Placed
<1> QED
  BY <1>1, <1>2, <1>3, <1>4, <1>5, <1>6, <1>7, <1>8, <1>9, <1>10, <1>11, <1>12, <1>13, <1>14, <1>15, <1>16, <1>17, <1>18, <1>19, <1>20
     DEF Next, Handles, CheckPassword

\* The types, and the limiter's table, which holds at most MaxTracked records:
\* server.go's admit, checkPassword and apiSetup, in any order.
THEOREM TypeCorrect == Spec => []TypeOK
<1>1. Inv => TypeOK
  BY DEF Inv, SecretOK, LimitsOK, RequestsOK, Stages, WeighedOK, TrayOK, TypeOK
<1> QED
  BY <1>1, InvInit, InvStep, PTL DEF Spec

-----------------------------------------------------------------------------
LockInv == Inv /\ Alone /\ LockedOutIsNotWeighed

LEMMA LockStep == LockInv /\ [Next]_vars => LockInv'
<1> SUFFICES ASSUME LockInv, [Next]_vars PROVE LockInv'
  OBVIOUS
<1> USE SignInAssumption DEF secret, store, limits, request, weighed, tray
<1>a. Inv /\ RequestsOK /\ Placed /\ Alone /\ LockedOutIsNotWeighed
  BY DEF LockInv, Inv
<1>i. Inv'
  BY <1>a, InvStep

\* An attempt begins from an address that is not locked and has no other.
<1>1. ASSUME NEW r \in Handlers, NEW a \in Addresses,
             Admits(a) /\ at[r] = "idle" /\ from' = [from EXCEPT ![r] = a],
             NEW there, at' = [at EXCEPT ![r] = there], locked' = locked
      PROVE  (Alone /\ LockedOutIsNotWeighed)'
  BY <1>1, <1>a DEF Admits, Alone, LockedOutIsNotWeighed, RequestsOK

\* It goes on, with no lock that was not there.
<1>2. ASSUME NEW r \in Handlers, NEW there,
             at[r] \notin {"idle", "slowed"} \/ there \in {"idle", "slowed"},
             at' = [at EXCEPT ![r] = there],
             from' = from, locked' \subseteq locked
      PROVE  (Alone /\ LockedOutIsNotWeighed)'
  BY <1>2, <1>a DEF Alone, LockedOutIsNotWeighed, RequestsOK

\* It is wrong: the address may be locked, and its only attempt is not weighed.
<1>3. ASSUME NEW r \in Handlers, IsWrong(r)
      PROVE  (Alone /\ LockedOutIsNotWeighed)'
  <2>1. at' = [at EXCEPT ![r] = "slowed"] /\ from' = from /\ from[r] # Nobody
    BY <1>3, <1>a DEF IsWrong, Goes, Placed
  <2>2. locked' \subseteq locked \cup {from[r]}
    BY <1>3 DEF IsWrong, Fail
  <2> QED
    BY <2>1, <2>2, <1>a DEF Alone, LockedOutIsNotWeighed, RequestsOK
\* It is answered, and the address is free.
<1>4. ASSUME NEW r \in Handlers, Answered(r), locked' = locked
      PROVE  (Alone /\ LockedOutIsNotWeighed)'
  BY <1>4, <1>a DEF Answered, Alone, LockedOutIsNotWeighed, RequestsOK

\* No attempt moves.
<1>5. ASSUME UNCHANGED <<at, from>>, locked' \subseteq locked
      PROVE  (Alone /\ LockedOutIsNotWeighed)'
  BY <1>5, <1>a DEF Alone, LockedOutIsNotWeighed
<1>6. ASSUME NEW a \in Addresses, SetupAgain(a)
      PROVE  (Alone /\ LockedOutIsNotWeighed)'
  <2>1. UNCHANGED <<at, from>> /\ locked' \subseteq locked \cup {a}
    BY <1>6 DEF SetupAgain, Fail
  <2> QED
    BY <2>1, <1>6, <1>a DEF SetupAgain, Admits, Alone, LockedOutIsNotWeighed
<1>7. ASSUME NEW r \in Handlers, NEW a \in Addresses,
             Login(r, a) \/ Change(r, a) \/ Setup(r, a)
      PROVE  (Alone /\ LockedOutIsNotWeighed)'
  BY <1>1, <1>7 DEF Login, Change, Setup, Begins, Goes
<1>8. ASSUME NEW r \in Handlers,
             \/ ReadsTheGeneration(r) \/ ReadsThePassword(r) \/ IsRight(r)
             \/ QueuesToHash(r) \/ Hashes(r) \/ SetsThePassword(r)
      PROVE  (Alone /\ LockedOutIsNotWeighed)'
  <2>1. PICK there \in Stages : at' = [at EXCEPT ![r] = there]
    BY <1>8 DEF ReadsTheGeneration, ReadsThePassword, IsRight, QueuesToHash, Hashes,
                SetsThePassword, Goes, Stages
  <2>2. at[r] \notin {"idle", "slowed"} /\ from' = from /\ locked' \subseteq locked
    BY <1>8 DEF ReadsTheGeneration, ReadsThePassword, IsRight, QueuesToHash, Hashes,
                SetsThePassword, Goes, Success
  <2> QED
    BY <1>2, <2>1, <2>2
<1>9. ASSUME NEW r \in Handlers,
             \/ Refuses(r) \/ OpensASession(r) \/ SetsNothing(r)
             \/ RevokesAfterSetting(r) \/ GivesUp(r)
      PROVE  (Alone /\ LockedOutIsNotWeighed)'
  BY <1>4, <1>9 DEF Refuses, OpensASession, SetsNothing, RevokesAfterSetting, GivesUp
<1>10. ASSUME NEW a \in Addresses, LockoutEnds(a) \/ Forgets(a)
       PROVE  (Alone /\ LockedOutIsNotWeighed)'
  BY <1>5, <1>10 DEF LockoutEnds, Forgets
<1>11. ASSUME NEW p \in 1..MaxPasswords, SessionEnds(p)
       PROVE  (Alone /\ LockedOutIsNotWeighed)'
  BY <1>5, <1>11 DEF SessionEnds
<1>12. ASSUME ResetPassword \/ RevokesAfterReset \/ RevokeAllSessions \/ UNCHANGED vars
       PROVE  (Alone /\ LockedOutIsNotWeighed)'
  BY <1>5, <1>12 DEF ResetPassword, RevokesAfterReset, RevokeAllSessions, vars
<1>13. (Alone /\ LockedOutIsNotWeighed)'
  BY <1>3, <1>6, <1>7, <1>8, <1>9, <1>10, <1>11, <1>12 DEF Next, Handles, CheckPassword
<1> QED
  BY <1>i, <1>13 DEF LockInv

\* limiter.begin's promise: an address that is locked out has no attempt that is
\* weighed or waits to be, and no more than one is ever on its way.
THEOREM LockoutHolds == Spec => []LockedOutIsNotWeighed
<1>1. Init => LockInv
  BY InvInit, SignInAssumption DEF Init, LockInv, Alone, LockedOutIsNotWeighed
<1>2. LockInv => LockedOutIsNotWeighed
  BY DEF LockInv
<1> QED
  BY <1>1, <1>2, LockStep, PTL DEF Spec

-----------------------------------------------------------------------------
SessionInv == Inv /\ InForce /\ SessionsKnowThePassword

LEMMA SessionStep == SessionInv /\ [Next]_vars => SessionInv'
<1> SUFFICES ASSUME SessionInv, [Next]_vars PROVE SessionInv'
  OBVIOUS
<1> USE DEF secret, store, limits, request, weighed, tray
<1>a. /\ Inv /\ SecretOK /\ RequestsOK /\ WeighedOK /\ Placed
      /\ InForce /\ SessionsKnowThePassword
  BY DEF SessionInv, Inv
<1>i. Inv' /\ RequestsOK'
  BY <1>a, InvStep DEF Inv
<1> DEFINE Goal == InForce /\ SessionsKnowThePassword
\* What a request does before it revokes: nothing is revoked that was not to be,
\* and what it holds it held before.
<1>1. ASSUME NEW r \in Handlers, NEW there \in Stages, at[r] # "revokes",
             at' = [at EXCEPT ![r] = there],
             there # "weighing",
             there = "opens" => at[r] = "weighing" /\ UNCHANGED weighed,
             \A q \in Handlers \ {r} : seen'[q] = seen[q] /\ under'[q] = under[q],
             UNCHANGED <<password, sessions, generation, resetting>>
      PROVE  Goal'
  <2>1. Revoking => Revoking'
    BY <1>1, <1>a DEF Revoking, RequestsOK
  <2>2. InForce'
    BY <1>1, <2>1, <1>a DEF InForce, RequestsOK
  <2>3. SessionsKnowThePassword'
    BY <1>1, <2>1, <1>a DEF SessionsKnowThePassword
  <2> QED
    BY <2>2, <2>3
<1>2. ASSUME NEW r \in Handlers, ReadsThePassword(r) PROVE Goal'
  <2>1. Revoking => Revoking'
    BY <1>2, <1>a DEF ReadsThePassword, Goes, Revoking, RequestsOK
  <2>2. InForce'
    BY <1>2, <2>1, <1>a DEF ReadsThePassword, Goes, InForce, RequestsOK, WeighedOK
  <2>3. SessionsKnowThePassword'
    BY <1>2, <2>1, <1>a DEF ReadsThePassword, SessionsKnowThePassword
  <2> QED
    BY <2>2, <2>3
\* The session is opened under the generation in force, or is not.
<1>3. ASSUME NEW r \in Handlers, OpensASession(r) PROVE Goal'
  <2>1. Revoking => Revoking'
    BY <1>3, <1>a DEF OpensASession, Answered, Revoking, RequestsOK
  <2>2. InForce'
    BY <1>3, <2>1, <1>a DEF OpensASession, Answered, Drops, InForce, RequestsOK, WeighedOK
  <2>3. seen[r] = generation /\ ~Revoking => under[r] = password
    BY <1>3, <1>a DEF OpensASession, InForce
  <2>4. SessionsKnowThePassword'
    BY <1>3, <2>1, <2>3, <1>a DEF OpensASession, MayOpen, SessionsKnowThePassword
  <2> QED
    BY <2>2, <2>4
<1>4. ASSUME Revoking', sessions' = sessions PROVE Goal'
  BY <1>4 DEF InForce, SessionsKnowThePassword

\* A revocation leaves no session, and no request that has read its generation.
<1>5. ASSUME RevokeAll,
             \A r \in Handlers : at'[r] \in {"weighing", "opens"} =>
                                   at'[r] = at[r] /\ seen'[r] = seen[r]
      PROVE  Goal'
  <2>1. InForce'
    BY <1>5, <1>a DEF RevokeAll, InForce, Placed, WeighedOK, SecretOK
  <2>2. SessionsKnowThePassword'
    BY <1>5 DEF RevokeAll, SessionsKnowThePassword
  <2> QED
    BY <2>1, <2>2
\* Nothing moves but, perhaps, the limiter, or a session that ends.
<1>6. ASSUME UNCHANGED <<password, generation, at, weighed, resetting>>,
             sessions' \subseteq sessions
      PROVE  Goal'
  <2>1. Revoking' = Revoking
    BY <1>6 DEF Revoking
  <2> QED
    BY <1>6, <2>1, <1>a DEF InForce, SessionsKnowThePassword
<1>7. ASSUME NEW r \in Handlers, NEW a \in Addresses,
             Login(r, a) \/ Change(r, a) \/ Setup(r, a)
      PROVE  Goal'
  BY <1>1, <1>7 DEF Login, Change, Setup, Begins, Goes, Stages
<1>8. ASSUME NEW r \in Handlers,
             \/ ReadsTheGeneration(r) \/ QueuesToHash(r) \/ Hashes(r)
      PROVE  Goal'
  <2>1. /\ at[r] # "revokes"
        /\ \/ at' = [at EXCEPT ![r] = "read"] \/ at' = [at EXCEPT ![r] = "hash"]
           \/ at' = [at EXCEPT ![r] = "sets"]
    BY <1>8 DEF ReadsTheGeneration, QueuesToHash, Hashes, Goes
  <2>2. \A q \in Handlers \ {r} : seen'[q] = seen[q] /\ under'[q] = under[q]
    BY <1>8, <1>a DEF ReadsTheGeneration, QueuesToHash, Hashes, WeighedOK
  <2>3. UNCHANGED <<password, sessions, generation, resetting>>
    BY <1>8 DEF ReadsTheGeneration, QueuesToHash, Hashes
  <2> QED
    BY <1>1, <2>1, <2>2, <2>3 DEF Stages
<1>9. ASSUME NEW r \in Handlers, IsRight(r) \/ IsWrong(r) PROVE Goal'
  <2>1. /\ at[r] # "revokes"
        /\ \/ at' = [at EXCEPT ![r] = "opens"] /\ at[r] = "weighing" /\ UNCHANGED weighed
           \/ at' = [at EXCEPT ![r] = "queue to hash"] \/ at' = [at EXCEPT ![r] = "slowed"]
    BY <1>9 DEF IsRight, IsWrong, Goes
  <2>2. UNCHANGED weighed \/ Drops(r)
    BY <1>9 DEF IsRight, IsWrong
  <2>3. \A q \in Handlers \ {r} : seen'[q] = seen[q] /\ under'[q] = under[q]
    BY <2>2, <1>a DEF Drops, WeighedOK
  <2>4. UNCHANGED <<password, sessions, generation, resetting>>
    BY <1>9 DEF IsRight, IsWrong
  <2> QED
    BY <1>1, <2>1, <2>3, <2>4 DEF Stages
<1>10. ASSUME NEW r \in Handlers, Refuses(r) \/ SetsNothing(r) \/ GivesUp(r) PROVE Goal'
  <2>1. at[r] # "revokes" /\ at' = [at EXCEPT ![r] = "idle"]
    BY <1>10 DEF Refuses, SetsNothing, GivesUp, Answered
  <2>2. \A q \in Handlers \ {r} : seen'[q] = seen[q] /\ under'[q] = under[q]
    BY <1>10, <1>a DEF Refuses, SetsNothing, GivesUp, Answered, Drops, WeighedOK
  <2>3. UNCHANGED <<password, sessions, generation, resetting>>
    BY <1>10 DEF Refuses, SetsNothing, GivesUp
  <2> QED
    BY <1>1, <2>1, <2>2, <2>3 DEF Stages
<1>11. ASSUME NEW r \in Handlers, SetsThePassword(r) PROVE Goal'
  <2>1. at'[r] = "revokes" /\ sessions' = sessions
    BY <1>11, <1>a DEF SetsThePassword, Goes, RequestsOK
  <2> QED
    BY <1>4, <2>1 DEF Revoking
<1>12. ASSUME NEW r \in Handlers, RevokesAfterSetting(r) PROVE Goal'
  <2>1. \A q \in Handlers : at'[q] \in {"weighing", "opens"} =>
                              at'[q] = at[q] /\ seen'[q] = seen[q]
    BY <1>12, <1>a DEF RevokesAfterSetting, Answered, Drops, RequestsOK, WeighedOK
  <2> QED
    BY <1>5, <1>12, <2>1 DEF RevokesAfterSetting
<1>13. ASSUME NEW a \in Addresses, SetupAgain(a) \/ LockoutEnds(a) \/ Forgets(a) PROVE Goal'
  BY <1>6, <1>13 DEF SetupAgain, LockoutEnds, Forgets
<1>14. ASSUME NEW p \in 1..MaxPasswords, SessionEnds(p) PROVE Goal'
  BY <1>6, <1>14 DEF SessionEnds
<1>15. ASSUME ResetPassword PROVE Goal'
  BY <1>4, <1>15 DEF ResetPassword, Revoking
<1>16. ASSUME RevokesAfterReset \/ RevokeAllSessions PROVE Goal'
  BY <1>5, <1>16 DEF RevokesAfterReset, RevokeAllSessions
<1>17. ASSUME UNCHANGED vars PROVE Goal'
  BY <1>6, <1>17 DEF vars
<1>18. Goal'
  <2> HIDE DEF Goal
  <2> QED
    BY <1>2, <1>3, <1>7, <1>8, <1>9, <1>10, <1>11, <1>12, <1>13, <1>14, <1>15, <1>16, <1>17
       DEF Next, Handles, CheckPassword
<1> QED
  BY <1>i, <1>18 DEF SessionInv

\* createAt's promise: no session is opened with a password that has been
\* changed, reset or set while it was being weighed.
THEOREM NoSessionOutlivesItsPassword == Spec => []SessionsKnowThePassword
<1>1. Init => SessionInv
  BY InvInit DEF Init, SessionInv, InForce, SessionsKnowThePassword
<1>2. SessionInv => SessionsKnowThePassword
  BY DEF SessionInv
<1> QED
  BY <1>1, <1>2, SessionStep, PTL DEF Spec

\* apiSetup's second look: a setup sets a password only where there is none.
THEOREM OnlyTheFirstSetupSets == Spec => FirstSetupStays
<1>1. ASSUME Inv, [Next]_vars, NEW r \in Handlers,
             kind[r] = "setup", at[r] = "sets", at'[r] = "revokes"
      PROVE  password = 0
  <2> USE DEF secret, store, limits, request, weighed, tray
  <2>a. at \in [Handlers -> Stages]
    BY <1>1 DEF Inv, RequestsOK
  <2>1. ASSUME NEW q \in Handlers, SetsThePassword(q) PROVE password = 0
    BY <1>1, <2>1, <2>a DEF SetsThePassword, IsRefused, Goes
  <2>2. ASSUME NEW q \in Handlers, NEW there \in Stages \ {"revokes"},
               at' = [at EXCEPT ![q] = there]
        PROVE  FALSE
    BY <1>1, <2>2, <2>a
  <2>3. ASSUME at' = at PROVE FALSE
    BY <1>1, <2>3
  <2>4. ASSUME NEW q \in Handlers, NEW a \in Addresses,
               Login(q, a) \/ Change(q, a) \/ Setup(q, a)
        PROVE  FALSE
    BY <2>2, <2>4 DEF Login, Change, Setup, Begins, Goes, Stages
  <2>5. ASSUME NEW q \in Handlers, Handles(q) \/ GivesUp(q), ~SetsThePassword(q)
        PROVE  FALSE
    <3>1. \E there \in Stages \ {"revokes"} : at' = [at EXCEPT ![q] = there]
      BY <2>5 DEF Handles, CheckPassword, ReadsTheGeneration, ReadsThePassword, IsRight,
                  IsWrong, Refuses, OpensASession, QueuesToHash, Hashes, SetsNothing,
                  RevokesAfterSetting, GivesUp, Answered, Goes, Stages
    <3> QED
      BY <3>1, <2>2
  <2>6. ASSUME \/ \E a \in Addresses : SetupAgain(a) \/ LockoutEnds(a) \/ Forgets(a)
               \/ \E p \in 1..MaxPasswords : SessionEnds(p)
               \/ ResetPassword \/ RevokesAfterReset \/ RevokeAllSessions
               \/ UNCHANGED vars
        PROVE  FALSE
    BY <2>3, <2>6 DEF SetupAgain, LockoutEnds, Forgets, SessionEnds, ResetPassword,
                      RevokesAfterReset, RevokeAllSessions, vars
  <2> QED
    BY <1>1, <2>1, <2>4, <2>5, <2>6 DEF Next
<1>2. Inv /\ [Next]_vars =>
        [\A r \in Handlers :
           kind[r] = "setup" /\ at[r] = "sets" /\ at'[r] = "revokes" => password = 0]_vars
  BY <1>1
<1> QED
  BY <1>2, InvInit, InvStep, PTL DEF Spec, FirstSetupStays

\* Both at once: no session outlives its password, and an address that is locked
\* out is not weighed.
THEOREM SignInIsSafe == Spec => []SignInSafety
<1>1. TypeOK /\ SessionsKnowThePassword /\ LockedOutIsNotWeighed => SignInSafety
  BY DEF SignInSafety
<1> QED
  BY <1>1, TypeCorrect, NoSessionOutlivesItsPassword, LockoutHolds, PTL
=============================================================================
