------------------------------- MODULE SignIn -------------------------------
(***************************************************************************)
(* The one password, the sessions opened with it and the attempts to open  *)
(* one: sessionStore and limiter of internal/server/auth.go, and apiLogin, *)
(* apiPassword, apiSetup, ResetPassword and RevokeAllSessions of           *)
(* internal/server/server.go.                                              *)
(*                                                                         *)
(* A handler is a process, and serves one request at a time.  Weighing a   *)
(* password takes a tenth of a second in a hashing slot with no lock held, *)
(* and the password is changed, reset and set under the store's lock a     *)
(* moment before the sessions are revoked.  A counter of revocations, read *)
(* before the password is and compared when the session is made, joins the *)
(* two.                                                                    *)
(*                                                                         *)
(* Passwords are numbered as they are set; 0 is none.                      *)
(***************************************************************************)
EXTENDS Naturals, FiniteSets

CONSTANTS Handlers,     \* requests served at once
          Addresses,    \* what a request is charged to: clientKey
          Nobody,       \* none of them
          Home,         \* those that do not come through the Funnel
          ThisPC,       \* those of this machine: 127.0.0.1, ::1
          SharedSlots,  \* hashSlots - homeSlots
          HomeSlots,
          FreeAttempts,
          MaxTracked,   \* maxTrackedAddresses
          AtStart,      \* what the file may hold at the start: 0, or the first password
          MaxPasswords, \* passwords set: a bound
          MaxCommands   \* the tray's: a bound

ASSUME SignInAssumption ==
  /\ IsFiniteSet(Handlers) /\ IsFiniteSet(Addresses)
  /\ Nobody \notin Addresses
  /\ Home \subseteq Addresses /\ ThisPC \subseteq Home
  /\ SharedSlots \in Nat /\ HomeSlots \in Nat
  /\ FreeAttempts \in Nat /\ MaxTracked \in Nat
  /\ AtStart \subseteq {0, 1} /\ MaxPasswords \in Nat \ {0} /\ MaxCommands \in Nat

VARIABLES
  password,   \* Config.PasswordHash, or 0
  count,      \* the passwords there have been
  sessions,   \* the passwords that open sessions were opened with
  generation, \* sessionStore.generation
  failures,   \* limiter.m: the failures on record for each address
  locked,     \* the addresses whose lockedUntil is to come
  at,         \* where each handler is
  from,       \* the address its attempt is admitted from: limiter.inFlight
  kind,       \* what it does
  slot,       \* the hashing slot it holds
  seen,       \* the generation it read
  under,      \* the password it weighs against
  resetting,  \* ResetPassword is between its two steps
  commands    \* what the tray has asked for

secret == <<password, count>>
store == <<sessions, generation>>
limits == <<failures, locked>>
request == <<from, kind>>
weighed == <<seen, under>>
tray == <<resetting, commands>>
vars == <<secret, store, limits, at, request, slot, weighed, tray>>

\* The monitor starts with what its file holds; the rest is memory.
Init ==
  /\ password \in AtStart /\ count = password
  /\ sessions = {} /\ generation = 0
  /\ failures = [a \in Addresses |-> 0] /\ locked = {}
  /\ at = [r \in Handlers |-> "idle"]
  /\ from = [r \in Handlers |-> Nobody]
  /\ kind = [r \in Handlers |-> "login"]
  /\ slot = [r \in Handlers |-> "none"]
  /\ seen = [r \in Handlers |-> 0] /\ under = [r \in Handlers |-> 0]
  /\ resetting = FALSE /\ commands = 0

Goes(r, here, there) == at[r] = here /\ at' = [at EXCEPT ![r] = there]

\* Nothing depends on what it read any more.
Drops(r) == seen' = [seen EXCEPT ![r] = 0] /\ under' = [under EXCEPT ![r] = 0]

\* The answer is written, and the deferred release lets the address in again.
Answered(r) ==
  /\ at' = [at EXCEPT ![r] = "idle"]
  /\ from' = [from EXCEPT ![r] = Nobody]
  /\ kind' = [kind EXCEPT ![r] = "login"]
  /\ Drops(r)

-----------------------------------------------------------------------------
\* The limiter.

\* begin: no lockout, and no other attempt from the address before its answer.
AdmitsABurst(a) == a \notin locked                                  \* mutant
Admits(a) == a \notin locked /\ \A r \in Handlers : from[r] # a

\* fail: a table that is full takes no new address.
Tracked == {a \in Addresses : failures[a] > 0}
NeverFull(a) == FALSE                                               \* mutant
IsFull(a) == failures[a] = 0 /\ Cardinality(Tracked) >= MaxTracked

Fail(a) ==
  IF IsFull(a)
    THEN UNCHANGED limits
    ELSE /\ failures' = [failures EXCEPT ![a] = IF @ > FreeAttempts THEN @ ELSE @ + 1]
         /\ locked' = IF failures[a] >= FreeAttempts THEN locked \cup {a} ELSE locked

Success(a) ==
  /\ failures' = [failures EXCEPT ![a] = 0]
  /\ locked' = locked \ {a}

LockoutEnds(a) ==
  /\ a \in locked /\ locked' = locked \ {a}
  /\ UNCHANGED <<secret, store, failures, at, request, slot, weighed, tray>>

\* attemptWindow, longer than any lockout.
Forgets(a) ==
  /\ failures[a] > 0 /\ a \notin locked
  /\ failures' = [failures EXCEPT ![a] = 0]
  /\ UNCHANGED <<secret, store, locked, at, request, slot, weighed, tray>>

-----------------------------------------------------------------------------
\* The beginning of each handler.

Begins(r, a, what, first) ==
  /\ Admits(a) /\ Goes(r, "idle", first)
  /\ from' = [from EXCEPT ![r] = a] /\ kind' = [kind EXCEPT ![r] = what]
  /\ UNCHANGED <<secret, store, limits, slot, weighed, tray>>

Login(r, a) == password # 0 /\ Begins(r, a, "login", "queue")

\* It wants a session too.
Change(r, a) == password # 0 /\ sessions # {} /\ Begins(r, a, "change", "queue")

\* At this PC only.
Setup(r, a) == a \in ThisPC /\ password = 0 /\ Begins(r, a, "setup", "queue to hash")

\* With a password in force it is charged, and answered at once.
SetupAgain(a) ==
  /\ a \in ThisPC /\ password # 0 /\ Admits(a)
  /\ Fail(a)
  /\ UNCHANGED <<secret, store, at, request, slot, weighed, tray>>

-----------------------------------------------------------------------------
\* hashSlot: from home the kept slot or a shared one, from outside a shared one.

Holders(s) == {r \in Handlers : slot[r] = s}
SharedOnly(r) ==                                                    \* mutant
  IF Cardinality(Holders("shared")) < SharedSlots THEN {"shared"} ELSE {}
FreeSlots(r) ==
  {s \in {"shared", "home"} :
     /\ s = "home" => from[r] \in Home
     /\ Cardinality(Holders(s)) < (IF s = "home" THEN HomeSlots ELSE SharedSlots)}

TakesASlot(r) == \E s \in FreeSlots(r) : slot' = [slot EXCEPT ![r] = s]
ReleasesTheSlot(r) == slot' = [slot EXCEPT ![r] = "none"]

\* The request goes away while it waits.
GivesUp(r) ==
  /\ at[r] \in {"queue", "queue to hash"} /\ Answered(r)
  /\ UNCHANGED <<secret, store, limits, slot, tray>>

-----------------------------------------------------------------------------
\* checkPassword: a slot, the generation, then the password, then argon2.

ReadsTheGeneration(r) ==
  /\ Goes(r, "queue", "read") /\ TakesASlot(r)
  /\ seen' = [seen EXCEPT ![r] = generation]
  /\ UNCHANGED <<secret, store, limits, request, under, tray>>

ReadsThePassword(r) ==
  /\ Goes(r, "read", "weighing")
  /\ under' = [under EXCEPT ![r] = password]
  /\ UNCHANGED <<secret, store, limits, request, slot, seen, tray>>

\* A change has no use for the generation.
IsRight(r) ==
  /\ under[r] # 0
  /\ ReleasesTheSlot(r) /\ Success(from[r])
  /\ \/ kind[r] = "login" /\ Goes(r, "weighing", "opens") /\ UNCHANGED weighed
     \/ kind[r] = "change" /\ Goes(r, "weighing", "queue to hash") /\ Drops(r)
  /\ UNCHANGED <<secret, store, request, tray>>

\* The answer waits out the global slowdown, with the address still admitted.
IsWrong(r) ==
  /\ Goes(r, "weighing", "slowed") /\ Drops(r)
  /\ ReleasesTheSlot(r) /\ Fail(from[r])
  /\ UNCHANGED <<secret, store, request, tray>>

Refuses(r) ==
  /\ at[r] = "slowed" /\ Answered(r)
  /\ UNCHANGED <<secret, store, limits, slot, tray>>

-----------------------------------------------------------------------------
\* createAt

MayOpenWhatever(r) == TRUE                                          \* mutant
MayOpen(r) == seen[r] = generation

OpensASession(r) ==
  /\ at[r] = "opens" /\ Answered(r)
  /\ sessions' = IF MayOpen(r) THEN sessions \cup {under[r]} ELSE sessions
  /\ UNCHANGED <<secret, generation, limits, slot, tray>>

\* Logging out and expiring, of the last session opened with a password: that
\* of one of several changes nothing here.
SessionEnds(p) ==
  /\ p \in sessions /\ sessions' = sessions \ {p}
  /\ UNCHANGED <<secret, generation, limits, at, request, slot, weighed, tray>>

-----------------------------------------------------------------------------
\* The end of a change and of a setup, and the tray.

QueuesToHash(r) ==
  /\ Goes(r, "queue to hash", "hash") /\ TakesASlot(r)
  /\ UNCHANGED <<secret, store, limits, request, weighed, tray>>

Hashes(r) ==
  /\ Goes(r, "hash", "sets") /\ ReleasesTheSlot(r)
  /\ UNCHANGED <<secret, store, limits, request, weighed, tray>>

\* Under the store's lock, where a setup looks again whether there is one.
NeverRefused(r) == FALSE                                            \* mutant
IsRefused(r) == kind[r] = "setup" /\ password # 0

SetsThePassword(r) ==
  /\ ~IsRefused(r) /\ count < MaxPasswords
  /\ Goes(r, "sets", "revokes")
  /\ count' = count + 1 /\ password' = count'
  /\ IF kind[r] = "setup" THEN Success(from[r]) ELSE UNCHANGED limits
  /\ UNCHANGED <<store, request, slot, weighed, tray>>

\* It is refused, the new password is, or the file cannot be written, and then
\* memory is left as it was.
SetsNothing(r) ==
  /\ at[r] = "sets" /\ Answered(r)
  /\ UNCHANGED <<secret, store, limits, slot, tray>>

RevokeAll == sessions' = {} /\ generation' = generation + 1

RevokesAfterSetting(r) ==
  /\ at[r] = "revokes" /\ Answered(r)
  /\ RevokeAll
  /\ UNCHANGED <<secret, limits, slot, tray>>

Commands ==
  /\ ~resetting /\ commands < MaxCommands /\ commands' = commands + 1

ResetPassword ==
  /\ Commands /\ resetting' = TRUE
  /\ password' = 0
  /\ UNCHANGED <<count, store, limits, at, request, slot, weighed>>

RevokesAfterReset ==
  /\ resetting /\ resetting' = FALSE
  /\ RevokeAll
  /\ UNCHANGED <<secret, limits, at, request, slot, weighed, commands>>

RevokeAllSessions ==
  /\ Commands /\ RevokeAll
  /\ UNCHANGED <<secret, limits, at, request, slot, weighed, resetting>>

-----------------------------------------------------------------------------
CheckPassword(r) ==
  \/ ReadsTheGeneration(r) \/ ReadsThePassword(r)
  \/ IsRight(r) \/ IsWrong(r) \/ Refuses(r)

\* What a handler does by itself.
Handles(r) ==
  \/ CheckPassword(r) \/ OpensASession(r)
  \/ QueuesToHash(r) \/ Hashes(r)
  \/ SetsThePassword(r) \/ SetsNothing(r) \/ RevokesAfterSetting(r)

Next ==
  \/ \E r \in Handlers, a \in Addresses : Login(r, a) \/ Change(r, a) \/ Setup(r, a)
  \/ \E r \in Handlers : Handles(r) \/ GivesUp(r)
  \/ \E a \in Addresses : SetupAgain(a) \/ LockoutEnds(a) \/ Forgets(a)
  \/ \E p \in 1..MaxPasswords : SessionEnds(p)
  \/ ResetPassword \/ RevokesAfterReset \/ RevokeAllSessions

Spec == Init /\ [][Next]_vars

\* Handlers that can run do, and a free slot is taken by one that waits for it.
Fairness == \A r \in Handlers : WF_vars(Handles(r))

FairSpec == Spec /\ Fairness

-----------------------------------------------------------------------------
Revoking == resetting \/ \E r \in Handlers : at[r] = "revokes"

\* Every variable has its type, and limiter.m never outgrows its table.
TypeOK ==
  /\ password \in 0..count /\ count \in 0..MaxPasswords
  /\ sessions \in SUBSET (1..MaxPasswords) /\ generation \in Nat
  /\ failures \in [Addresses -> 0..(FreeAttempts + 1)] /\ locked \in SUBSET Addresses
  /\ Cardinality(Tracked) <= MaxTracked
  /\ at \in [Handlers -> {"idle", "queue", "read", "weighing", "slowed", "opens",
                          "queue to hash", "hash", "sets", "revokes"}]
  /\ from \in [Handlers -> Addresses \cup {Nobody}]
  /\ kind \in [Handlers -> {"login", "change", "setup"}]
  /\ slot \in [Handlers -> {"none", "shared", "home"}]
  /\ seen \in [Handlers -> Nat] /\ under \in [Handlers -> 0..MaxPasswords]
  /\ resetting \in BOOLEAN /\ commands \in 0..MaxCommands

\* A session outlives its password only while the revocation that follows the
\* change is on its way: none is opened behind it, however long the password
\* was being weighed and whatever else was changed, reset or set meanwhile.
SessionsKnowThePassword == ~Revoking => sessions \subseteq {password}

\* No attempt is weighed, nor waits to be, from an address that is locked out,
\* however many arrive together: what is on its way is counted before another.
LockedOutIsNotWeighed ==
  \A r \in Handlers : at[r] \notin {"idle", "slowed"} => from[r] \notin locked

\* A first-time setup never replaces a password: of several that found none
\* only one sets its own.
FirstSetupStays ==
  [][\A r \in Handlers :
       kind[r] = "setup" /\ at[r] = "sets" /\ at'[r] = "revokes" => password = 0]_vars

\* From home one is answered however many attempts keep coming from outside.
HomeIsAnswered ==
  \A r \in Handlers : at[r] # "idle" /\ from[r] \in Home ~> at[r] = "idle"

\* Together: a session lives no longer than the password it was given for, and who
\* is locked out has no password weighed.
SignInSafety == TypeOK /\ SessionsKnowThePassword /\ LockedOutIsNotWeighed
=============================================================================
