------------------------------- MODULE Updates -------------------------------
(***************************************************************************)
(* internal/update and the order of internal/version: once a day the page  *)
(* of the latest release is asked for, with the tag of the one read last,  *)
(* and what it says is kept, shown in the panel, and announced.            *)
(*                                                                         *)
(* A version is its three numbers and a label; no label is 0.  Releases    *)
(* appear and are withdrawn, the document may be one that says nothing,    *)
(* and an answer may not come.                                             *)
(***************************************************************************)
EXTENDS Integers, Sequences

CONSTANTS Running,    \* version.Number
          Releases,   \* what may be published
          MaxReleases \* how often the document changes

ReleaseVersions == [n : [1..3 -> Nat], pre : Nat]

ASSUME UpdatesAssumption == Releases \cup {Running} \subseteq ReleaseVersions /\ MaxReleases \in Nat

-----------------------------------------------------------------------------
\* version.compare: the numbers from the left, and then the label.

AsText(a, b) == FALSE                                              \* mutant
LabelIsEarlier(a, b) == a # b /\ a # 0 /\ (b = 0 \/ a < b)

FirstDifference(a, b) == {i \in 1..3 : a[i] # b[i] /\ \A j \in 1..(i - 1) : a[j] = b[j]}
Newer(a, b) ==
  IF a.n = b.n THEN LabelIsEarlier(a.pre, b.pre)
  ELSE \E i \in FirstDifference(a.n, b.n) : a.n[i] < b.n[i]

-----------------------------------------------------------------------------
\* A release's document: which it is, of what version, whether its tag can be
\* read, whether it is a draft or a pre-release, and whether its page is one of
\* ours.
Documents == [of : Releases, readable : BOOLEAN, early : BOOLEAN, ours : BOOLEAN]

\* The code's Unknown is the empty string.
Unknown == [code |-> "unknown", of |-> Running]
Verdict(r) ==
  IF r.early \/ ~r.readable THEN Unknown
  ELSE IF ~Newer(Running, r.of) THEN [code |-> "current", of |-> Running]
  ELSE IF r.ours THEN [code |-> "available", of |-> r.of] ELSE Unknown

VARIABLES
  document, number, \* what the server has, and how many it had
  last, etag,       \* Checker: what is known, and the document it is of, or 0
  told,             \* the version the balloon was of
  heard,         \* history: the document of the last answer that was one
  repeated          \* history: a balloon was of the version of the one before it

updateVars == <<document, number, last, etag, told, heard, repeated>>

NoVersion == [n |-> <<0, 0, 0>>, pre |-> 0]
UpdatesInit ==
  /\ document \in Documents /\ number = 1 /\ last = Unknown /\ etag = 0
  /\ told = NoVersion /\ heard = Unknown /\ repeated = FALSE

Publishes ==
  /\ number < MaxReleases /\ number' = number + 1 /\ document' \in Documents
  /\ UNCHANGED <<last, etag, told, heard, repeated>>

\* The balloon, once for a version.
EveryAnswer(st) == st.code = "available"                           \* mutant
IsToBeTold(st) == st.code = "available" /\ st.of # told

Tells(st) ==
  /\ told' = IF IsToBeTold(st) THEN st.of ELSE told
  /\ repeated' = (repeated \/ (IsToBeTold(st) /\ told = st.of))

\* Check, with an answer in full: one without a verdict is a failed attempt, and
\* neither it nor its tag is kept.
KeepsTheTag(st) == number                                          \* mutant
NewTag(st) == IF st.code = "unknown" THEN etag ELSE number
LosesWhatIsKnown(st) == st                                                  \* mutant
Learnt(st) == IF st.code = "unknown" THEN last ELSE st

Reads ==
  LET st == Verdict(document) IN
  /\ etag # number
  /\ last' = Learnt(st) /\ etag' = NewTag(st)
  /\ heard' = IF st.code = "unknown" THEN heard ELSE st
  /\ IF st.code = "unknown" THEN UNCHANGED <<told, repeated>> ELSE Tells(st)
  /\ UNCHANGED <<document, number>>

\* Not modified: what is known still holds.
IsUnchanged ==
  /\ etag = number /\ Tells(last) /\ heard' = Verdict(document)
  /\ UNCHANGED <<document, number, last, etag>>

UpdatesNext == Publishes \/ Reads \/ IsUnchanged

-----------------------------------------------------------------------------
\* The order of the versions is an order: of two different ones one is the newer,
\* and what is newer than the newer is newer.
NewerIsAnOrder ==
  LET c == document.of IN
  \A a, b \in Releases \cup {Running} :
    /\ a # b => (Newer(a, b) <=> ~Newer(b, a))
    /\ Newer(a, b) /\ Newer(b, c) => Newer(a, c)
    /\ a.n = b.n /\ a.pre # 0 /\ b.pre = 0 => Newer(a, b)

\* What is known is what the last document that could be read said: an answer
\* that says nothing takes no update away.
WhatWasReadIsKnown == last = heard

\* Nobody is told that this is the newest while a document that says otherwise
\* has been answered for: a tag is kept with the verdict it is of.
TheTagIsOfTheVerdict == etag = number => last = Verdict(document)

\* A version is announced, and not day after day.
ABalloonIsNotRepeated == ~repeated /\ (last.code = "available" => told = last.of)

\* Together: versions are ordered, what was read is known under the tag of its own
\* document, and a version is announced once.
UpdatesSafety == NewerIsAnOrder /\ WhatWasReadIsKnown /\ TheTagIsOfTheVerdict /\ ABalloonIsNotRepeated
=============================================================================
