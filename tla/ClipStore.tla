----------------------------- MODULE ClipStore -----------------------------
(***************************************************************************)
(* The clips on disk: internal/record/store.go, with its quota and its     *)
(* expiry, what the pages do with a clip (internal/server/clips.go), and   *)
(* the process that ends while it writes one.                              *)
(*                                                                         *)
(* A clip's name is the second of its event and whether it is kept, so the *)
(* second is what a clip is known by.  A file that somebody is reading can *)
(* neither be removed nor renamed.  Sizes are in units of the quota.       *)
(***************************************************************************)
EXTENDS Integers, FiniteSets

CONSTANTS Quota, MaxAge,  \* 0 for none
          Sizes,
          NameTries,      \* nameTries
          PartAge,        \* how old a left part has to be to be swept
          MaxClips, LastSecond, MaxReaders \* bounds

ASSUME ClipStoreAssumption ==
  /\ Quota \in Nat /\ MaxAge \in Nat /\ Sizes \subseteq Nat \ {0} /\ NameTries \in Nat \ {0}
  /\ {PartAge, MaxClips, LastSecond, MaxReaders} \subseteq Nat

Seconds == 0..(LastSecond + NameTries)
Files == [at : Seconds, size : Sizes, kept : BOOLEAN, whole : BOOLEAN]

VARIABLES
  second,     \* the time
  disk,       \* the clips there are
  parts,      \* what a write that did not end has left: when it was begun
  inUse,      \* the seconds of the clips that are being read
  archive,    \* the archive that is being sent: what is still to go in, and what went
  lastDone,   \* history: what the last step was, or whose doing
  saves       \* how many clips there have been

clipVars == <<second, disk, parts, inUse, archive, lastDone, saves>>

NoArchive == [asked |-> {}, left |-> {}, sent |-> {}, gone |-> {}, state |-> "none"]

ClipsInit ==
  /\ second = 0 /\ disk = {} /\ parts = {} /\ inUse = {}
  /\ archive = NoArchive /\ lastDone = "other" /\ saves = 0

Stems(files) == {f.at : f \in files}
Names(files) == {<<f.at, f.kept>> : f \in files}
Prunable(files) == {f \in files : ~f.kept}
Weight(files) == Cardinality(UNION {{f} \X (1..f.size) : f \in files})

-----------------------------------------------------------------------------
\* prune: the oldest go first, until the quota is met; the newest that could go
\* goes for its age only; kept ones never.
MayGo(f) == TRUE                                                   \* mutant
MayBePruned(f) == ~f.kept

NobodyIsSpared(f, files) == FALSE                                  \* mutant
IsNewest(f, files) == \A g \in Prunable(files) : g.at <= f.at

TooOld(f) == MaxAge > 0 /\ second - f.at > MaxAge

GoesUnlessNewest(f, overQuota, newest) == (TooOld(f) \/ overQuota) /\ ~newest \* mutant
Goes(f, overQuota, newest) == TooOld(f) \/ (overQuota /\ ~newest)

\* The oldest first: when it is a clip's turn, those that are newer are there, and
\* of those that are older the ones that could not be removed.
AtItsTurn(f, files) == {g \in Prunable(files) : g.at >= f.at \/ g.at \in inUse}
OverQuota(f, files) == Quota > 0 /\ Weight(AtItsTurn(f, files)) > Quota

IsPruned(f, files) ==
  MayBePruned(f) /\ f.at \notin inUse /\ Goes(f, OverQuota(f, files), IsNewest(f, files))

AfterPruning(files) == {f \in files : ~IsPruned(f, files)}

\* sweepParts
Swept(left) == {p \in left : second - p <= PartAge}

Prune ==
  /\ disk' = AfterPruning(disk) /\ parts' = Swept(parts) /\ (disk' # disk \/ parts' # parts)
  /\ lastDone' = "prune"
  /\ UNCHANGED <<second, inUse, archive, saves>>

-----------------------------------------------------------------------------
\* Save.  A second that is taken, by a kept clip or another, is put off.
TakenUnlessKept(at, files) == at \in Stems(Prunable(files))         \* mutant
Taken(at, files) == at \in Stems(files)

FreeNames(at) == {s \in at..(at + NameTries - 1) : ~Taken(s, disk)}
NameFor(at) == CHOOSE s \in FreeNames(at) : \A t \in FreeNames(at) : s <= t

\* The file has its name when it is whole.
InPlace(at) == {[at |-> at, size |-> 1, kept |-> FALSE, whole |-> FALSE]} \* mutant
UnderItsName(at) == {}

\* There is no room (MinFreeBytes), or the write fails: at any time.
SaveRefused ==
  /\ lastDone' = "other" /\ UNCHANGED <<second, disk, parts, inUse, archive, saves>>

SavesClip(at, size, kept) ==
  /\ FreeNames(at) # {} /\ saves < MaxClips /\ saves' = saves + 1
  /\ LET clip == [at |-> NameFor(at), size |-> size, kept |-> kept, whole |-> TRUE]
     IN disk' = AfterPruning(disk \cup {clip}) /\ parts' = Swept(parts \ {NameFor(at)})
  /\ lastDone' = "save" /\ UNCHANGED <<second, inUse, archive>>

\* The process ends while the part is written: it is found at the next start,
\* which prunes.
SaveCutShort(at) ==
  /\ FreeNames(at) # {} /\ Cardinality(parts) < 1
  /\ parts' = parts \cup {NameFor(at)} /\ disk' = disk \cup UnderItsName(NameFor(at))
  /\ inUse' = {} /\ archive' = NoArchive /\ lastDone' = "other"
  /\ UNCHANGED <<second, saves>>

-----------------------------------------------------------------------------
\* The pages.

Exists(s) == s \in Stems(disk)
Named(s) == CHOOSE f \in disk : f.at = s

Renames(s, kept) ==
  /\ Exists(s) /\ s \notin inUse /\ Named(s).kept # kept
  /\ disk' = (disk \ {Named(s)}) \cup {[Named(s) EXCEPT !.kept = kept]}
  /\ lastDone' = "person"
  /\ UNCHANGED <<second, parts, inUse, archive, saves>>

Keep(s) == Renames(s, TRUE)
Release(s) == Renames(s, FALSE)

Delete(s) ==
  /\ Exists(s) /\ s \notin inUse /\ disk' = disk \ {Named(s)} /\ lastDone' = "person"
  /\ UNCHANGED <<second, parts, inUse, archive, saves>>

\* A clip is watched, or downloaded.
Opens(s) ==
  /\ Exists(s) /\ s \notin inUse /\ Cardinality(inUse) < MaxReaders /\ inUse' = inUse \cup {s} /\ lastDone' = "other"
  /\ UNCHANGED <<second, disk, parts, archive, saves>>

Closes(s) ==
  /\ s \in inUse /\ inUse' = inUse \ {s} /\ lastDone' = "other"
  /\ UNCHANGED <<second, disk, parts, archive, saves>>

\* apiClipsZip: all of them are there when it begins; one that goes, or has its
\* name changed, while the others are sent is left out.
AsksForArchive ==
  /\ archive.state = "none" /\ Cardinality(disk) > 1
  /\ archive' = [asked |-> Stems(disk), left |-> Names(disk), sent |-> {}, gone |-> {}, state |-> "sending"]
  /\ lastDone' = "other"
  /\ UNCHANGED <<second, disk, parts, inUse, saves>>

CutAtMissing(a, name) == [a EXCEPT !.left = {}, !.gone = {name[1]}] \* mutant
GoesOnWithout(a, name) == [a EXCEPT !.left = @ \ {name}, !.gone = @ \cup {name[1]}]

ArchiveGoesOn(name) ==
  /\ archive.state = "sending" /\ name \in archive.left
  /\ archive' = IF name \in Names(disk)
                  THEN [archive EXCEPT !.left = @ \ {name}, !.sent = @ \cup {name[1]}]
                  ELSE GoesOnWithout(archive, name)
  /\ lastDone' = "other" /\ UNCHANGED <<second, disk, parts, inUse, saves>>

ArchiveEnds ==
  /\ archive.state = "sending" /\ archive.left = {}
  /\ archive' = NoArchive /\ lastDone' = "other"
  /\ UNCHANGED <<second, disk, parts, inUse, saves>>

SecondPasses ==
  /\ second < LastSecond /\ second' = second + 1 /\ lastDone' = "other"
  /\ UNCHANGED <<disk, parts, inUse, archive, saves>>

ClipsNext ==
  \/ Prune \/ SaveRefused \/ SaveCutShort(second)
  \/ \E size \in Sizes, kept \in BOOLEAN : SavesClip(second, size, kept)
  \/ \E s \in Seconds : Keep(s) \/ Release(s) \/ Delete(s) \/ Opens(s) \/ Closes(s)
  \/ AsksForArchive \/ ArchiveEnds
  \/ \E name \in archive.left : ArchiveGoesOn(name)
  \/ SecondPasses

ClipsSpec == ClipsInit /\ [][ClipsNext]_clipVars

-----------------------------------------------------------------------------
ClipsTypeOK ==
  /\ disk \subseteq Files /\ parts \subseteq Seconds /\ inUse \subseteq Stems(disk)
  /\ archive.state \in {"none", "sending"}
  /\ second \in 0..LastSecond

\* A kept clip and one that is not never share a second: the lock could not be
\* turned on either, and a rename would overwrite a recording.
ALockAlwaysFits == \A f, g \in disk : f.at = g.at => f = g

\* What is listed can be played: a process that ends while it writes leaves no
\* half of a clip under a clip's name.
NoHalfClip == \A f \in disk : f.whole

Pruned == lastDone \in {"prune", "save"}

\* After a clip is saved, or the round of the retention, what may go and should
\* has gone, except what somebody is reading: the age is a promise, and holds
\* for the last clip too.
RetentionIsKept ==
  Pruned => LET left == {f \in Prunable(disk) : f.at \notin inUse}
            IN /\ \A f \in left : ~TooOld(f)
               /\ Quota = 0 \/ Weight(Prunable(disk)) <= Quota \/ Cardinality(left) <= 1
               /\ \A p \in parts : second - p <= PartAge

\* A quota smaller than a clip does not leave the folder empty: the newest goes
\* only when its time has come.
TheNewestIsSpared ==
  [][\A f \in Prunable(disk) :
       (\A g \in Prunable(disk) : g.at <= f.at) /\ f \notin disk' /\ ~TooOld(f) =>
        lastDone' = "person" \/ \E g \in Prunable(disk') : g.at > f.at]_clipVars

\* Nothing but a person takes a kept clip away.
KeptIsSafe == [][\A f \in disk : f.kept /\ f \notin disk' => lastDone' = "person"]_clipVars

\* An archive lacks only what went while it was sent: when there is no more to
\* send, what was asked for is in it or has gone, one or the other.
AnArchiveHasTheRest ==
  archive.state = "sending" /\ archive.left = {} =>
    archive.sent \cup archive.gone = archive.asked /\ archive.gone \cap archive.sent = {}

\* Together: a clip to lock fits, no half clip is in the list, what is there is
\* within the quota and the age, and an archive has the rest.
ClipsSafety == ClipsTypeOK /\ ALockAlwaysFits /\ NoHalfClip /\ RetentionIsKept /\ AnArchiveHasTheRest

\* And what a step may not delete: the clip just saved, and a kept one.
NothingDearIsDeleted == TheNewestIsSpared /\ KeptIsSafe
=============================================================================
