----------------------------- MODULE WatchRound -----------------------------
(***************************************************************************)
(* The watching round of cmd/pat-monitor/main.go: once a second it reads   *)
(* the state of the monitor, says which faults and events are present, has *)
(* the registry compare them with those it knew, and tells the log, the    *)
(* phones and the recorder what is new.                                    *)
(*                                                                         *)
(* Between two rounds the camera and the microphone open, fail, wait for   *)
(* somebody's consent and fall silent.  Ages are counted in rounds.        *)
(***************************************************************************)
EXTENDS Integers, FiniteSets

CONSTANTS StartGrace,  \* startupGrace
          Stall,       \* videoStall
          MaxHappens   \* how much happens outside

ASSUME WatchRoundAssumption == {StartGrace, Stall} \subseteq Nat \ {0} /\ MaxHappens \in Nat

Faults == {"capture-stopped", "camera-denied", "mic-denied", "mic-missing", "mic-muted", "mic-silent"}
Notices == {"camera-other", "remote-down", "disk-full"}
Events == {"motion", "cry", "bark"}
AlertCodes == Faults \cup Notices \cup Events

\* What a notice or an event may come of.  The tunnel may warn, or be down.
Conditions == {"camera-other", "tunnel-warns", "tunnel-down", "disk-full", "motion"}

\* What a person may do about a device says, of a fault, which of them it is.
MicFaults == {"mic-denied", "mic-missing", "mic-muted", "mic-silent"}

VARIABLES
  upFor,                     \* since the monitor was started
  ready, frameAge,           \* Hub.Ready, and how old the last frame is
  camState, openAge, camRefused, \* the camera, and how long ago it came open
  micState, micRefused, micOff, micStill, \* and the microphone
  others,                    \* what else is so, of Conditions
  simulates, simulated,      \* -simulate-fault capture-stopped, which comes and goes
  active, lastId,            \* Registry
  told,                      \* what the phones have been told and not taken back
  dumps,                     \* dumpOnce: how many goroutine dumps were written
  clips,                     \* how many clips the recorder was asked for
  happens,
  dark, stalls,              \* history: the last round found a picture that had stopped; some round did
  asking,                    \* history: the last round found the microphone being opened
  begun, lasting             \* history: events that have begun, and those of the last round

watchVars == <<upFor, ready, frameAge, camState, openAge, camRefused, micState, micRefused, micOff, micStill,
               others, simulates, simulated, active, lastId, told, dumps, clips, happens, dark, stalls, asking,
               begun, lasting>>

Never == -1
Ageing(age, most) == IF age = Never THEN Never ELSE IF age < most THEN age + 1 ELSE most

WatchInit ==
  /\ upFor = 0 /\ ready = FALSE /\ frameAge = Never
  /\ camState = "off" /\ openAge = Never /\ camRefused = FALSE
  /\ micState = "off" /\ micRefused = FALSE /\ micOff = FALSE /\ micStill = FALSE
  /\ others = {} /\ simulates \in BOOLEAN /\ simulated = simulates
  /\ active = [c \in {} |-> 0] /\ lastId = 0 /\ told = {} /\ dumps = 0 /\ clips = 0
  /\ happens = 0 /\ dark = FALSE /\ stalls = FALSE /\ asking = FALSE /\ begun = 0 /\ lasting = {}

-----------------------------------------------------------------------------
\* What happens between two rounds.

micState4 == <<micState, micRefused, micOff, micStill>>
camState5 == <<ready, frameAge, camState, openAge, camRefused>>
roundVars == <<upFor, simulates, active, lastId, told, dumps, clips, dark, stalls, asking, begun, lasting>>

Happens ==
  /\ happens < MaxHappens /\ happens' = happens + 1
  /\ UNCHANGED roundVars

CameraAsks ==
  /\ Happens /\ camState = "off" /\ camState' = "opening"
  /\ UNCHANGED <<ready, frameAge, openAge, camRefused, micState4, others, simulated>>

CameraOpens ==
  /\ Happens /\ camState = "opening" /\ camState' = "open" /\ openAge' = 0 /\ camRefused' = FALSE
  /\ UNCHANGED <<ready, frameAge, micState4, others, simulated>>

CameraFails ==
  /\ Happens /\ camState # "off" /\ camState' = "off"
  /\ camRefused' \in (IF camState = "opening" THEN BOOLEAN ELSE {FALSE})
  /\ UNCHANGED <<ready, frameAge, openAge, micState4, others, simulated>>

\* A frame: the hub is ready from the first key frame on, for good.
Films ==
  /\ camState = "open" /\ (~ready \/ frameAge > 0)
  /\ happens < MaxHappens /\ happens' = happens + (IF frameAge = Stall THEN 1 ELSE 0)
  /\ ready' = TRUE /\ frameAge' = 0
  /\ UNCHANGED <<camState, openAge, camRefused, micState4, others, simulated, roundVars>>

MicAsks ==
  /\ Happens /\ micState # "opening" /\ micState' = "opening"
  /\ UNCHANGED <<camState5, micRefused, micOff, micStill, others, simulated>>

MicAnswers ==
  /\ Happens /\ micState = "opening" /\ micState' \in {"off", "active"}
  /\ micRefused' \in (IF micState' = "off" THEN BOOLEAN ELSE {FALSE})
  /\ UNCHANGED <<camState5, micOff, micStill, others, simulated>>

MicChanges ==
  /\ Happens
  /\ \/ micState = "active" /\ micState' = "off" /\ UNCHANGED <<micOff, micStill>>
     \/ micOff' = ~micOff /\ UNCHANGED <<micState, micStill>>
     \/ micState = "active" /\ micStill' = ~micStill /\ UNCHANGED <<micState, micOff>>
  /\ UNCHANGED <<camState5, micRefused, others, simulated>>

OthersChange ==
  /\ Happens
  /\ \E c \in Conditions :
       others' = IF c \in others THEN others \ {c} ELSE others \cup {c}
  /\ UNCHANGED <<camState5, micState4, simulated>>

SimulationTurns ==
  /\ simulates /\ Happens /\ simulated' = ~simulated
  /\ UNCHANGED <<camState5, micState4, others>>

-----------------------------------------------------------------------------
\* What is present.

GraceIsOver == upFor > StartGrace

\* The grace from the open on is that of a capture that has not started yet.
JustOpened == openAge # Never /\ openAge <= StartGrace
GraceForAll == ready /\ JustOpened                                 \* mutant
GraceOfTheStarted == FALSE

CaptureStopped ==
  /\ GraceIsOver /\ ~GraceOfTheStarted
  /\ IF ready THEN frameAge = Never \/ frameAge >= Stall ELSE ~JustOpened /\ camState # "opening"

StalledAtAll == TRUE                                               \* mutant
StalledAfterStarting == CaptureStopped /\ ready /\ frameAge # Never

\* While the call to open it is in flight nothing is known of a microphone.
NotWaived == TRUE                                                  \* mutant
NotOpening == micState # "opening"
MicMissing == micState # "active" /\ NotOpening
MicMuted == micOff /\ NotOpening
MicSilent == micStill /\ NotOpening

CameraCodes ==
  IF camRefused THEN {"camera-denied"} ELSE IF CaptureStopped THEN {"capture-stopped"} ELSE {}

MicCodes ==
  IF micRefused THEN {"mic-denied"} ELSE IF MicMissing THEN {"mic-missing"}
  ELSE IF MicMuted THEN {"mic-muted"} ELSE IF MicSilent THEN {"mic-silent"} ELSE {}

RemoteDown == others \cap {"tunnel-warns", "tunnel-down"} # {}
OtherCodes == (others \cap AlertCodes) \cup (IF RemoteDown THEN {"remote-down"} ELSE {})

PresentAlerts == IF GraceIsOver THEN CameraCodes \cup MicCodes \cup OtherCodes ELSE {}

SimulatedFaults == IF simulated THEN {"capture-stopped"} ELSE {}

\* Registry.Update: what is still there keeps its id, what is new takes the
\* next ones, in the order in which the round lists it.
AsListed == <<"camera-denied", "capture-stopped", "mic-denied", "mic-missing", "mic-muted", "mic-silent",
              "camera-other", "remote-down", "disk-full", "motion", "cry", "bark">>
Place == [c \in AlertCodes |-> CHOOSE i \in DOMAIN AsListed : AsListed[i] = c]

Update(present, appeared) ==
  /\ lastId' = lastId + Cardinality(appeared)
  /\ active' = [c \in present |->
                 IF c \in appeared THEN lastId + Cardinality({d \in appeared : Place[d] <= Place[c]})
                 ELSE active[c]]

\* The round tells of what the registry found, and of nothing else.
OnlyNews(appeared, recovered) == told \cup appeared                 \* mutant
Alerted(appeared, recovered) == (told \cup appeared) \ recovered

EveryRound(present, appeared) == present                           \* mutant
IsNew(present, appeared) == appeared

Ages ==
  /\ upFor' = Ageing(upFor, StartGrace + 1)
  /\ frameAge' = Ageing(frameAge, Stall)
  /\ openAge' = Ageing(openAge, StartGrace + 1)

Round ==
  LET present == PresentAlerts \cup SimulatedFaults
      appeared == present \ DOMAIN active
      recovered == DOMAIN active \ present
  IN /\ Update(present, appeared)
     /\ told' = Alerted(appeared, recovered)
     /\ dumps' = IF "capture-stopped" \in appeared /\ StalledAfterStarting /\ dumps = 0 THEN 1 ELSE dumps
     /\ clips' = clips + Cardinality(IsNew(present, appeared) \cap Events)
     /\ dark' = (GraceIsOver /\ frameAge = Stall) /\ stalls' = (stalls \/ dark')
     /\ asking' = (micState = "opening")
     /\ begun' = begun + Cardinality((PresentAlerts \cap Events) \ lasting)
     /\ lasting' = PresentAlerts \cap Events
     /\ Ages
     /\ UNCHANGED <<ready, camState, camRefused, micState4, others, simulates, simulated, happens>>

-----------------------------------------------------------------------------
\* trayStatus: the icon says one thing, the first of these that is so.  A
\* password, sound the system filters and an address for others to reach are
\* what it alone looks at.

NoWarning == others \cap {"tunnel-down"} # {}                       \* mutant
DownOrWarned == RemoteDown

TrayPhase(password, filtered, published) ==
  IF ~password THEN "check"
  ELSE IF camRefused \/ CaptureStopped THEN "fault"
  ELSE IF micRefused \/ MicSilent \/ MicMissing \/ MicMuted THEN "check"
  ELSE IF ~ready THEN "starting"
  ELSE IF (filtered /\ NotOpening) \/ "camera-other" \in others \/ DownOrWarned \/ "disk-full" \in others THEN "check"
  ELSE IF published THEN "outside" ELSE "home"

WatchNext ==
  \/ CameraAsks \/ CameraOpens \/ CameraFails \/ Films
  \/ MicAsks \/ MicAnswers \/ MicChanges \/ OthersChange \/ SimulationTurns
  \/ Round

-----------------------------------------------------------------------------
WatchTypeOK ==
  /\ DOMAIN active \subseteq AlertCodes /\ \A c \in DOMAIN active : active[c] \in 1..lastId
  /\ told \subseteq AlertCodes /\ upFor \in 0..(StartGrace + 1) /\ dumps \in 0..1
  /\ frameAge \in Never..Stall /\ openAge \in Never..(StartGrace + 1)

\* A picture that was there and is gone for videoStall is announced, also when
\* the camera was opened again a moment ago, or is opened again and again.
TheDarkIsTold == dark => DOMAIN active \cap {"capture-stopped", "camera-denied"} # {}

\* Whoever has not answered yet whether the microphone may be used is told of no
\* fault of it.
AConsentIsNotAFault == asking => DOMAIN active \cap MicFaults \subseteq {"mic-denied"}

\* What the phones were told of is what the page shows, whatever came and went,
\* and two alerts that are shown together can be told apart.
ThePhonesKnow ==
  /\ told = DOMAIN active
  /\ \A c, d \in DOMAIN active : c # d => active[c] # active[d]

\* The icon is never green over what the phones are told of, and red only for a
\* picture that is not there.
TheIconAgrees ==
  \A password, filtered, published \in BOOLEAN :
    LET phase == TrayPhase(password, filtered, published) IN
      /\ phase \in {"home", "outside"} => PresentAlerts \subseteq Events
      /\ phase = "fault" /\ GraceIsOver => PresentAlerts \cap {"camera-denied", "capture-stopped"} # {}

\* The one dump of the process is there for a picture that stopped: a simulated
\* fault does not spend it, and the first real one takes it.
TheDumpIsKept ==
  /\ dumps = 1 => stalls
  /\ dark /\ ~simulates /\ "capture-stopped" \in DOMAIN active => dumps = 1

\* An event asks for a clip when it begins, and while it lasts for no other.
AnEventIsOneClip == clips = begun

\* Together: the dark is told and a question of Windows is no fault, the phones and
\* the icon know what the registry knows, a dump and an event are kept once.
RoundSafety ==
  /\ WatchTypeOK
  /\ TheDarkIsTold /\ AConsentIsNotAFault /\ ThePhonesKnow /\ TheDumpIsKept /\ AnEventIsOneClip /\ TheIconAgrees
=============================================================================
