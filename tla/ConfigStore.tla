---------------------------- MODULE ConfigStore ----------------------------
(***************************************************************************)
(* The configuration: the one copy in memory and its file                  *)
(* (internal/config/store.go, config.go), the pages that change it         *)
(* (internal/server), the start of the monitor, which reads it and then    *)
(* takes its port, and the command that sets the password from outside the *)
(* monitor (promptAndSetPassword in cmd/pat-monitor/main.go).              *)
(*                                                                         *)
(* A setting is the camera, which stands for every device and switch a     *)
(* page sets; the tunnel, which needs a password; and the password, which  *)
(* is numbered as it is set, 0 being none.                                 *)
(***************************************************************************)
EXTENDS Integers

CONSTANTS Pages,        \* requests at once
          Devices,      \* what may be chosen
          NoDevice,
          MaxSet,       \* passwords set: a bound
          MaxUnsaved    \* writes that fail: a bound

ASSUME ConfigAssumption == NoDevice \notin Devices /\ MaxSet \in Nat /\ MaxUnsaved \in Nat

VARIABLES
  file,       \* what is on disk
  mem,        \* Store.cfg
  monitor,    \* "off", "starting" from Load on, or "up" once it has its port
  used,       \* the device the pipeline was told of
  exposed,    \* the tunnel was switched on
  request,    \* what each page's request has yet to do, and with what
  tool,       \* the command: "off", "loaded", "holds" the port, "saved"
  toolBase,   \* the file as it read it
  setCount, unsaved,
  boot,       \* history: the file as the monitor read it
  overwritten, \* history: the command has written since the monitor read
  lastChoice  \* history: what was last answered as saved, in this run

cfgVars == <<file, mem, monitor, used, exposed, request, tool, toolBase, setCount, unsaved, boot, overwritten, lastChoice>>

Idle == [does |-> "nothing", device |-> NoDevice]
Fresh == [pw |-> 0, funnel |-> FALSE, device |-> NoDevice]

ConfigInit ==
  /\ file = Fresh /\ mem = Fresh /\ monitor = "off" /\ used = NoDevice /\ exposed = FALSE
  /\ request = [p \in Pages |-> Idle] /\ tool = "off" /\ toolBase = Fresh
  /\ setCount = 0 /\ unsaved = 0 /\ boot = Fresh /\ overwritten = FALSE /\ lastChoice = Fresh

runVars == <<monitor, used, boot, overwritten>>
toolVars == <<tool, toolBase>>

-----------------------------------------------------------------------------
\* Store.Update: from the copy in memory, to the file and then to memory; a
\* write that fails leaves both as they were.

FromTheStart == boot                                               \* mutant
Base == mem

Saves(field, value) ==
  LET next == [Base EXCEPT ![field] = value]
  IN /\ mem' = next /\ file' = next
     /\ lastChoice' = [lastChoice EXCEPT ![field] = value] /\ UNCHANGED unsaved

SaveFails ==
  /\ unsaved < MaxUnsaved /\ unsaved' = unsaved + 1
  /\ UNCHANGED <<mem, file, lastChoice>>

\* chooseDevice: saved, and then handed to whoever holds the device open.
PageChooses(p, d) ==
  /\ monitor = "up" /\ request[p] = Idle
  /\ \/ Saves("device", d) /\ request' = [request EXCEPT ![p] = [does |-> "uses", device |-> d]]
     \/ SaveFails /\ UNCHANGED request
  /\ UNCHANGED <<runVars, exposed, toolVars, setCount>>

PageUses(p) ==
  /\ request[p].does = "uses" /\ used' = request[p].device /\ request' = [request EXCEPT ![p] = Idle]
  /\ UNCHANGED <<file, mem, monitor, boot, overwritten, exposed, toolVars, setCount, unsaved, lastChoice>>

\* apiRemoteEnable: checked, saved, and then switched on.
SwitchedOnFirst == exposed' = TRUE                                 \* mutant
WhileItIsSaved == UNCHANGED exposed

PageExposes(p) ==
  /\ monitor = "up" /\ request[p] = Idle /\ Base.pw # 0
  /\ \/ Saves("funnel", TRUE) /\ request' = [request EXCEPT ![p] = [does |-> "switches on", device |-> NoDevice]]
     \/ SaveFails /\ UNCHANGED request
  /\ WhileItIsSaved /\ UNCHANGED <<runVars, toolVars, setCount>>

PageSwitchesOn(p) ==
  /\ request[p].does = "switches on" /\ exposed' = TRUE /\ request' = [request EXCEPT ![p] = Idle]
  /\ UNCHANGED <<file, mem, runVars, toolVars, setCount, unsaved, lastChoice>>

\* apiPassword and apiSetup set one, ResetPassword takes it away.
PasswordChanges ==
  /\ monitor = "up"
  /\ \/ /\ setCount < MaxSet /\ setCount' = setCount + 1
        /\ Saves("pw", setCount') \/ SaveFails
     \/ Base.pw # 0 /\ UNCHANGED setCount /\ (Saves("pw", 0) \/ SaveFails)
  /\ UNCHANGED <<runVars, exposed, request, toolVars>>

-----------------------------------------------------------------------------
\* The monitor reads the file, lists the cameras, and only then takes its port.

MonitorLoads ==
  /\ monitor = "off" /\ monitor' = "starting"
  /\ mem' = file /\ boot' = file /\ lastChoice' = file /\ overwritten' = FALSE
  /\ UNCHANGED <<file, used, exposed, request, toolVars, setCount, unsaved>>

PortIsFree == tool \notin {"holds", "saved"}

MonitorListens ==
  /\ monitor = "starting" /\ PortIsFree /\ monitor' = "up"
  /\ used' = mem.device /\ exposed' = (mem.funnel /\ mem.pw # 0)
  /\ UNCHANGED <<file, mem, request, toolVars, setCount, unsaved, boot, overwritten, lastChoice>>

\* It ends, or dies, or another has its port: what was not done is not.
MonitorEnds ==
  /\ monitor \in {"starting", "up"} /\ monitor' = "off"
  /\ exposed' = FALSE /\ request' = [p \in Pages |-> Idle]
  /\ UNCHANGED <<file, mem, used, toolVars, setCount, unsaved, boot, overwritten, lastChoice>>

\* promptAndSetPassword.
ToolLoads ==
  /\ tool = "off" /\ tool' = "loaded" /\ toolBase' = file
  /\ UNCHANGED <<file, mem, runVars, exposed, request, setCount, unsaved, lastChoice>>

\* holdThePort: a monitor that is up holds it.
ToolHolds ==
  /\ tool = "loaded" /\ tool' = IF monitor = "up" THEN "off" ELSE "holds"
  /\ UNCHANGED <<file, mem, runVars, exposed, request, toolBase, setCount, unsaved, lastChoice>>

ToolSaves ==
  /\ tool = "holds" /\ setCount < MaxSet /\ setCount' = setCount + 1 /\ tool' = "saved"
  /\ file' = [toolBase EXCEPT !.pw = setCount'] /\ overwritten' = TRUE
  /\ UNCHANGED <<mem, monitor, used, boot, exposed, request, toolBase, unsaved, lastChoice>>

ToolEnds ==
  /\ tool \in {"holds", "saved"} /\ tool' = "off"
  /\ UNCHANGED <<file, mem, runVars, exposed, request, toolBase, setCount, unsaved, lastChoice>>

ConfigNext ==
  \/ \E p \in Pages : \/ \E d \in Devices : PageChooses(p, d)
                     \/ PageUses(p) \/ PageExposes(p) \/ PageSwitchesOn(p)
  \/ PasswordChanges
  \/ MonitorLoads \/ MonitorListens \/ MonitorEnds
  \/ ToolLoads \/ ToolHolds \/ ToolSaves \/ ToolEnds
ConfigSpec == ConfigInit /\ [][ConfigNext]_cfgVars

-----------------------------------------------------------------------------
ConfigTypeOK ==
  /\ \A c \in {file, mem, boot, toolBase, lastChoice} :
       c \in [pw : 0..MaxSet, funnel : BOOLEAN, device : Devices \cup {NoDevice}]
  /\ monitor \in {"off", "starting", "up"} /\ tool \in {"off", "loaded", "holds", "saved"}

\* What is saved from one page is not put back by what is saved from another,
\* nor by a write that fails: memory and file say what was last answered.
NoChoiceIsForgotten ==
  monitor = "up" /\ ~overwritten => mem = lastChoice /\ file = lastChoice

\* An address that is on is in the file, or it would be off at the next start
\* with nothing to say so.
TheTunnelIsPersisted == exposed /\ ~overwritten => file.funnel

\* The command that sets the password refuses while a monitor runs, and none can
\* start in between: one that runs goes by the password that was set.
TheMonitorHasItsPassword == monitor = "up" => mem.pw = file.pw

\* Together: no choice of a person is forgotten between memory and file, and a
\* tunnel that is up is one that the file knows of.
ConfigSafety == ConfigTypeOK /\ NoChoiceIsForgotten /\ TheTunnelIsPersisted
=============================================================================
