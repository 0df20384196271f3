# PAT Monitor in TLA+

PAT Monitor is a pet and baby monitor for Windows: one Go program takes a
camera and a microphone, encodes H.264 and Opus, and sends them over WebRTC to
the browsers that have signed in. It records clips, notices motion and
sounds, sends push notifications, can be reached from outside through a Tailscale
funnel, and lets a viewer speak to the room. This directory holds TLA+ models
of the parts of it where order, concurrency, failure and figures decide whether
it works, the TLC configurations that check them, and TLAPS proofs.

Source references are `path:line` in the repository, under `internal/` where no
other directory is named. `PROJECT.json` maps every definition to the lines it
stands for.

## Inventory

| Part | State it keeps | Operations | What is hard |
|---|---|---|---|
| Talk-back, `internal/rtc/talkback.go` | who holds the floor, its audio output, whether one is being opened, who was cut, six instants | `acquire`, `release`, `expire`, `Receive` | the output is opened and closed outside the lock; tickers act on what they read; packets never stop |
| Viewer sessions, `internal/rtc/hub.go`, `internal/server/server.go` | seats taken, viewers counted, an estimate per viewer, each session's connection and its `Close` | `NewViewer`, the state callback, `CloseUnlessConnected`, `Close`, `wsSignaling` | a dozen failure roads; callbacks in no order; the media outlives the signalling |
| Governors, `internal/rtc/{bitrate,quality,scale,cadence}.go` | windows of losses, of what was sent, confirmations, dwell | one tick: estimate, losses, size, cadence, bitrate, quality | each governor's output is another's input; resets when nobody watches |
| Pipeline, `internal/pipeline` | requested camera, microphone, bitrate, format; what is in force | `Run`, `SetCamera`, `SetMicDevice`, `SetBitrate`, `ReconfigureBitrate`, the watches | requests raced by the loop that applies them; backoff; an encoder that ignores what it is asked |
| Frames and sound, `internal/pipeline`, `internal/media` | what has come of a picture, a packet, a level | the assembler, the headers, the clocks | a stream cut anywhere; encoders that come and go |
| Recording, `internal/record` | ring of groups of pictures, the clip in progress, a channel of one, the clips on disk | `WriteVideo`, `Trigger`, `Tick`, `Flush`, `Save`, `Keep`, `Delete`, prune | the clip in progress against limits; a crash between writing, renaming and pruning |
| Push, `internal/push` | the last alert per code, subscriptions, deliveries in flight | `Alerted`, deliver, `Close`, `Put`, `Remove` | order per code, retries against a newer state, shutdown |
| Sign-in, `internal/server/auth.go` | sessions with a generation, failures per address, hashing slots | login, logout, change, reset, setup | a password changed while another is being verified |
| Alerts and the round, `internal/alerts`, `cmd/pat-monitor` | what is active, since when; what was told | `Update`, the round | five listeners of one comparison; devices that are being opened |
| Detection, `internal/detect` | running levels, hysteresis | one step per frame or block | thresholds with memory |
| Recogniser, `internal/ced/stream.go`, `cmd/pat-monitor/recognise.go` | one question, the last result, the hits of a cry | ask, listen, draw the verdict, close | a question while the worker is at work |
| Tunnel, `internal/tunnel` | enabled, state, retry delay, what a check found | `Enable`, `run`, `live`, the checks | backoff; answers of a life that is over |
| Configuration, `internal/config` | memory and file | `Update` | memory ahead of the file; a second process |
| Program, `cmd/pat-monitor`, `internal/guard` | the parts, wired | start, end, the second copy | shutdown with deadlines; parts that never come back |
| Tray, `internal/tray`, `internal/qr` | the icon, the mail of the window's thread, the panel | messages and timers of Windows | Explorer dies and comes back; gestures |
| Update check, `internal/update`, `internal/version` | the last document and its tag | one check a day | withdrawn releases, answers without news |

Interactions: the pipeline calls the hub and the recorder with every frame, and
the governors call the pipeline back with a bitrate, a size or a cadence. The
detectors and the recogniser are read by the watching round, which arms the
recorder, compares with the alerts known and tells the phones, the log and the
icon. The signalling handler owns a viewer until the media outlives it. Every
accessory runs under `internal/guard`, which turns a panic into the end of one
goroutine: the rest goes on with whatever was left behind, and the models count
that among the failures where it changes anything.

What makes each part correct, in a sentence: one voice at a time reaches the
room, and the room is heard again after the cap; a session gives back what it
took, once; the newest state of an alert is the last one announced; a clip that
was announced is on disk, whole; a session opened under an old password does
not survive its change; a device that was chosen is the one that captures; a
governor never climbs on its own echo; what is shown of the tunnel is so.

## Modules

| Module | Models |
|---|---|
| `Floor` | what a talk-back promises, abstractly: asked for by one, given to who asked, put down before it is given again |
| `Talkback`, `TalkbackHistory` | the talk-back, lock section by lock section, which implements `Floor`; and with what the room has heard |
| `Viewers` | `NewViewer`, callbacks and `Close` of the hub; the signalling handler |
| `Notifier`, `PushStore` | news on its way to the phones; the list of subscriptions and its file |
| `Recorder`, `ClipStore` | the ring, the clip in progress, the writer and the end of the monitor; the clips on disk |
| `ConfigStore` | memory, file, pages that change them, and the command that sets the password from outside |
| `SignIn` | sessions, lockouts, hashing slots, and the handlers that weigh, change, set and reset the password |
| `Camera`, `Microphone`, `Encoder` | the two supervisors and who chooses; the encoder, its builder and who commands it |
| `PipelineWatches` | does the encoder follow the bitrate, do its keyframes come, is the room whole in the picture |
| `Bandwidth`, `Quality`, `Scale`, `BitrateControl` | three governors, each as a function of its window and as a machine against whatever it may be told; the loop that runs them |
| `Detectors`, `Recogniser`, `WatchRound` | motion and sound; the sound model's worker and its verdicts; the round and the registry |
| `Way` | what is measured and dated on the way: the reading of the quantiser across encoders; cadence and dates of frames; packets and levels of sound |
| `Assembler`, `StreamHeaders`, `Timeline` | access units; parameter sets, slice headers and levels; a clip's two tracks |
| `Tunnel`, `Program`, `Tray` | remote access; the process with its parts and a second copy; the icon |
| `Panel`, `QrCode`, `Updates` | the panel on paper and in use; the code in it; versions and the check |
| `WatchingProofs` | theorems about `Talkback`, `TalkbackHistory`, `Viewers` |
| `SignInProofs` | theorems about `SignIn` |
| `FiguresProofs` | theorems about `Bandwidth`, `Quality`, `Scale`, `BitrateControl` |
| `RoundsProofs` | theorems about `Notifier`, `Recogniser`, `WatchRound`, `Detectors` |
| `KeepingProofs` | theorems about `Recorder`, `PushStore`, `ConfigStore`, `ClipStore` |
| `CaptureProofs` | theorems about `Camera`, `Microphone`, `Encoder`, `PipelineWatches` |
| `OutsideProofs` | theorems about `Program`, `Tunnel`, `Tray`, `Updates`, `Panel` |
| `WayProofs` | theorems about `Way` |

The `MC*` modules put together parts that share no state and are checked in one
run: a behaviour follows one of them, the `focus`, and the others rest in one
state, so that the states to visit add up instead of multiplying. Parts that do
interact are composed in their own module: the recorder with its writer and the
program's end, the loop with its three governors, the handlers with the session
store and the limiter, the second process with the configuration.

### How state and actions correspond to the code

A variable is the field of the same name where there is one; a local variable of
a goroutine is part of where the goroutine is (`rpc`, `at`, `stage`, ...). An
action is one lock section, or what a goroutine does between two points where
another may act; a call outside a lock is a step of its own that may succeed,
fail or, where the code says so, never end. An instant is its age, or what is
left of it, saturated where no comparison tells values apart, so that time has
no horizon and the states are finitely many.

- **Talkback.** A viewer is two goroutines: `Receive` (`rpc`) and its ticker
  (`epc`). `acquire` is two lock sections with the opening between them;
  `expire` reads, decides and acts in three steps, each of which may find the
  floor changed. The opening may succeed, be refused or panic. A unit of time is
  at least the ticker's 500 ms, and one run of `expire` ends within the unit it
  began in: if closing an output may block for ever, so may the ticker, and the
  code promises nothing there. `TalkbackHistory` adds variables that follow the
  actions and guard none.
- **Viewers.** `handler` is where the signalling handler of a session is, `pc`
  the connection, `up` and `down` the goroutines Pion started for state changes
  and that have not run, `closing` the next step inside `Close`'s `sync.Once`.
  Pion is external: an answered connection connects, loses its peer and fails as
  it likes, every change starts a goroutine, in no order with the others
  (`rtc/hub.go:1034`).
- **Notifier.** News are numbered as they happen; `before` is the `previous`
  each finds in `latest`. A delivery is a goroutine in one of `Slots` slots: an
  attempt, a pause, another attempt. `taken` is on the other side, in the push
  service. An attempt nobody answers in time may have been taken or not. A pause
  is cut by newer news or by `Close`, but when timer and cancellation are both
  ready the `select` takes either.
- **PushStore, ConfigStore.** The change in memory comes before the write of
  the whole file under a temporary name. `PushStore` keeps the change when the
  write fails, `ConfigStore` reads the file again. `ConfigStore` has the second
  process that sets the password between the monitor's reading of the file and
  its taking the port.
- **Recorder, ClipStore.** The ring is the set of its frames; `Kept` is what
  eviction leaves, everything from the oldest keyframe that fits. The end of
  `run` is modelled down to its deadlines (`endedBy`). A clip on disk is known by
  the second of its event; a file somebody reads can be neither removed nor renamed.
- **SignIn.** A handler is a process that serves one request after another.
  Passwords are numbered, and a session is told by the password it was opened
  with; `seen` is the generation read before the password is. Lockouts end and
  records are forgotten at any moment.
- **Camera, Microphone, Encoder.** Writing the wish, raising the mark,
  cancelling the session and leaving a token are steps of their own, and so are
  the reading of the wish, the open, and the end of a session. Commands hold
  `encMu` for reading, whoever replaces the encoder for writing. A command is noted
  (`curKbps`) before the encoder is called, and the encoder may refuse it
  (`Refuses`): what was noted stays, and the next encoder is built with it.
- **Governors.** A governor is a record and a tick a function of it, translated
  branch by branch; each is run against anything it may be told
  (`BandNext`, `QualityNext`, `ScaleNext`), and `BitrateControl` runs them as the
  loop does, over worlds that change. Rates are kbit/s and fractions hundredths.
- **Rounds.** Between two rounds anything may happen to the devices; a round is
  one step, because the goroutine of the round alone writes what it writes.
- **Figures and bits.** `Assembler`, `StreamHeaders`, `Timeline`, `QrCode`,
  `Panel` and `Updates` compute, and a run compares what they compute with a
  definition that does not share their shape: pictures as the standard splits
  them, the stream as it was written, the instants as they were, the text read
  back from the drawn code, rectangles that must not overlap.
- **Tunnel.** A life is a name of three, taken in turn, so that a late check of a
  life that is over is told from one of the next. Each of the two folders of the
  identity may be unreadable when a life begins, and the former one unmovable. While
  a life prepares, a status that cannot be read is shown as a fault and asked for
  again by the same life, for as long as Tailscale likes; an answer about the funnel
  may not come, carry only a text, or carry the link. The two calls that are given
  no context, `srv.Start` and `ListenFunnel`, are places of their own (`Deaf`).
- **Program.** A part may block and never come back. Giving back what a lost quality
  loop had lowered may fail for the bitrate. `run` ends through its deferred calls:
  after the listener is closed they wait, without a deadline, and may be held up
  (`held`) by whoever is at a disk that does not answer, until it does.
- **Tray.** The messages that wait are a set, since Windows promises no order among
  their sources. Every call to Explorer that a message makes may be refused (`fails`):
  `NIM_ADD`, which the code asks about, `NIM_MODIFY` and `NIM_DELETE`, which it does
  not. What it compares with later is what it sent. The icon on the shelf remembers,
  as history, which of its parts Explorer did not get (`unsent`).

## Runs

| Run | Follows | What it shows |
|---|---|---|
| `watching` | talk-back, viewers | `TalkbackSafety`: one packet asks for the output and never while the floor is held, whatever is open is in one pair of hands, no packet reaches an output that is not the floor's, the pause after a cut is heard. `TheRoomIsCapped`: the cap counts on the room. `ImplementsFloor`. `ViewersSafety`: seats and counts are what they say through every failure and race, the dead hold nothing |
| `watching_live` | the same | `FloorComesBack`, `TheGoneAreForgotten` |
| `rounds` | notifier, detectors, recogniser, round | `NotifierSafety`, `NewsInOrder`: news of a code go one after the other, no phone goes back to older news, no slot is lost and none refused that could be had, nothing outlives `Close`. `DetectorsSafety`: light is no motion, a lasting noise no event, and blocks do not matter. `RecogniserSafety`: no question is lost, a cry takes its runs. `RoundSafety`: the dark is told, a question of Windows is no fault, phones, icon and registry agree, one dump, one clip an event. `WhatBeginsEnds` |
| `keeping` | recorder, subscriptions, clips, configuration | `RecorderSafety`: clips decode and miss nothing, memory is bounded, clips end, an orderly end leaves none. `PushSafety`, `OrderlyEndKeepsAll`. `ClipsSafety`, `NothingDearIsDeleted`: a lock fits, no half clip, retention holds, a kept clip is a person's to delete. `ConfigSafety`: no choice is forgotten, a tunnel that is up is in the file |
| `signin` | sign-in | `SignInSafety`: no session outlives its password, a burst does not pass a lockout. `FirstSetupStays`, `HomeIsAnswered` |
| `capture` | camera, microphone, encoder, watches | `CameraSafety`, `MicrophoneSafety`: the wish is applied, no choice waits out a backoff, no fault spins. `EncoderSafety`: nobody uses a closed encoder, the probe gives back all but a refused half, rebuilds are given up. `WatchesSafety`: who follows is not accused, who serves is believed, the room is whole. `TheChosenAreOpened` |
| `figures` | governors, updates, panel, code | `GovernorsSafety`, `GovernorsMoves`: a coarse picture is given more within what the network carries, the scale tells the truth, nothing is cut twice for one report, sizes do not flap. `DeskSafety`: versions are an order, the panel fits, a question is confirmed. `QrSafety`: the code reads back |
| `media` | units, headers, levels, clip, quantiser, frames, sound | `AssemblerSafety`, `HeadersSafety`, `ClipSafety`, `WaySafety`: pictures are whole however the stream is cut, what is read is right or is not read, tracks do not slide, no sample is lost |
| `outside` | tunnel, program, icon | `TunnelSafety`: a late check writes over no fault, one stumble is no alarm, the link is the last answer's, no node is born beside an identity that could be seen. `ProgramSafety`: accessories end nothing, the picture is given back, one copy films. `TraySafety`: the icon is lit again, no balloon waits, the monitor learns of a window that ended. With fairness `TunnelGoesOn`, `ProgramGoesOn`: port and camera are free after a quit, and the process goes unless a disk holds it; `TheIconTells` |
| `recorder_end` | recorder | a violation: `TheLastClipIsWritten` |
| `capture_bitrate` | bitrate watch | a violation: `TheObedientIsNotAccused` |
| `governors_top` | bandwidth | a violation: `TheTopIsReached` |

`CHECK_DEADLOCK FALSE` is where the bounds of the model end: no more sessions,
news, frames, events or time.

### Bounds

- Talk-back: two viewers, three outputs (one on its way to being closed by each
  goroutine that can, and a new one), times of one to four units in the order of
  the code's (`talkIdle < talkCooldown <= talkMax`). Viewers: two sessions and
  one seat, enough for a refusal and for every pair of goroutines of one
  session. The live run has one session, since sessions wait for nothing of each
  other's.
- Notifier: three pieces of news, so that one waits for one that waits, two
  attempts each; once on one code to one phone, once on two codes to two.
- Recorder: four frames of two shapes against a ring of three and a clip of
  four. That reaches an eviction by number and one by weight, a change of shape
  in a clip, each of the three ceilings, and a channel full at both hand-overs.
- Subscriptions: three devices and a list of two, one too many; one failed
  write. Clips: three, of two sizes, against a quota of two and an age of one, one
  reader; an archive of all there is, in any order. Configuration: two pages, two devices, two passwords, one failed write.
- Sign-in: two requests at once, the two addresses of this PC and one outside, a
  shared slot and a kept one, a table of one record and no free attempts, two
  passwords, one command of the tray. The run starts without a password
  (`AtStart`): every state of a start with one is a setup away, a generation
  later, and the proofs hold for both starts.
- Capture: two devices, two things that happen outside, a backoff of two steps,
  four encoders, two commands of the governor and a probe that may halve as often as it is begun again; watches with windows of two to four and figures on both sides
  of every margin of the code.
- Rounds: windows of two to six steps; three pixels of two shades against the code's
  threshold; five samples, in any blocks; four things that happen outside the round;
  three runs of the sound model.
- Figures: estimates, losses and quantisers on both sides of each threshold and
  windows of two; texts at the edges of the six sizes of the code; three
  resolutions of screen.
- Media: four units in three chunks; three frames and four packets; three encoders.
- Outside: waits of one to six, two lives back to back with a late answer of
  each; one accessory; two moves of the desktop, which starts at the first of two
  scales. A message of which any call is refused is one of those moves.

What the proofs cover holds for any of these.

### Disagreements

The three violations, each with an entry under `findings`:

- `recorder_end`: a request still under way when the server stops (a clip being
  downloaded) makes the group end with an error, and `run` returns
  (`cmd/pat-monitor/main.go:1352`) before it hands over the clip in progress.
- `capture_bitrate`: the proof of a command is taken from what was asked and the
  verdict from what came out (`pipeline/pipeline.go:1831`), so an output the
  scene held down gets an obedient encoder accused.
- `governors_top`: from within a twentieth of the preset the bitrate never
  returns to it (`rtc/bitrate.go:168`).

Met while modelling, and kept in the models as the code has them:

- a Connected callback that runs after `Close` counts a viewer that is gone
  (`rtc/hub.go:1066`, against the comments at 785 and 789;
  `Viewers!ClosedIsNotWatching` states it);
- the command that sets the password between the monitor's reading of the file
  and its taking the port leaves a monitor without it (`cmd/pat-monitor/main.go:1109`,
  against 2364; `ConfigStore!TheMonitorHasItsPassword`);
- after a failed write, the same subscription handed over again is answered as
  kept and is in no file (`push/store.go:176`, against 165);
- a severe report of losses is kept for the next viewer (`rtc/bitrate.go:625`,
  against 220), a cut can be rounded back to where it came from up to 500 kbit/s
  (`rtc/bitrate.go:134`, against 606), and the window is emptied before the
  sample of the tick that rebuilds is taken (`rtc/bitrate.go:743`);
- a halving that the encoder refuses has been noted already
  (`pipeline/pipeline.go:882`, 1586), and the probe leaves as if it had lowered nothing:
  the half is what the next encoders are built with, until somebody commands
  (`TheProbeGivesBack` excuses it: `leftKbps`);
- a quality loop that ends between two sessions cannot give the bitrate back
  (`cmd/pat-monitor/main.go:1256`: `errNoCapture`, before the value is noted), and the
  sessions that follow are built with the lowered one, against the comment at 1240,
  "Everything it commands goes back to the ceiling" (`ThePictureIsGivenBack` excuses
  the bitrate then: `unheard`);
- whatever error `os.Stat` has on the former folder is taken for there being none
  (`tunnel/nodestate.go:36`), so a node is born beside an identity that could not be
  looked at (`TheNodeIsItself` excuses it: `unseen`);
- an answer with a text and no link takes off the link that was shown
  (`tunnel/tunnel.go:866`; `TheLinkStays` follows the last answer that came);
- a fault found while a life prepares is not tried again by another life but by the
  same one, for ever (`tunnel/tunnel.go:799`; `AFailureIsTriedAgain` is of the lives
  that ended), and a quit waits for `srv.Start` and `ListenFunnel`, which hear nothing
  (`WhoQuitsIsLetGo`);
- the deferred waits of `run` have no deadline (`cmd/pat-monitor/main.go:988` for the
  watching round, 1083, 804, 599), against 1357, "a disk that does not answer must not
  keep a monitor that has been told to quit": port and camera are free by then, the
  process may stay (`TheQuitEnds` says both);
- the result of `NIM_MODIFY` is not looked at (`tray/tray_windows.go:904`, 1042), and
  what was sent is taken for what is shown: an icon that Explorer was too busy to
  change stays dim, or with the words of a state that is past, until the next change
  (`TheIconIsLit` and `TheIconTells` excuse the parts in `unsent`, and nothing else);
- a capture that never started is reopened in a loop (`cmd/pat-monitor/main.go:1543`,
  against 1523); the wait between checks of the address doubles before it is
  first used (`tunnel/reach.go:316`);
- a second viewer cut at the cap overwrites the first in `spent`
  (`rtc/talkback.go:259`); the floor can be given between the look of `expire`
  and the pause it starts (`rtc/talkback.go:258`); a panic while the output opens
  leaves `opening` set (`rtc/talkback.go:196`); `CloseUnlessConnected` can close
  a connection just established (`rtc/hub.go:1261`); a refused caller is counted
  for a moment and refuses another (`rtc/hub.go:878`); a clip that ends while the
  channel is full is dropped (`record/recorder.go:229`); the ring never evicts a
  picture for its age (`record/recorder.go:236`).

## Fairness

- Talk-back: strong fairness of time (tracks may open and close at every
  instant, and time still passes) and weak fairness of each ticker's `expire`.
  Nothing is assumed of packets, tracks or the opening of the output.
- Viewers: weak fairness of goroutines that can run. For a page that is gone the
  keep-alive's ping fails within its deadline (`server/server.go:1825`) and ICE
  loses the peer's consent; a page that stays is assumed nothing of.
- Notifier: weak fairness of goroutines that can run; an attempt ends because the
  HTTP client gives it twenty seconds, and a pause because it is a timer. Nothing
  is assumed of what services answer, nor that `Close` is called. Recogniser:
  weak fairness of the worker and of the round.
- Sign-in: weak fairness of handlers that can run. Nothing is assumed of who comes.
- Capture: weak fairness of the supervisors, of whoever is choosing, and of the
  watches' timers. Nothing is assumed of devices: `TheChosenAreOpened` says what
  follows once the chosen one stays plugged in and is granted.
- Outside: of the tunnel, weak fairness of its own retry (`LifeBegins`, a timer) and
  of the waits that hear the context (`Leaves`, `StopsWaiting`); of the program,
  of its own steps, which include the quit's deadline, and of the second copy's
  retries; of the tray, of the window's thread and its timer. Nothing is assumed of
  Tailscale, which may repeat a fault for ever and never return from a start; of a
  disk (`DiskAnswers` has no fairness); of a driver; nor of Explorer beyond the bound
  on what it refuses.
- The rest is checked for safety only. `ClipsEnd` says in terms of the clock what
  would else be liveness.

## Proofs

All theorems are about every behaviour of the specification they name, for any
constants that satisfy the named assumptions of the modules: any number of
viewers, sessions, news, frames, requests, devices, failures. `PROJECT.json`
lists them under `theorems`. The assumptions are the order of the code's
durations (`TalkbackAssumption`: `Idle < Cooldown <= TalkMax`, `Retry <= TalkMax`;
`TunnelAssumption`: the waits grow, and `Confirm >= 2`, since one failure never
confirms; `BitrateWatchAssumption`: what the watch takes for a proof cuts at least
by half; `FramingAssumption`: the early looks end on a late one, and a switch is
believed before the look after it; `CeilingAssumption`: the preset is a whole number
of steps or above 500 kbit/s, as the three of `encoder/presets.go:38` are, and
`ControlAssumption`: it is not below the governor's floor; `ScaleAssumption`: a camera
has sixteen pixels each way and a cadence, and the settling is no longer than the
dwell; `FrameTimesAssumption`: the camera's jitter is less than half its period and
a gate is a whole number of periods, with twice the jitter in the tenth that
`cadenceGate` forgives; `ThresholdAssumption`: a pixel moves when it differs by eight
shades or more, and the code's threshold is twelve; `DetectorsAssumption`: what is heard
is at most 0 dBFS, and so is the highest floor), names that are not members (`Nobody`, `NoOutput`, `NoClip`), ceilings
that are positive where the code's are, `CryHits <= MaxRuns` where a model's bound
must let the case happen, and finite sets. No constant of a proof is tied to the
instance TLC checks. Each inductive invariant was checked by TLC before it was
proved.

`WatchingProofs`, the talk-back. The inductive invariant adds to the properties where each
output is (named by one goroutine, or free) and that `opening` excludes a
speaker; without it nothing forbids a second packet from opening over the first.
From it follow `FloorIsExclusive`, `OutputsAreAccountedFor`,
`VoicesDoNotOverlap` and, step by step, the refinement `TalkbackImplementsFloor`.
`ThePauseIsOwed` needs that a cut that was decided is still due when it is
made (`CutIsStillDue`). `TheCapCountsOnTheRoom` compares two clocks: `RoomInv`
says that the stretch the code measures is at least what the room was muted for
since it last heard a whole pause, however slow the opening, however the turns
alternate. `WholePause` is the part of a cooldown the room is sure to hear: the
last packet is heard before the turn ends, and a slow opening may split the
pause in two. With a longer one TLC finds a counterexample (`Idle = 1`,
`Cooldown = 6`, `TalkMax = 7`).

`WatchingProofs`, the viewers. `Placed` ties where a session's handler is to what it holds and
to how far its `Close` has got; it is inductive by itself and gives
`TheDeadLetGo` and `EstimatesLeave`. The counters are then compared with
cardinalities: each step leaves the set of sessions that are in alone or changes
it by one (`SeatsAreCounted`, `TheHouseIsBounded`, `TheCountIsHonest`).
`HubTypeCorrect` comes last, since that a counter is never negative follows from
what it counts; `ViewersAreSafe` is all of it.

`RoundsProofs`. A news waits only for the one it found in `latest`. `Chain` is
why that is enough: everything of its code between the two was over when it was
dispatched, so by induction on the order of dispatch everything before it is over
when it goes (`NewsGoesInOrder`, `PhonesGoForward`). `Newest` says who may be in
`latest`, which is why forgetting is safe and only newer news overtakes
(`OnlyStaleIsPassedOver`). The slots are counted (`NoSlotIsLost`), and a
delivery refused would need more of them under way than there are places
(`ThereIsRoomForAll`). `TheRecogniserIsSafe`: the cries that were begun, the
hits that wait and the one that is news have each had runs of their own
(`EachHadItsRuns`). `TheRoundIsSafe`: what is shown has an id that was
given out and no other has (`EachHasItsId`; the ids of one round are apart because
the ranks of a finite set are), and a picture that stopped was dumped when it was
first announced (`TheStoppedIsDumped`), which is what a simulated fault may not
spend. `TheDetectorsAreRight`: when only the light has changed, what the blend has
still to go is the same at every pixel, whatever the rounding, so nothing is beyond
the shift of the whole (`SumIsBetween`, `ShiftIsBetween`, `NothingIsBeyond`); when
nothing changes, it falls by a quarter a step and after twelve steps is under the
threshold (`RestFalls`, `TheBlendComesNearer`). A burst under way is above the
release, so a noise that goes on can only end as the floor (`SoundFeedsKeeps`). The
sums of a sequence are a recursive function, of which the least length that would be an
exception is looked for (`SumsOfIs`); joined to those of another block they are those
of both (`BlocksJoin`).

`KeepingProofs`. What the ring keeps is everything from one keyframe on, the
oldest that fits (`OldestFit`, by the well-order of the naturals), so it is whole
and bounded because what it was cut from was whole (`KeptIsWhole`); one more
frame keeps a stretch whole (`StretchGrows`). The invariant `Media` says that ring
and clip are such stretches up to the last frame, in the shape last declared.
`MemoryStaysBounded` adds the instants of the sound; `EveryClipEnds` needs
`LineInv` (between two rounds a clip is before its finish line, or the round that
will find it there has not ticked yet); `TheEndLeavesNothing` needs `EndInv`
(after `Flush` no round is left to begin a clip). `ThePhonesAreKept`: only a
write that failed makes a device odd, and one device at most (`TheOddAreCounted`,
with what a clean list has written); `AnOrderlyEndForgetsNothing` follows.
`NoChoiceIsLost`: what the monitor has in memory is what was last answered, in the
file too unless the command wrote it (`MemoryIsTheAnswer`), and what is on or about
to be is on in the configuration (`WhatIsOnIsWanted`). `TheClipsAreKept` and
`NothingDearGoes`: the pruning goes from the oldest on and is stated for each clip
at its turn (`AtItsTurn`), when all that is newer is still there; the oldest that
is left, if it is not the newest, was then not over the quota, and nothing else is
left (`PruningIsEnough`). That needs a weight that grows with the clips, which is
why `Weight` is a cardinality and not a fold.

`SignInProofs`. No two requests are in flight from one address (`Alone`), which
keeps a lockout ahead of the attempts (`LockoutHolds`). A request whose generation
is still in force weighs against the password in force, or a revocation is on
its way (`InForce`); the comparison in `createAt` does the rest
(`NoSessionOutlivesItsPassword`). `OnlyTheFirstSetupSets` is the second look in
`apiSetup`.

`CaptureProofs`. `TheCameraObeys`: a session that captures for a past wish can be
reached and is being closed, or its supervisor is awake (`StaleIsBeingClosed`,
`StaleIsAwake`), and every turn without a wait has been paid for by a choice, a
success or a longer backoff (`TurnsArePaidFor`). `TheMicrophoneObeys` has the
same shape, with the mark that can be cleared under it. `TheEncoderIsHeld`: which
encoder each stage of the frame loop and each call holds (`StagesHold`,
`CallsHoldTheLock`), what the probe has to give back (`TheProbeRemembers`), where a
refused half may be (`AsLeft`), and
how many rebuilds may still stop the capture at each stage (`BreaksAreCounted`).
`TheWatchesAreFair`, in three: the frames for which the room has been cut are no
more than those since the last look, and a switch is believed before the next one
(`CroppedSinceTheLook`, `VerifiedBeforeTheLook`); a promised keyframe comes while
the request is still in time (`ThePromiseIsInTime`); the reference of the bitrate
is one command and what came of it (`TheReferenceIsOne`), and a cut by half shows
in what comes out whatever the gain and the rounding (`ACutIsSeen`, `AHalfIsSeen`).
The first of these found the assumption on the looks too weak: `VerifyAfter = 0`
with a look every two frames loses the look after the first frame. The code's
fifteen and thirty are far from it.

`OutsideProofs`. `TheProgramIsSafe`: the port is held by whoever films
(`ThePortIsHeld`), and a size that was lowered is known to whoever gives it back, so
that a command that was not heard leaves the bitrate and nothing else.
`TheTunnelIsSafe`: only a life that serves has the page say so and its listener
is open (`OnlyWhoServesRuns`, `TheListenerIsOpen`), whatever a check of another
life answers; the failures counted are in a row (`FailuresAreInARow`). What the page shows
of the link is what was remembered (`TheLinkIsRemembered`), and that is the last answer's.
`TheTrayIsSafe`: the window's thread is a composition of functions of one record;
lemmas say what each keeps whatever Explorer refuses (`ShowsItsLight`, which a refused
change leaves by naming the picture in `unsent`, and `LitAtRest`), and the mail's
invariant who closes and who quits (`WhoCloses`, `WhoQuits`). `TheNewestIsTold` is
`UpdatesSafety`: versions are ordered by their numbers from the left and then by
the label (`NewerIs`, `NewerIsTransitive`), and a tag that is kept is of the document
whose verdict is known (`UpdatesInv`). `AGestureTurnsOnce`: a gesture that found nothing
counted for a double click has made its turn, or has messages left of which the next
will make it (`HasTurnedSince`).

`FiguresProofs`. What a window adds up to is a recursive function on sequences;
that it is a number for every window is shown by the least length that would be an
exception (`SumsExist`, `SumsAgree`, `TotalIsNatural`). `TheGovernorIsPatient`: the wait
before a rise began no earlier than the last drop, except at the top, from which
nothing rises (`TheWaitIsKept`, branch by branch in `TheGovernorWaits`), and a report
still uncut has not been paid for (`BandInv`).
`TheScaleIsTrue` needs that what is declared soon is what goes out (`SoonTrue`), and
`TheSizeHolds` that every fall is remembered for as long as the dwell
(`FallsAreRemembered`), through rebuilds and realignments. `ADiscountIsEarned`: a
window has no more readings than came in a row at full size (`QualityInv`:
`Len(qps) <= fullFor`), so a discount taken on a full one was earned. `TheLoopIsHonest` puts the
three together: what is in force is what the picture needs within what is granted
(`Meant`), and a release is a beginning (`Afresh`). `PixelsAreGivenUpLast` follows
from what one decision may do (`PixelsAreKept`): a size found to go out already,
because a command is still on its way, is not taken away by the tick that finds it.
`TheGovernorsMoveRightly` is all of `GovernorsMoves`.

`WayProofs`. `TheCameraIsFollowed`: the last frame that passed is the b-th that was
captured and those captured since were not due (`FrameTimesInv`); captures lie within
the jitter of multiples of the period, and multiples are apart (`MultiplesApart`), so
the next that passes is the one wanted. `TheSoundIsWhole`: what waits to be cut is
always the end of what was heard, and what has been cut is all before it
(`PacketsInv`, `LevelsInv`), for whatever lengths the driver hands over; `WhatIsLeft`
and `WhatIsWhole` say what cutting a queue into pieces leaves. `TheReadingIsTrue`: the
reader has the sets the stream wrote, and none is misread, or those declared last, and
each encoder but the first has cost one misreading at most (`TheReaderHas`); and
the percentile is the tail of the readings for every window
(`PercentileIsTheTail`, by its least element and by counting what is under and above
it). `WhatIsOnItsWayIsSafe` is all of `WaySafety`.

### Only model-checked

- The properties under fairness (`FloorComesBack`, `TheGoneAreForgotten`,
  `WhatBeginsEnds`, `HomeIsAnswered`, `TheChosenAreOpened`, `TunnelGoesOn`,
  `ProgramGoesOn`, `TheIconTells`): the prover has neither liveness under fairness
  nor `ENABLED`.
- Of `GovernorsSafety`, three parts: `ACoarsePictureGetsMore`, `TheNetworkIsNotExceeded`
  and `FullSizeComesBack`, which say how many seconds a governor takes to converge on
  worlds that are steady; the others (`TheScaleTellsTheTruth`, `TheDeclaredGoesOut`,
  `WhatIsAskedIsMeant`, `TheNextOneStartsAfresh`, `OneRequestIsAveraged`) are proved.
- `AssemblerSafety` and `ClipSafety` (folds, `RECURSIVE`), `QrSafety`, `HeadersSafety`
  (readers that go through a sequence of fields): what they compute for every input
  needs an induction over data.
- Of `DeskSafety`, what rests on the composition of the panel: its rows, texts and
  code, `ConfirmedOnly` and `EnterIsSafe`. The commands are selected from a sequence,
  and the prover knows nothing of `SelectSeq`. `UpdatesSafety` and `AGestureIsOneTurn`
  are proved.

## Plan

What is left: `ConfirmedOnly` and `EnterIsSafe` over a selection the prover can
reason about; `FullSizeComesBack`.

## Not modelled

Windows capture and encoding (Media Foundation, COM, WASAPI), codecs, sample
arithmetic, the neural network that names sounds, the session report,
encryption and signature of push messages, drawing, texts and the tools under
`cmd/`: bindings, data and functions of their arguments, with no protocol of
their own. The pages are seen as an environment. Within the modelled parts the
words, the log, the receipts of push, the cookie and its renewal and the lengths
of lockouts are left out. `PROJECT.json` lists every component with its reason.
