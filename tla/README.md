# A verification project for the programs of LiGoldragon/primary

The repository is the shared workspace of a group of coding agents. Nearly all of its
4,600 files are doctrine, plans, reports, logs and data. The programs in it are few, and
this project models the three that act on the world while things go wrong around them:

* **the Lojix recovery helper**, `agent-outputs/LojixOsOnlyActivation/ouranos-activate.sh`,
  a root shell script that replaces the operating system of the host *Ouranos*, moves the
  store of a daemon out of the way and undoes what it can when something fails;
* **the UVC driver**, `linux-7.1.8/drivers/media/usb/uvc/`, three files of the kernel's
  USB webcam driver that are kept here for a planned quirk
  (`design/CriomOS-home/fixedFormatCaptureCardVirtualCameraRedesign-2026-07-29.md`);
* **a dictation program**, `index.js`, its renderer bundle, which records and edits in an
  Electron window: its MediaManager (class `Vm`), which records dictations and meetings,
  and the saving of the notes on a meeting's page (the hook that logs as `[useSave]`).

Line numbers below are those of the source files; `V`, `D` and `H` stand for
`uvc_video.c`, `uvc_driver.c` and `uvcvideo.h`. `PROJECT.json` maps each definition to its
lines. `index.js` is minified onto one line of 15.5 MB, so everything in it is at line 1;
the `symbol` of an entry then names the method of the class (its method names and log
messages survive the minifier). That a map names line 1 says nothing of how much of the
bundle is modelled: it is two parts of one class of some 87,000 characters and one hook of
6,000.

1. [Inventory](#1-inventory)
2. [The modules](#2-the-modules)
3. [The runs](#3-the-runs)
4. [Where the code disagrees with what is said of it](#4-where-the-code-disagrees-with-what-is-said-of-it)
5. [The proofs](#5-the-proofs)
6. [What is assumed](#6-what-is-assumed)
7. [What is not modelled](#7-what-is-not-modelled)
8. [Plan](#8-plan)

## 1. Inventory

### The Lojix recovery helper

| | |
|---|---|
| State | Files below `/var/lib/lojix-recovery-primary-mjl2` and its log directory, which later invocations trust; the flock on `SWITCH_LOCK`; about a dozen shell variables, the custody flags among them, that die with the shell; the system profile, the runtime mask and state of `lojix-daemon.service`; owner, mode and place of the store, its sidecar and their directory. |
| Operations | `preflight` builds and dry-activates a closure and records it; a person reviews the log; `switch` starts `activate-inner` in a transient unit and waits for it; `activate-inner` masks and stops the daemon, moves the store out, sets the profile, switches, starts the daemon, exercises it, dwells and restarts it; `self-test-file-custody` tries the helper's file functions. `activation_failure` is the trap that undoes. |
| Interactions | Invocations exclude each other by the flock. `switch` waits for a unit that runs the same script. systemd restarts the daemon; signals and errors run the trap; the person decides what to run next. |
| Hard | A failure between a command and the flag that remembers it; signals during the cleanup; SIGKILL and power loss between any two commands; retries after each of these, with fresh flags over old files; two root shells at once. |
| Correct when | runs exclude each other and end; no daemon sees a store that root holds; the new daemon never opens the old store; the old store is never lost; success means that the host is switched; the recovery record tells the truth. |

### The UVC driver

| Part | State | Operations | Hard | Correct when |
|---|---|---|---|---|
| Stream and URBs (V 1040-1190, 1340-1930, 2040-2390) | URBs, their work items and lists of copies, transfer buffers, the queue of video buffers and their reference counts, `frozen` | start, stop, suspend, resume, completion handler, copy work | control paths, handlers and work items on several CPUs; unplugging; each step of a start can fail | no memory is used after it is freed, no URB has two users, no buffer is lost, handed over early or given back by a suspend; everything is released; nothing hangs |
| Decoder (V 1185-1500, 1540-1600) | `last_fid`, `sequence`, the buffer at the head of the queue | one packet at a time | lost and damaged packets, missing buffers, devices without EOF or FID | a frame without the error flag is one frame of the device; sequence numbers count them |
| Clock (V 500-920) | a ring of samples of three counters, an overflow pointer | add a sample, reset, convert a PTS | four counters that wrap around at different times | timestamps are right |
| Negotiation (V 57-495, 2041-2346) | `stream->ctrl`, the device's own copies, the alternate setting, the size of the transfer buffers | init, probe, commit, select, allocate | lost answers, devices that answer nonsense, resets | the device streams what the application was told, and there is room for it |
| Chains (D 1408-1929) | the lists of entities | scan an output terminal forward and backward, fall back | references that dangle, run in circles or meet | no list is corrupted, documented topologies are found, scans end |
| Device (D 1939-2385) | `uvc_device`, its reference count, the registered video devices | probe, register, disconnect, delete | disconnecting while files are open; failures half way | *not modelled yet* |
| Bulk, output, metadata (V 1420-1540, 1600-1740) | `stream->bulk`, the metadata queue | decode and encode over several URBs | a payload that spans URBs | *not modelled yet* |
| Descriptor parsing, quirk tables, statistics (D 40-800, 870-1400, 2386-; V 920-1035) | descriptors | parse | malformed bytes | see [section 7](#7-what-is-not-modelled) |

The parts meet like this. Chains decide which terminals get a video device; negotiation
fills `stream->ctrl` and sizes the transfer buffers; starting a stream commits the
negotiated control and submits the URBs; the completion handler runs the decoder over
each URB and leaves the copies to a work item, which submits the URB again; the decoder
feeds the clock with samples, and the clock is asked when a buffer is handed over.

### The MediaManager

| Part | State | Operations | Hard | Correct when |
|---|---|---|---|---|
| Dictations | `recordingMutex`, `shouldAbortStart`, the sessions that are current, active and draining, `isRecording`, the media stream, an orphaned `getUserMedia` call, the audio graph with its worklet, the encoder | `AudioStart`, `AudioStop`, `initialize`, the worklet's messages, the repair of the graph | a stop overtakes a start that awaits the microphone; a start overtakes the end of the recording before it; what cannot be cancelled must be cleaned up; the graph is replaced under its users | a stop is final, the microphone is closed, a recording is reported done once and keeps its audio, nothing hangs |
| Meeting capture | for the microphone and for the system's audio: session, stream, a starting and a stopping promise; owners and budgets of restarts; the coordinated recovery | start and stop, restart after a failure, kill of the audio service with a second acquisition of both | four callers that start and stop the same capture, each across several awaits; timeouts | a stop is final, no stream is lost, a loss is reported, nobody waits in a circle |
| Sounds, silence warnings, device choice, telemetry | | | | *not modelled* |

The two meet in three places: a dictation waits for a meeting's start and stop, a
meeting's start waits for the dictation's mutex, and each is refused while the other
records. The code runs on one thread; what interleaves are its continuations after each
`await`, messages of the main process, of the worklet and of the devices, and timers.

### The page of a meeting

| Part | State | Operations | Hard | Correct when |
|---|---|---|---|---|
| Saving (`useSave`) | `hasEdited`, the timers of the autosave and of a retry, the number of retries, the mutex `meeting`, the badge `saveFailed` | an edit schedules an autosave; a chat's tool replaces a text and saves it; `save` under the mutex, with up to three retries; `flushPendingSave` for a page that is left and for `FlushPendingSave` | edits during a save, saves that wait behind one another with texts read at different times, timers that a later save cancels, failures and lost answers | what was edited is saved or the badge is shown; a flush leaves nothing behind; no save takes back what another saved |
| Pages (L2Shell) | which meeting is open | open with what `GetMeetingContent` returns; leave after a flush of at most 1.5 s, or without one | the next page reads while the last one saves | a page starts from what was saved |
| Landing summaries, corrections of the transcript, read-only pages | | | | *not modelled* |

### Other programs

`flows/7f2015/refresh.sh` retires a flow and launches its successor between two rewrites
of a configuration. `flows/a53796/tools/extract-living-words.py` filters a transcript and
replaces its output atomically. The phase-lift experiments
(`reports/protosVisionReacquisition/experiments/phase-lift/`) are small Rust programs about
types. The rest of `index.js` is the window's views, stores and libraries; `flake.nix` lists
packages. The `.schema` drafts declare messages of a daemon that lives in another
repository. None of these is modelled; section 8 says which will be.

## 2. The modules

| Module | Models | Checked by | Proved in |
|---|---|---|---|
| `LojixRecovery` | all of `ouranos-activate.sh` and the host around it | `MC_LojixRecovery` | `LojixRecovery_proofs` |
| `UvcStreaming` | URBs, works, buffers, control paths | `UvcStreaming.cfg` | `UvcVideo_proofs` |
| `UvcDecode` | payload headers to frames | `MC_UvcDecode` | `UvcDecode_proofs` |
| `UvcClock` | samples and timestamps | `MC_UvcClock` | `UvcVideo_proofs` |
| `UvcNegotiate` | probe, commit, alternate setting | `MC_UvcNegotiate` | `UvcNegotiate_proofs` |
| `UvcChain` | entities to chains | `MC_UvcChain` | `UvcChain_proofs` |
| `DictationService` | what the main process may rely on: dictations begin one at a time and are reported done once | `Dictation` implements it | `Dictation_proofs` |
| `Dictation` | starting and stopping dictations, microphone, graph, worklet | `VoiceDictation.cfg` | `Dictation_proofs` |
| `MeetingCapture` | both captures of a meeting, their restarts, the recovery | `MC_MeetingCapture` | `MeetingCapture_proofs` |
| `NoteSave` | autosave, retries and flushes of a meeting's page; pages opened one after the other | `MC_NoteSave` | `NoteSave_proofs` |

An operator whose comment begins with *Mutant* is a broken variant of the definition after
it, with a bug that code of this kind might have. No action uses it; for each property
there is one with which TLC finds the property violated. `UvcVideo_proofs` has the proofs of
two modules that model parts of `uvc_video.c`; that is why the specification and the type
invariant of `UvcClock` are called `ClockSpec` and `ClockTypeOK`.

### LojixRecovery

`pc[p]` is where the invocation `p` of `main` is: one for each root shell in `Operators`
and one for the transient unit. `sh[p]` has its shell variables, `outcome[p]` how the last
one ended, `lock` the holder of the flock. `written` is the set of paths that exist in
`STATE` and `LOG_DIRECTORY`; of contents only what decides anything is kept: `reviewed`,
`recovery` and the `discarded` files. The host is `profile`, `current`, `masked`, `svc`
(the daemon), `pid`, `dir` and `file`.

A step is one command that changes something, or a run of commands that only read, because
bash runs a trap between two commands. `Fail` is a failing command (`set -e` and the ERR
trap): from the labels in `Trapped` it enters `activation_failure`, elsewhere it ends the
shell. `Signal` does the same for HUP, INT and TERM, and during the cleanup, where the
traps are back at their default, it ends the shell half way. `Kill` is SIGKILL, `KillShell`
kills only the shell of a waiting `switch`, whose `systemd-run` lives on with the inherited lock; `Reboot` ends all
shells and drops the runtime mask. The daemon may crash and be restarted by systemd.
`Acknowledge` is the person who installs the review marker.

### UvcStreaming

`ctl` and `call` are the program counter and the caller of the one control path that can
run (vb2's and the driver's mutexes and the PM core allow no second). `urb[u]` says who
has an URB, `poisoned[u]` is `usb_poison_urb`'s mark, `work[u]`, `ops[u]` and `turn[u]`
are the work item, its copies and the copy it is at. `irqqueue`, `state`, `error`, `used`
and `ref` are the buffer queue. `cur` and `packets` belong to the completion handler that
runs; those of one endpoint do not overlap.

The interesting order is that of `uvc_video_stop_transfer`: poison each URB (two steps, a
mark and a wait), flush the works, free. A work item in between tries to submit its URB
and is refused. What a header says is left open here: any packet may belong to the frame,
be bad, end it or be dropped. `UvcDecode` has the rules.

### UvcDecode

The device sends `MaxFrames` frames of `FrameSize` payloads; `pkt` is the packet that the
decoder is at. One action is one way through `uvc_video_decode_start`, `_data` and `_end`:
`FidToggled`, `ImageStarted` and `FrameEnded` hand a buffer over, `NoBuffer` and
`OutOfSync` drop a packet, `PayloadCopied` copies it. A buffer carries two things the code
does not know, which payloads were copied into it and in which run of the transfer it
began. `Setups` are records of a device, its format and its queue.

### UvcClock

`Decode` is one packet with an SCR: the offset of the device's SOF is estimated, samples too close to
the previous one are ignored, and `AddSample` moves the ring and the overflow
pointer. `DecodeZero` is the payload without data and with an SCR of zeros. `SofOf`,
`Near` and `TimeOf` are the two interpolations of `uvc_video_clock_update`, evaluated in
every state for every capture time that the comment before the function covers. Time is in
units of one USB frame; the 16 decimal bits of the code and its remainder `y` are left
out. The periods of the counters are parameters, with the divisibility that the real ones
have.

### UvcNegotiate

A control request and its answer are one step. `chosen` and `committed` are what the
device keeps, `ctrl` and `cur` what the driver keeps, `answered` what the device ever
answered. `SetProbeFails` and `GetFails` are lost or refused requests, of which the device may or
may not have taken the data. `FixedUp` is `uvc_fixup_video_ctrl` with
its quirks, in its order: hint, image size, sign extension, estimate, cap. `SelectAlt` chooses the narrowest
alternate setting that is wide enough, `Allocate` and `AllocateFewer` size the transfer
buffers and keep those of a suspend.

### UvcChain

An entity is its position in the device's list. `Init` takes the descriptors of a device
and gives each entity its identifier, as `uvc_alloc_new_entity` does. A step scans one
entity (`ScanEntity`), follows one reference forward (`FollowReference`), looks at one pin
of a selector unit (`NextPin`) or goes one entity backward (`Backward`). `linked` outlives
a chain that is given up, as the list pointers of its entities do. `Fallback` is
`uvc_scan_fallback`; since it neither waits nor is interrupted it is one step.

Four things in this code came to light while it was translated, and shape the model:

* D 1119-1133 keeps the identifiers of output terminals apart with `0x8000`. Its comment
  says *streaming* output terminals, but `type & UVC_TT_STREAMING` is true of every
  supported type of output terminal. No byte of a descriptor can then refer to one, so
  the workaround at D 1542-1567 for extension units that do is never entered.
* The comment before `uvc_scan_chain_entity` counts external connectors among the input
  terminals of a chain; the function refuses them, and they are accepted only as inputs of a
  selector unit, where it is not called.
* `UVC_ENTITY_IS_ITERM` holds of the privacy GPIO's type `0x7ffe`, so the fallback counts
  it as a second input terminal and refuses every device that has one.
* The fallback writes an identifier of 16 bits into a byte: an invalidated one, 65535,
  becomes 255 and refers to nothing, or to entity 255.

### Dictation

An action is what one continuation does up to its next `await` of something unsettled.
`start[u]` and `stop[k]` say which await a call of `startRecording` or `stopRecording` is
at; `mutex` is `recordingMutex`, its holder first and those who wait behind it in order.
Inside a start the checks come in the code's order: who is draining or recording
(`Blocker`), the meeting (`CheckMeeting`), the graph (`CheckGraph`), the microphone
(`Acquire`), the connection (`Connect`). `answer[u]` is the message that ends it.

`StopCalled` is the message `AudioStop`, which at once aborts a start that awaits the
microphone; the call it awaited becomes the `orphan` that the next start may use, unless it was
a retry's, which is `"forgotten"` and settles on its own (`ForgottenSettles`). Then
`StopEntered`, `LastChunkIn` or `LastChunkTimesOut`, `ProbeEnds` and `Settled` run inside
the mutex, and `Finalised`, which lets the next start pass (`draining`), outside of it.
`toNode` and `fromNode` are the two directions of the worklet's port. `BuildEnds` replaces
the graph, whatever it is used for. The meeting is reduced to the five states of its
microphone that a dictation can see.

`Dictation` implements `DictationService` under a mapping: a dictation is *recording* from
`RecordingStarted` until its encoder is flushed, *ended* when `RecordingDone` was sent, and
*refused* when its start was answered with an error and never began. In particular the
first two never overlap for two sessions, though the code keeps four variables for it.

### MeetingCapture

The start and the stop of the two captures have the same shape and are one set of actions
with a parameter `c`. `at[c][p]` is the await at which caller `p` is: the main process's
start and stop, the restart of the capture, the recovery. `starting` and `stopping` are the
two promises, as the caller whose promise it is. A start waits for the stop under way, then
(the microphone) for a dictation's mutex, then opens; a stop waits for the start under way,
joins a stop under way, or drains and closes. Continuations run before the next message,
which `Quiescent` says.

`attemptMeetingMicRestart` owns its session (`owned`), and a stop of the main process takes
it away. `attemptSystemCaptureRestart` has a budget (`attempt`), backs off, and is deferred
while a dictation records (`pending`). The coordinated recovery kills the audio service,
then stops and starts the system's capture and the microphone's, once more if the first
did not help, and is abandoned after 20 seconds.

### NoteSave

A page is one mount of the editor. What is edited is one field (the notes, the summary or the
title are saved by the same calls) as the set of the edits it contains, so
that a text that lacks one is seen. `queue[p]` is the mutex of `useSave`: the save that is
under way first, those that wait behind it in order, each with the text it was given
(`override`) or without one; `SaveBegins` then reads what is in the editor. `wire[p]` is the fate of the
`SaveMeeting` that the first has sent, `carried[p]` its text. `MainAnswers` is the main
process: it stores the text and answers, fails, stores it and fails to answer (`"lost"`), or rejects it.
`SaveEnds` is the continuation: it clears the badge, or schedules a retry, or gives up
with the badge, or drops a rejected save.

`due` and `timer` are the two timers. Every `save` clears the first when it is called and
the second when its turn comes; for this reason the comparison with `saveSeq` in a retry
never fails, and is not modelled. The tools of the chat change the editor without a
report of a change, so `ChatReplaces` leaves `edited` alone. `flush[f]` is one call of
`flushPendingSave`, with what the editor held then (`want`). `Closes` covers the three ways
out of a page: after the flush, when 1.5 seconds of it have passed, and, through
`openL2Request`, without one. `Opens` is one step from the main process's read to the mount:
the editor is not on the screen in between.

## 3. The runs

| Run | Distinct states | Question and answer |
|---|---|---|
| `lojix_interrupted` | 461,000 | A command fails or a signal arrives anywhere in any of up to four runs of a person's shell and the transient unit, and the daemon crashes once. The unit is unmasked only with every file back in its custody (`FilesSettledWhenUnmasked`) and no daemon runs meanwhile (`CustodyExcludesDaemon`; together `CustodySafe`); one run at a time is past the lock (`OneRunAtATime`), and each run ends (`EveryRunEnds`). |
| `lojix_crash` | 1,529,000 | All six kinds of fault, in the cleanup too, three runs, a power loss. The new system never meets the old store (`NewProfileNoOldStore`), a discarded file is never overwritten (`DiscardedNeverOverwritten`), the host is changed only after a complete preflight (`ActivationFollowsPreflight`), and what a run says is so: its record claims no move that did not happen, and success is reported only for a switched host (`ReportsTrue`). |
| `lojix_switch_refused` | | A violation, section 4. |
| `uvc_streaming` | 444,000 | Two URBs, two buffers, errors of the bus, failing setups and an unplug, the application queuing buffers at any time, but a cancelled one only when the copies into it are over (section 4). The work item owns its URB (`WorkOwnsUrb`), memory exists while it is used (`MemoryInUse`; together `UrbsSafe`), each buffer is in one place and a frame is handed over after its last copy (`BuffersSound`), a stopped stream holds nothing (`StoppedHoldsNothing`), a suspend does not disturb the queue (`SuspendKeepsQueue`), an URB drops out only for a stated reason (`EveryUrbCirculates`), and every control path returns (`EveryPathReturns`). |
| `uvc_decode_streams` | 754,000 | Six streams (see `MC_UvcDecode`), up to four frames, two buffers, three faults. A frame without error has no hole and is whole, but for a beginning or an end that a compressed format may lose unseen (`ErrorFreeIsWhole`), sequence numbers count frames (`SequenceCountsFrames`), no frame is split over two buffers (`FramesApart`). |
| `uvc_clock` | 572,000 | All phases of the counters. One overflow in the window, and the window in order and free of zeros (`WindowUsable`), timestamps right (`TimestampRight`). |
| `uvc_negotiate` | 2,072,000 | Eleven devices, two faults. Only what was answered is committed to (`CommitsWhatWasAnswered`); a running stream has the format the application was told (`StreamMatchesFormat`); a start finds an alternate setting, and setting, bandwidth, frames and buffers fit each other (`TransferFits`). |
| `uvc_chain` | 519,000 | 42,000 devices. No entity is linked twice and chains are closed under references (`ListsSound`), documented topologies are found whole in any order of description (`DocumentedFound`), the fallback rescues what it says (`RescuedByFallback`), scans end (`EveryScanEnds`). |
| `voice_dictation` | 448,000 | Two dictations, two stops that overlap, a meeting; the microphone, the graph or the context may fail, but no call is granted after its retry was aborted and no worklet answers late (section 4). After a stop nothing records or is about to (`StopIsFinal`), an open microphone is that of `Vm.stream`, which somebody closes (`MicReleased`), audio goes out under its own session (`AudioGoesHome`), nobody waits in a circle, apart from finding 2 (`NeverStuck`), where alone a stop may not return (`EveryStopReturns`), and `Dictation` implements `DictationService` (`ImplementsService`). |
| `voice_meeting` | 932,000 | Two meetings without the recovery, or one with it; dictations, dead devices and timeouts at any time. A stop is final (`StopIsFinal`), each running stream belongs to the session in the variables (`StreamsOwned`), a capture that is wanted and gone was reported (`LossReported`), no stop waits in a circle (`NeverStuck`). |
| `voice_deadlock` | | A violation, section 4. |
| `note_saves` | 150,000 | A meeting is left and opened again, two edits of the user or the chat, a flush, every fault. A page at rest has saved every edit or says that it has not (`SettledIsSaved`); a flush ends with every edit before it saved, or the last save failed (`FlushedIsSaved`); what an earlier page or save stored is not overwritten by a text that lacks it (`NeverGoesBack`); every edit is saved or the badge is shown in the end, unless the page is left or the save rejected, and every flush ends (`SavingEnds`). |

Each module has a type invariant: proved for every value of the constants (`LojixRecovery`,
`Dictation`, `NoteSave`), or the first conjunct of one of the above. It says more
than types: cursors stay within their lists, `last_fid` is a bit or unknown, a payload fits
in 32 bits, a source fits in its byte, nobody waits twice for the mutex, a restart keeps
to its budget. Where an invariant has several named conjuncts there is a mutant for each.

**Why the bounds are enough.**

* *Lojix.* The cycle that matters is preflight, failed activation, retry, and one run
  more; four launches have it, and three with every kind of fault at once. One sidecar is
  as good as the two the script knows, for they pass through the same loop in turn; the
  proofs are for any list of them. A second power loss finds nothing the first has not
  left, since `/run` is empty after either.
* *Streaming.* The orders at issue are between one URB's handler, another's work and a
  control path; two URBs have them all. Two buffers let one be filled while copies into
  the other are pending, and a frame that one URB begins is ended by another. One packet
  per URB keeps liveness within reach; an URB with several copies to make is covered by
  the proof of `UrbsSafe`, and so is a host controller that refuses
  submissions at will (`"submit"`), which the run leaves out because `EveryUrbCirculates`
  does not hold under it. Poisoned URBs and an absent device are refused in the run, too.
* *Decoding.* A frame of two or three payloads has a first, a middle and a last; four
  frames and two buffers let a frame be lost between two that are delivered.
* *Clock.* Every initial phase of a period of 16 is tried, so every wrap-around meets
  every other. A ring of three wraps several times; gaps of up to 14 frames let a second
  overflow fall into the ring, small ones leave the ring between two overflows.
* *Negotiation.* Three alternate settings lie below, between and above the needs of three
  frames. Two faults let a second be hit in the recovery from the first.
* *Dictation.* The orders at issue are between the end of one dictation and the start of
  another, and between a stop and a start that it overtakes; a third dictation meets the
  second as the second meets the first. The second stop is the one that comes while the
  first still finishes. The run has the encoder of Opus, whose flush is awaited
  (`FlushEnds`); without it `RecordingDone` is sent at once, with fewer interleavings and
  covered by the proofs. One chunk may be under way; more would only queue up behind it.
* *Meeting capture.* Two meetings let the start of the second meet the stop of the first.
  With two attempts and one for a capture that never delivered audio, every budget is used
  up and every restart has a predecessor. The recovery is for one session, and with it the
  second meeting would add states but no new meeting of callers.
* *Notes.* An edit can meet a save that is under way, one that waits, and a timer; the
  second edit is the one that comes after what the first has set going, and with the flush
  and the retries up to three saves are in the mutex. Two pages are enough for a page to be opened on what another
  one saved; a third meets the second as the second the first. The safety properties are proved
  for any number of edits, pages and flushes. The run does not look beyond states in which a page was
  opened during a save (`Uncontested`), of which nothing is claimed; only the opening of a page,
  which nobody owes, leads there, so that liveness loses no behaviour either.
* *Chains.* The safety properties are proved for any devices. The graphs of four entities contain every cycle, dangling reference and shared
  source of simple entities; larger ones have selector units and several outputs, in the
  order of the descriptors and in the opposite one.

**Fairness.** `LojixRecovery`: weak fairness of `Step(p)`, a live shell runs its next
command and every command returns. No fairness of a person, a fault or systemd.
`UvcStreaming`: weak fairness of each step of a control path, of a handler's return and of
each work item (kernel threads and workers are scheduled), and strong fairness of the
giving back of a poisoned URB, which `usb_poison_urb` waits for and which a poll of the controller
guarantees in each poisoning. The application and the device owe nothing. `Dictation`: the
event loop runs every continuation whose await is settled, timers expire and `getUserMedia`
settles; strong fairness of the worklet, whose context may be suspended and resumed.
Neither the user nor the main process nor a device owes anything. `NoteSave`: timers fire,
continuations run, and the main process settles each `SaveMeeting`, with whatever answer;
this is Electron's contract for an invocation, and without it the mutex is never released,
because no save has a timeout. The user and the chat owe nothing. `UvcChain` is
one sequential function: weak fairness of `Next`. Deadlock is allowed where the bounds or
the end of a program stop a model (`NoteSave` rests when all edits are saved); `UvcStreaming` never stops and is
checked for deadlock; in the two voice modules `NeverStuck` is checked
instead. It says of whatever is under way that what somebody awaits has happened or comes
by itself. That a particular stop comes to its end, and not only some call, is
`EveryStopReturns`.

## 4. Where the code disagrees with what is said of it

1. **`switch` cannot succeed** (`lojix_switch_refused`). `switch` holds the lock while it
   waits in `systemd-run --wait` (520) for a unit whose `main` takes the same lock with
   `flock -n` (546). The unit is always refused, with the message that *another* run is
   alive (547). Only `activate-inner` run by hand, or a hangup that
   ends the waiting shell and its client before the unit asks for the lock, activates.
2. **A dictation and a meeting can wait for each other for ever** (`voice_deadlock`).
   `startRecording` awaits `meetingMicStartingPromise` while it holds `recordingMutex`;
   `runMeetingMicStart` awaits the mutex when it is called during a recording, and the
   promise stands for all of it. A dictation is being stopped, the next one is queued for
   the mutex, and a meeting starts before the first has ended: the second dictation gets
   the mutex before the meeting, waits for the meeting's start, and that waits for the
   mutex. Neither wait has a timeout, `AudioStop` itself queues up for the mutex, and no
   dictation starts again until the window is reloaded. The log messages of the two waits
   say what each means to wait for: `startRecording: awaiting in-flight meeting mic start
   before dictation start` and `startMeetingMicCapture: awaiting in-flight dictation stop`.
   `NeverStuck` shows that this is the only circle.

Some further deviations are noted with their hazards in `PROJECT.json` and are excluded
from the properties by a stated condition:

* The custody of the store's directory has a window: `STORE_DIRECTORY_CUSTODY` is set after
  the chown (264) and chmod (265) it stands for. A failure in between is cleaned up with
  the flag at `no`, and the unit is unmasked over a directory that root owns, against lines
  287 and 386. `FilesSettledWhenUnmasked` speaks of files only.
* `uvc_fixup_video_ctrl` caps the bandwidth of an answer (V 266) before `uvc_probe_video`
  compares it (468); the second round that lowers the quality, which the comment at 436
  promises, is dead for every described format.
* A retry of `activate-inner` after a failed restoration unmasks what the first run kept
  masked (`LojixRecovery` with `"errorInCleanup"` in `Faults`).
* A second signal ends the cleanup half way, although line 344 says otherwise.
* A resume resets `last_fid` but not the buffer that was being filled, so its truncated
  frame is ended by the first packet of the next run (V 2034; condition on `run` in
  `SequenceCountsFrames`).
* A copy can release the reference of the queue. An URB that completes with an error of
  the bus cancels the queue (V 1755) without waiting for the copies that work items still have
  to make, as `uvc_video_stop_transfer` does wait. A cancelled buffer that is queued again then
  has its count set anew, and the end of the old copy, which is to `Release reference taken on
  this buffer` (V 1343), takes the queue's reference instead: the buffer is completed before it
  is filled. With `"status"` and `"requeue"` in `Faults` TLC finds `BuffersSound` violated. It is
  checked with the first, and proved with either (`RequeuesApart`).
* A queue that is empty lets a zero SCR become a sample (V 627), and hides the frames of a
  device without FID from the sequence number (V 1276).
* The error of a lost packet is set on the buffer of that moment only (V 1576). A loss that
  spans the end of a frame, or comes before there is a buffer, leaves the next frame without
  its beginning and without an error, which for a compressed format nothing else shows. In
  the same way a compressed frame that a suspend cuts off is delivered without its end. Both
  are the exceptions that `ErrorFreeIsWhole` states, and TLC finds it violated without either.
* `uvc_video_init` corrects zero indexes after an answer was fixed up with them (V 2281;
  condition on `zeroIndex`).
* A window of clock samples longer than 2048 ms, possible below 16 frames a second, gives
  wrong timestamps (V 787; condition in `Captures`).
* `executeSystemCaptureRestart` starts the capture after its own stop without asking again
  whether the meeting goes on. A stop of the main process that joins the restart's stop
  returns, and the capture starts behind it. A recovery does the same: no stop takes the
  session away from it. These captures are `contested` and exempt in `MeetingCapture`.
* A recovery that is abandoned between its stop and its start of the microphone leaves it
  off without a `MeetingMicCaptureError`, and the restart it asks for in the end returns at
  once, because the microphone is not active (`contested`, too). A system capture that is
  lost with the degrade setting off sends no error of its own.
* A `done` that the worklet sends after the stop's timeout of two seconds ends the next
  recording (`"late"` in `Faults`, which violates `AudioGoesHome`).
* A microphone can stay open after a stop. When a stop aborts a start that awaits
  `getUserMedia`, the first call of that start is kept as the orphan, and if it is granted with
  nobody to claim it, its tracks are stopped (`Orphaned getUserMedia resolved unclaimed — stopped
  tracks`). The call of a retry (`retryGetUserMediaWithBackoff`) is not: the race with the abort
  rejects, the retry returns `null`, and the call is forgotten. If the system grants it
  afterwards, the stream is open and nothing refers to it: with `"lateGrant"` in `Faults` TLC finds
  `MicReleased` violated, after a start, its retry, the stop and the grant.
* When two stops and a start queue up as stop, start, stop, the first to run clears the
  abort signal of the second; the start is then only stopped by the last, after it began.
* A page that is opened again while the last save of its meeting is under way (its flush
  gave up after 1.5 seconds, or it was left by `openL2Request`, and nobody awaits the save of
  the cleanup) shows the text before that save, and its first save takes that back. These
  meetings are `contested` and exempt in `NoteSave`.
* A replacement by the chat's tools is saved with the text it had when it was asked for. If a
  save that waited before it has meanwhile saved what was typed since, this is lost from
  the main process until the next autosave (`Overrides`, exempt from `NeverGoesBack`).
* A save that the main process rejects is dropped without the badge, and a page that is left
  does not retry its last save (`Excused`). The replacements of the chat alone do not even
  cause a last save when the page is left, and a scheduled retry is dropped.
* `FlushPendingSaveAck` also follows a save that failed, with its retry still to come; the
  main process is not told (`FlushedIsSaved` excludes it).
* A meeting's start looks for a dictation before its last awaits and a dictation for a
  meeting before its own, so that both can have the microphone at once.

## 5. The proofs

The theorems hold for every value of the constants that satisfies the `ASSUME`s of the
module: any number of shells, URBs, buffers, frames, devices, dictations and stops, any list of
sidecars, any set of faults. Where a theorem needs more it says so in a hypothesis with a
name, and the run of the property has values that satisfy it.

| Property | Theorem | Hypothesis |
|---|---|---|
| `OneRunAtATime`, `NewProfileNoOldStore`, `ActivationFollowsPreflight`, `DiscardedNeverOverwritten`, `ReportsTrue` | `OneRunIsAlone`, `NewSystemNeverMeetsOldStore`, `PreflightCameFirst`, `DiscardedFilesAreKept`, `ReportsAreTrue` | |
| `CustodySafe` | `CustodyIsKept` | `HandledFaults` |
| `UrbsSafe` | `UrbsAreSafe` | |
| `BuffersSound`, `StoppedHoldsNothing`, `SuspendKeepsQueue` | `BuffersStaySound`, `NothingIsLeftBehind`, `SuspendDropsNoBuffer` | `RequeuesApart` |
| `EveryUrbCirculates` | `UrbsAreNotLost` | no `"submit"` |
| `FramesApart` | `FramesStayApart` | |
| `SequenceCountsFrames` | `SequenceIsExact`, and `SequenceIsInOrder` for its first half | `MarkersComplete`; none |
| `ErrorFreeIsWhole` | `WithoutErrorIsWhole` | `EndsShow` |
| `WindowUsable` | `WindowStaysUsable` | `NoBlindZeros`, `DelaysKeepOrder` |
| `CommitsWhatWasAnswered`, `StreamMatchesFormat` | `OnlyAnsweredIsCommitted`, `StreamKeepsItsFormat` | `NamesFormats` |
| `TransferFits` | `TransfersFit` | `NamesFormats`, `EstimatesSuffice`, `SizesAreGiven` |
| `ListsSound`, `RescuedByFallback`, `DocumentedFound` | `ChainsStaySound`, `FallbackRescues`, `DocumentedIsFound` | |
| `ImplementsService`, `AudioGoesHome`, `StopIsFinal`, `NeverStuck` (of `Dictation`) | `Implementation`, `AudioStaysHome`, `TheLastStopHolds`, `NobodyIsStuck` | no `"late"` |
| `MicReleased` | `MicrophoneIsReleased` | no `"late"`, no `"lateGrant"` |
| `StreamsOwned`, `StopIsFinal`, `LossReported`, `NeverStuck` (of `MeetingCapture`) | `CaptureStreamsAreOwned`, `CaptureStopIsFinal`, `CaptureLossIsReported`, `CaptureNeverStuck` | |
| `SettledIsSaved`, `FlushedIsSaved`, `NeverGoesBack` | `Settled`, `Flushing`, `NoRegress` | |

**`LojixRecovery_proofs`**

* `TypeCorrect`: `Spec => []TypeOK`. `TypeOK` is not inductive, because a shell's
  cursors must be within their lists when a command reads the list. `TypeInv` adds that
  (`CursorsInRange`). One lemma for each group of actions; helper lemmas for the
  kinds of update a shell record can get (`SetFlag`, `SetNumber`, `SetCursor`).
* `OneRunIsAlone`: `Spec => []OneRunAtATime`. The strengthening `LockHeld` says that
  whoever is past the lock holds it. A step of `p` changes only `pc[p]` and passes
  the lock only with it (`StepControl`, `FaultControl`).
* `NewSystemNeverMeetsOldStore`: `Spec => []NewProfileNoOldStore`. `StoreInv` adds
  what the proof needs of the steps in between: from the stop of the daemon to the setting
  of the profile the daemon is inactive, so it cannot create a store behind the script's
  back; once the move of the store is confirmed no store is at the service path; and while
  the profile is new and the running system is not, no daemon runs. Another shell could
  undo each of these, so the proof rests on `LockHeld` (`StepAlone`: who steps past
  the lock is alone there).
* `PreflightCameFirst`: the artefacts of a preflight are written in their order, so that
  the last, which `load_reviewed_closure` looks at, stands for all the others
  (`RecordInv`). Artefacts of an earlier preflight that was interrupted do not break this,
  since a preflight refuses to start over them.
* `DiscardedFilesAreKept`: `MoveInv` says that a sidecar is on its way only while nothing lies
  at its target, and that whatever a shell's flags or the recovery state claim to be there is.
* `ReportsAreTrue`: the overclaiming half is `MoveInv`. For the success of an activation
  `ModeInv`, `VersionInv` (profile, running system and the format of the store move on
  together), `StageInv` (what is done by the stage of the run) and `SuccessInv` follow the host from the
  move of the store to the report, and beyond it through the runs of other shells: these get
  nowhere, because the running system is no longer the one that the preflight recorded.
* `CustodyIsKept`, from `FilesComeBackBeforeTheMaskGoes` and `DaemonStaysOutOfCustody`:
  `CustodyInv`, a file in
  root's hands is one whose custody a living shell knows of (`Holds`: flag, inode and the
  place in the program agree), under the mask and with the daemon down. `HandledFaults`, only failing
  commands and single signals, is needed: a killed shell or a failing cleanup leaves a file
  in root's hands, and a reboot or a later run drops the mask over it.

**`UvcVideo_proofs`, the stream**

* `UrbsAreSafe`: its halves are `WorkOwnsItsUrb` and `NoUseAfterFree`, `Spec => []WorkOwnsUrb`
  and `Spec => []MemoryInUse`. They are proved together from `UrbInv`, the conjunction of both with `UrbTypes`, `Stages`
  and `Holdings`. `Stages` says what is already true at each point of a start and a stop: the URBs
  before `next` are poisoned and idle, after the wait all are, after the flush no work is
  pending. `Holdings` says at which points memory and clock are allocated. The heart of
  the argument is that `poisoned` never falls while a stop is under way, so the work items
  that are still pending cannot submit.
* `BuffersStaySound`: `BufInv` counts. While a buffer is queued its reference count is the number of
  pending copies into it and one for the queue; after the queue has let go it is the
  number of copies; a cancelled buffer keeps the queue's reference, so that none of its copies
  hands it over a second time (`BufferOK`). `HandlerInv` says where the one handler that runs and
  the copies of the work items stand. Counting is over `Copies(b)`, the set of pairs of an URB and a
  position, with the cardinality lemmas of `FiniteSetTheorems`. `RequeuesApart` says that
  `"status"` and `"requeue"` are not both in `Faults`; with both the theorem is false (section
  4). With `"status"` alone a cancelled buffer waits for its copies. With `"requeue"` alone
  nothing waits, and what the proof needs is `CancelInv`: an URB that is poisoned is given back
  before the control path goes on, so a cancelled buffer has copies pending only while a stop
  is on its way to the flush, when nothing is queued, or when the device is gone, and then
  queueing gives it straight back. After the flush no handler and no work item has a copy left
  (`NoneCopying`).
* `NothingIsLeftBehind`, `SuspendDropsNoBuffer`: `PathInv`, what each control path leaves
  behind, and that a suspended stream is frozen unless the device is gone.
* `UrbsAreNotLost`: from `UrbInv`, for one step. Without the hypothesis that no submission
  is refused without a reason it is false, since the code only logs such a failure.

**`UvcDecode_proofs`**

Four inductive invariants, each on top of those before it. A packet that is consumed is
looked at apart from what it does to the frame before it (`Moves`, `Consumes`, `Counts`), so
that the ways a frame can end do not multiply.

* `FramesStayApart`: `Base` and `DataInv`, for every stream. `Held(F)`: no frame that a buffer
  holds is later than the one being decoded, and if it is that one, `last_fid` shows that
  its FID was seen, so that a new buffer is not in sync with it.
* `SequenceIsInOrder`: `SeqInv`. `Behind(l)`: `sequence` is at least `l` behind the frames of
  the device; the decoder never makes up for a frame it has missed, so this stays true, and each
  buffer fixes an `l` (its `Offset`) for those after it. It holds for every stream under every fault,
  and is the first half of `SequenceCountsFrames`.
* `SequenceIsExact`: `Ready` (the decoder is where the device is) and `Even` (all buffers of
  a run are equally far behind). `MarkersComplete` names the streams that this holds for: a
  device with UVC_QUIRK_MJPEG_NO_EOF is recognised by the marker of its first payload and
  only where there is a buffer, so its payloads are not lost and its queue does not run empty;
  a device without FID sets its EOF bit.
* `WithoutErrorIsWhole`: `WholeInv`. The first buffer, unless its error is set, holds a run of
  payloads of one frame, and the next one in order is what comes (`HeadWhole`, `Follows`); the last payload
  says that it is one (`Marked`). For an uncompressed format the size then tells a whole frame
  from a part; a compressed one begins with the first payload unless packets are lost
  (`FromFirst`), and ends with the last unless the transfer was started anew since
  (`HoldsWhole`); these are the two exceptions of the property (section 4). `EndsShow`, the only
  hypothesis, is about devices: where the property claims anything (no packets
  that vanish unreported), a device without FID sets its EOF bit, and one that forgets ends
  of frames has the quirk.

**`UvcVideo_proofs`, the clock**

* `WindowStaysUsable`: `ClockInv`. The samples of the ring, from the last one backward
  (`Back(j)`), get older, none is a zero, and the SOF goes down only at `last_sof_overflow`,
  which is a sample of the window or the slot overwritten next; the last sample is the one
  that `last_sof` remembers, corrected by `sof_offset`. The counting of `AddSample` is arithmetic modulo the
  size of the ring, for which the module proves what it needs.
* `NoBlindZeros` excludes a device that fills the SCR of empty payloads with zeros while
  the queue is empty: there the code takes the zeros for a sample (section 4). `DelaysKeepOrder`
  says that the delays of the handlers do not turn two samples round: they differ by
  no more than the least distance of two samples' SOFs (7 ms in the code), or by less than
  the packets are apart. Completion handlers of one endpoint run in order, so this asks only that
  none is held up by 8 ms more than the one after it, or else that none overtakes a packet.

**`UvcNegotiate_proofs`**

* `TypeCorrect`: `TransferInv`. Alternate setting and buffers are those of the bandwidth
  of `ctrl` from the selection on, which no path changes while there are any (`PathInv`,
  `UrbInv`). Payload sizes stay below 2^32 for every device.
* `OnlyAnsweredIsCommitted`, `StreamKeepsItsFormat`: `AgreedInv`, `ctrl` is the corrected
  answer for settings that were asked for and answered; before a transfer they were
  committed to. `NamesFormats`: the device names the format and frame it answers for. For one
  that answers zeros (`zeroIndex`) `uvc_fixup_video_ctrl` corrects the answer with no
  format at hand; what is true of those is left to TLC.
* `TransfersFit`: `SignDropped`, the estimate and the cap, followed through
  `uvc_fixup_video_ctrl`. That an answer above the widest alternate setting is cut to it, and
  that the narrowest wide enough is chosen, rests on the maximum of a finite set, proved from
  the well-foundedness of the inclusion of its finite subsets (`MaxOfFinite`).
  `EstimatesSuffice`: UVC_QUIRK_FIX_BANDWIDTH is set for devices that ask for a senseless
  bandwidth, and the driver's estimate covers what their uncompressed frames need; `SizesAreGiven`:
  a device with a compressed format gives the size of its images, or is one of the old
  ones whose empty field the driver fills in. Where a device does neither, nothing in the driver could know.

**`UvcChain_proofs`**

The theorems are about every set of devices: `DevicesAssumption` says only what
the parsing of descriptors ensures, so references may be zero, dangle, name the entity itself or
run in circles.

* `ChainsStaySound`: `Spec => []ListsSound`, that is, `TypeOK`, `NeverLinkedTwice` and
  `ChainClosed`. `ChainInv` is inductive. `WellFormed` is what `uvc_alloc_new_entity` and the
  parsing give: only output terminals have an identifier above 255 (but for the GPIO
  unit and the invalid one), and valid identifiers differ. `Marked`: whatever is in a list has
  `chain.next` set, also after the chain was given up, so the code's check before each
  `list_add_tail` is enough. `Cursor` places the scan in its chain. `Closing`: each source of an
  entity of the chain is in the chain, zero, or `Pending`, one that the backward scan or the
  loop over the pins has yet to come to.
* No byte names an output terminal, so `Referring` is empty there and the branch that reconnects an
  extension unit from an output terminal to that one's source (D 1542-1567) is never
  taken (`Refers`, `Unchanging`). `KeepsEntities`: only the fallback rewires a device.
* `FallbackRescues`: a chain is only given up to `"failed"` when `FallbackFits` is false
  (`Closing`), and that is true of each device that `RescuedByFallback` describes. `FallbackIs`
  is what the sequence of the fallback consists of, proved from the ranks of a finite set of numbers
  (`Ranked`).
* `DocumentedIsFound`: `Spec => []DocumentedFound`, whatever the order of the descriptors and
  however long the path. `WalkInv`, inductive together with `ChainInv`, follows the scan of a device along
  any of its main paths: it is at some level of the path (`Standing`), has linked the units of the
  levels above (`LevelsMarked`), the inputs of the pins so far (`InputsMarked`), and every
  branch and output terminal that hangs on something linked, unless the forward scan at that
  one has yet to come by (`LeavesMarked`). Hence the first chain is never refused
  (`WalkAccepts`), each reference that the forward scan finds is a leaf that is not linked
  (`RefersHangs`), and when the scan arrives at the inputs everything is linked
  (`WholeLinked`), so that no second chain is begun. The fallback needs an argument of its own, because
  it may leave a device documented that was not: its rewired sources lead from the output terminal
  through all its units, so any main path of the new device is within the chain (`WalkFallsBack`).
* Numbers are reasoned about by their least or greatest counterexample (`LeastOf`, `GreatestOf`).

**`Dictation_proofs`**

* `TypeCorrect` and `Implementation`: `Spec => []TypeOK` (which includes that nobody is
  twice in `recordingMutex`) and `Spec => ImplementsService`, the whole refinement: the
  initial states map to an initial state of `DictationService` and every step to a step
  or a stutter of it. Both assume `"late" \notin Faults`. This is needed, not convenient: a
  `done` that the worklet sends after the timeout of two seconds ends the recording that
  has begun since.
* Both rest on `Invariance`: `ServiceInv` is inductive. Its parts are what the code
  relies on and nowhere says. `MutexInv`: whoever is inside a start or a stop is in the
  queue of the mutex, and past its entry at the head. `EndInv`: `drainingChunkUuid` is set
  exactly while one stop ends a recording, is the active session's, and there is only one such
  stop although `finalizeRecording` runs after the mutex was released. `StartInv`: a start past
  its checks finds nothing that records or drains, through all awaits that follow; and
  a repeated start of the session that records gets the mutex before any stop, so that it
  cannot begin the session again after its end. `MessageInv`: the worklet is asked to stop,
  and answers, once for each recording. `DoneInv`: what was reported done does not
  record, and what was not heard of never did.
* The steps are first reduced to what they do to recordings: `StartMoves`
  (a start answers, waits, or begins), `StopMoves` (a stop takes the recording, finds none,
  goes on, times out, returns) and `Aside` (everything else). The parts of the invariant and
  the refinement are then proved from these, not from the actions. A start that begins maps to
  `Begin`, one refused before it began to `Refuse`, the report of the end to `End`.
* `MicrophoneIsReleased`, `AudioStaysHome`, `TheLastStopHolds`: `DictationInv`, three more
  parts on top of `ServiceInv`. `MicInv`: while a stop settles it has closed the microphone
  already, so giving up `Vm.stream` loses none. `AudioInv`: the worklet, and the messages to and
  from it, are of the recording under way; `done` is its last word. `StopInv`: when the last
  thing asked for was a stop, one stands in the queue of the mutex behind every start in
  flight, and one is to end what records. `MicrophoneIsReleased` assumes, besides, that no call
  is granted after its retry was aborted (`"lateGrant"`): with it the microphone stays open
  (section 4).
* `NobodyIsStuck`: `NeverStuck`, from `ServiceInv`. If somebody holds the mutex he is a start, a
  stop, `initialize` or the meeting (`MutexInv`), and has entered it or can. A stop that has
  entered awaits the worklet, whose messages are there, a graph that is being built, or the
  encoder, which finishes (`StopGoesOnOrOthers`); a start awaits the end of a recording, which
  such a stop has in hand (`EndInv`), or a meeting that is at work, unless that waits for the
  mutex (`StartGoesOnOrOthers`). With nobody in the mutex only a stop in `finalizeRecording` is left.

**`MeetingCapture_proofs`**

* `CaptureNeverStuck`: `NeverStuck`, from the first layer of `IInv` alone, so that it holds of
  contested captures, too: a stop awaits a start, that awaits at most a stop that closes the
  capture, and this one awaits nobody. A promise is never that of a caller who has gone.
* `CaptureStreamsAreOwned` (which includes `TypeOK`), `CaptureStopIsFinal` and
  `CaptureLossIsReported`: `StreamsOwned`, `StopIsFinal` and `LossReported`, for any set of
  meetings and any limits of the restarts. Like the properties, the theorems say nothing of a
  capture that is `contested`. Of the constants they assume what the code gives by itself: the
  limits are positive, the sessions finite, and `None` is neither a session nor a caller.
* None of the properties is inductive: who may start or stop a capture depends on which promise
  each caller awaits. `IInv` has two layers. `CallsOK` and `StreamOK` hold of every
  capture: each promise is that of a caller who runs, a stop awaits a start, the recovery is at
  work only at the capture of its phase. `Safe` holds of a capture that is not contested, and says
  that callers take turns. `OneStart`: at most one start, of a capture that is free.
  `StopReaches`: whatever runs is for the session that is wanted, or the main process's stop
  awaits just that start. `FreshIsNew`: what the main process is yet to start is in nobody's
  hands. `RecoveryAlone`: an active recovery is the only one that restarts.
  `RestartOwns`: a restart that may still start its session does so for the one that is
  wanted, the microphone's because a stop would have taken `restartOwnedSession` away, the
  system's because a stop that joins it makes the capture contested.
* `AllServed`, on top of it, is what `LossReported` needs: a session that is wanted is recorded,
  reported, or somebody's work, and whoever leaves his work leaves one of the first two behind. A
  restart of the microphone that finds its session taken away may give up in silence, since it is then not
  wanted; a restart that has started pauses only after the failure was reported.
* Each operator of the code is first reduced to what it does to one caller of one capture
  (`Starts`, `Stops`, `Rests`), which is proved to keep the parts of the invariant. The actions
  are then combinations of these, and an action of one capture leaves the other as it was
  (`OneCapture`, `OneServed`).

**`NoteSave_proofs`**

* `TypeCorrect`, `Settled`, `Flushing` and `NoRegress`: all safety properties of
  `NoteSave`, for any number of edits, pages and flushes and under every fault, from one
  inductive invariant, `IInv`. Where the properties say `contested = {}` the invariant does.
* `TextInv` is the heart of it. Only the page that was opened last has saves in its queue, what is
  stored is part of its text, and so is each text that a save carries or will read
  (`Text`). `EndInv`: the last save of the queue has the whole text when no autosave is
  scheduled. `Over(W)`: the edits `W` are in the editor and in every save of the page that
  was opened last. Nothing takes that away again, and it is what keeps saved edits saved:
  `QuietInv` and `FlushInv` claim it of a page at rest and of a flush that is over, and
  without it neither would survive the next save, or the next page.
* All actions but two, the storing of a text and the opening of a page, are reduced to
  one relation (`Continues`): a text of the queue after the step is one from before it or
  what is in the editor, and so is the last. The end of a save, which shifts the queue, is
  of this kind too. `TextInv`, `EndInv` and `Over` are then proved once from that relation.

**Only model-checked.** Out of the provers' reach are liveness under fairness (`EveryRunEnds`,
`EveryPathReturns`, `EveryScanEnds`, `EveryStopReturns`, `SavingEnds`). `TimestampRight` of `UvcClock` is about an interpolation, a quotient of
products of variables, which neither prover decides. All of these are checked on the instances
above.

## 6. What is assumed

* *The host of the helper.* A command either has its effect or fails without it. `mv`
  within one file system and the replacing of the profile link are atomic. The daemon
  creates a store of its version's format when it finds none.
* *Code that is not in the repository.* `uvc_queue.c`, `uvc_v4l2.c` and vb2 are modelled
  from how the three files use them: buffers queue up in order, a stream is started and
  stopped under the queue's mutex, and one that is stopped gets all its buffers back.
  Queueing sets the reference count of a buffer to one. An application may queue a buffer
  as soon as it has it back; with `"requeue"` in `Faults` that is also so for one whose copies are
  pending (`UserOwned`). `uvc_streaming` leaves `"requeue"` out, because it has errors of
  the bus: section 4 says what the two do together.
* *The USB core.* Completion handlers of one endpoint do not overlap;
  `usb_poison_urb` returns when the handler is done and lets no submission through; an
  unplugged device completes its URBs with `-ESHUTDOWN`.
* *The device.* In `UvcDecode` it sends its frames in order; in `UvcNegotiate` it keeps one
  set of probed and one of committed settings and answers a GET_CUR with the former; in
  `UvcClock` its clock runs at the rate of the bus.
* *Reports of loss.* `ErrorFreeIsWhole` presumes that lost packets are reported: for a
  compressed format a packet that vanishes without a report cannot be noticed (V 1190). What it
  does not presume is that a report reaches the frame it is about.

* *The main process of the dictation program* is not in the repository. It gives each
  dictation a fresh identifier, asks for one again only after `AudioContextRecoveryStarted`
  or while it records with no stop under way, and starts the next meeting only when the
  stop of the last does not await a start.
* *The main process and notes.* It stores what `SaveMeeting` sends at once, answers later,
  and keeps no text of its own for the field that is followed. One meeting has one page at a time.
* *The browser.* `getUserMedia` settles. The worklet answers a stop within two seconds or
  never (unless `"late"`); an idle one may or may not answer. The codec of the encoder is supported.
* *One thing at a time.* A recovery begins only when the last one is over.

## 7. What is not modelled

* *In the MediaManager*: the closing of the context for tests, microphone tests, sounds,
  the choice among devices, warnings about silence, telemetry; the liveness probe and the
  silence watchdog, which only decide when `SystemFails` and `RecoveryBegins` happen; the
  ladder that re-arms a restart, the mute timer, and a kill that was deferred for a dictation.
* *On a meeting's page*: summaries of the server that land while it is open
  (`applyServerSections` replaces the summary, edited or not), corrections of the transcript
  with a flush of their own, pages that are read only, a `GetMeetingContent` that fails, after
  which the page shows the text of the list of meetings, and the flags that leave an unchanged or a
  cleared field out of a save.
* *The rest of `index.js`*: minified views, stores and libraries of the window, without the
  main process they talk to.
* *Descriptor parsing* (D 300-800, 870-1400): a byte parser without interaction; the
  models start from its results. *Quirk tables* are data, *statistics* only count for
  debugfs.
* *Encodings.* The fields of a video control that only travel along (key frame rates,
  clock frequency, versions) are one value; the estimate of a frame's bandwidth is a
  constant of the frame; the fixed-point arithmetic of the clock is in whole frames.
* *Bulk and output transfers, metadata, the life of the device*: planned, section 8.
* *The texts of the helper*: messages, evidence files and log formats are left out, except
  for whether they exist.
* *Everything in the repository that no machine executes*: doctrine, skills, roles,
  protocols, reports, logs. The daemons they speak of are in other repositories.

## 8. Plan

Done, in this order: `LojixRecovery`, `UvcStreaming`, `UvcDecode`, `UvcClock`,
`UvcNegotiate`, `UvcChain`, `DictationService` and `Dictation` with the refinement,
`MeetingCapture`, `NoteSave`; then the proofs of all of their safety properties but
`TimestampRight`.

Next, models:

1. `UvcDevice`: `uvc_probe`, `uvc_register_chains`, `uvc_disconnect`, `uvc_delete` with
   the references of open files and video devices (D 1939-2385). Properties: the device is
   deleted once, after the last file and the last stream; a failure in any step of the
   probe releases what was taken. It composes with `UvcChain` (what gets registered) and
   with `UvcStreaming` (unregistering a video device that streams).
2. `UvcBulk`: `uvc_video_decode_bulk`, `uvc_video_encode_bulk` and
   `uvc_video_decode_meta`, with a payload that spans URBs.
3. `UvcFrameQueue`, an abstract specification of what an application sees: buffers are
   queued, filled once and returned once, in order or with an error. `UvcStreaming`
   implements it under a refinement mapping.
4. `FlowRefresh` and `LivingWords`, from `refresh.sh` and `extract-living-words.py`.

Next, proofs: the initial states and the steps of the refinement of `UvcFrameQueue`, on
`StreamInv`.
