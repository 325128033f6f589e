# Silk Studio in TLA+

Silk Studio keeps the last seconds of a game in memory and writes them to disk
when the player presses a key. This directory holds TLA+ models of the code that
has to get this right, the TLC configurations that check them, and proofs, checked
by TLAPS, of theorems that hold for every value of the constants. Paths below are
relative to the repository root.

- [The system](#the-system)
- [Modules](#modules)
- [Runs](#runs)
- [Fairness](#fairness)
- [Disagreements with the documentation](#disagreements-with-the-documentation)
- [Proofs](#proofs)
- [Plan](#plan)
- [Not modelled](#not-modelled)

## The system

A desktop shell (Tauri, `apps/desktop/src-tauri`) holds one `Controller` behind a
mutex and sends it commands: `StartCapture`, `StopCapture`, `SaveReplay`, `Poll`
(every 25 ms). Everything else happens on worker threads.

```
 display capture ──frames──▶ video worker ──packets──▶ ┌──────────────┐
   (callback, ring 8,          │  encoder with         │ ReplayBuffer │
    queue 64)                  │  fallback             │   (mutex)    │
 WASAPI ──frames──▶ audio worker ──sync, encode──────▶ └──────┬───────┘
                               │ events (64, dropped         │ snapshot
                               ▼  when full)                 ▼
 shell ──commands──▶ Controller ◀─pump── RecorderEngine   SaveWork (8)
                        ▲                                    │
                        └──── SaveResult (8) ◀── save worker ┘──▶ .part ─▶ .mp4
                                                                    │
                          clip library worker (8 requests) ◀──files─┘
                          export worker (1 active, 2 pending) ◀─────┘
```

| Component | State it keeps | Operations | What makes it correct |
|---|---|---|---|
| Replay buffer (`crates/replay-buffer`) | tracks of packets per stream, last decode times, retention, ingestion counter, memory counter | register a stream, start an epoch (with or without its streams), insert with cap and eviction, change retention, snapshot | order within a track, the cap, no hole, a decodable front, no more and no less than the window, audio aligned to video, exact accounting |
| Recorder engine (`crates/recorder-engine`) | lifecycle state, handles of the workers, event queue, shutdown flag, descriptor and epoch of the encoder in the video worker | start, stop, pump, change retention, resume; the video worker's loop, its recovery and its final drain; the audio worker's inserts | no clip of two codecs, failures surface and are not masked, recovery and stop end, priming is noticed whatever event is lost |
| Controller and save worker (`crates/app-controller`) | engine handle, reserved names, save worker with request and result channels | the four commands, each between two polls; the worker's loop, shutdown and drop | every accepted save is answered once, in order and truthfully; names never clash; no command waits for ever |
| Muxer (`crates/muxer`, `crates/mp4-silk`) | the staged `.part` file | normalise, write, validate, rename | a clip in the folder is complete; no part file is left |
| Encoder fallback (`crates/encoder-api`) | active candidate, epoch, metrics | configure, encode with one reinitialisation, fall back, drain | a frame is encoded by one backend, an epoch per configuration, exhaustion reported |
| Media Foundation encoder (`crates/encoder-media-foundation`) | the transform's events, times waiting for their outputs | encode, wait, drain | a packet carries the time of its frame; nobody waits for an event that cannot come |
| Clip export (`crates/clip-export`, `crates/encoder-ffmpeg`) | queue (1 active, 2 pending, 32 past), executor lease, cancellation token, staged output and lock; the planner of a size-limited export | submit, cancel, promote, complete, fail, shut down; plan | one executor, each job ends in one state, cancel is answered, publication never replaces a file; a plan keeps to its target |
| Clip file (`crates/muxer`, `crates/mp4-silk`) | chunks and sample tables | write, read back, trim, extract audio | every sample comes back with its bytes and times; a trimmed clip starts at a keyframe, in step |
| Clip library (`crates/clip-library`) | catalog in memory and on disk, the folder | scan, rename, delete, protect, enforce the quota | catalog and folder agree after every failure; protected clips stay |
| Settings (`shell.rs`, `crates/configuration`) | the settings document, live in four places | apply, roll back, load at start | a change goes over as a whole or not at all |
| Hotkeys (`crates/hotkeys`) | registered bindings, hook, modifier state, last press | replace with rollback, answer presses | the reported bindings are the registered ones; a press is answered once |
| Display capture (`crates/capture-windows`, `crates/media-clock`) | texture ring, registry, frame queue, timeline | callback, next event, convert, stop | the callback never waits; a handle stands for its picture; times never go back |
| Audio (`crates/audio-wasapi`, `crates/audio-sync`, `crates/media-clock`) | device, silence made up, timeline, last output time | capture, process, reset, restart | output times never go back and keep to the clock |
| Overlay (`crates/native-hud`, `hud.rs`) | a thread per overlay with a window, cues, two timers | show, hold, exit, reconfigure, shut down | a pill goes away again; one overlay at a time |
| GPU surfaces, diagnostics, single instance, web UI | platform handles | platform calls | out of scope |

### Where it is hard

- The video worker and the controller thread share the buffer and the shutdown
  flag, and speak through a queue that drops what does not fit. The engine's state
  is what the controller has read of it, later.
- The video worker takes the buffer lock several times per frame. What it knows
  between two sections (epoch, descriptor, whether it reported priming) is a copy.
- An encoder may be replaced at any frame, a capture source at any moment; both
  reset the buffer, and audio keeps coming.
- A save crosses two bounded channels, a thread that blocks on one of them, a poll
  timer, a shutdown that waits for that thread, and a folder which the clip library
  changes on its own.
- Eviction is arithmetic on boundaries: the keyframe that must stay, the audio that
  overlaps, the cap that overrides both, the retention that changes.
- The process may die between the part file and the clip, between a clip and the
  catalog, and between any two parts of a change of settings.
- A capture callback, a transform, a keyboard hook and a window procedure run when the
  system likes, over bounded rings and queues that forget what does not fit.
- A stream's times are made up from clocks that pause, jump and start anew: the
  compositor's, the audio device's, and the silence invented when nothing plays.

`PROJECT.json` lists each hazard at its line with the properties that would catch
it going wrong.

## Modules

| Module | Models | Used by |
|---|---|---|
| `ReplayBuffer` | `crates/replay-buffer/src/buffer.rs`, `normalize_timestamps` | `buffer` |
| `MCReplayBuffer` | two instances of it side by side, one with every call, one with longer recordings | `buffer` |
| `ReplayBufferProofs` | theorems about `ReplayBuffer`: tracks; window, memory and clips | TLAPS |
| `RecorderEngine` | `crates/recorder-engine/src/engine.rs`, `state.rs` | `engine`, `engine_clash` |
| `RecorderEngineProofs` | theorems about `RecorderEngine` | TLAPS |
| `MCRecorderEngine` | `RecorderEngine` without the calls that change the window under a live engine | `engine_ready` |
| `SaveService` | what a caller may rely on: requests answered once and in order | refined by `SavePipeline` |
| `SavePipeline` | `controller.rs`, `jobs.rs`, the staged file of `mp4_muxer.rs`, the library's renames and deletes | `save_*` runs |
| `SavePipelineProofs` | theorems about `SavePipeline`, the refinement of `SaveService` among them | TLAPS |
| `ExportQueue` | `crates/clip-export/src/queue.rs`, as operators over its state | `ExportWorker` |
| `ExportWorker` | `crates/encoder-ffmpeg/src/worker.rs`, with the control of `executor.rs` and `process.rs` | `export_*` runs |
| `ExportService` | what a client may rely on: one line, one executor, a file once and only for the first in line, one end for each job, no file and no completion for a job after its submit has failed | refined by `ExportWorker` |
| `ExportWorkerProofs` | theorems about `ExportQueue` and `ExportWorker`, the refinement of `ExportService` among them | TLAPS |
| `ExportPlan` | `crates/clip-export/src/planner.rs` | `desktop` |
| `ClipFile`, `MCClipFile` | the samples `mp4_muxer.rs` hands to `crates/mp4-silk`, its writer, its reader, `trim.rs` and the extraction of audio in `main.rs` | `desktop`, `clip_silence` |
| `ClipFileProofs` | theorems about `ClipFile`: what is written is read back, and so are copies of it | TLAPS |
| `ClipLibrary` | `crates/clip-library/src/lib.rs` | `ShellSettings` |
| `ShellSettings` | `apply_app_settings` and its way back in `shell.rs`, over the clip library | `desktop` |
| `CaptureSession` | `crates/capture-windows/src/session.rs`, with the timeline of `media-clock` | `desktop`, `capture_*` |
| `EncoderFallback` | `FallbackVideoEncoder` in `crates/encoder-api/src/lib.rs` | `desktop` |
| `VideoTransform` | the asynchronous transform in `crates/encoder-media-foundation/src/lib.rs` | `desktop` |
| `Hotkeys` | `crates/hotkeys/src/lib.rs` | `desktop` |
| `AudioSession`, `AudioSessionProofs` | `run_audio_worker` of the engine with `audio-wasapi` and `audio-sync`; theorems about it | `desktop`; TLAPS |
| `NativeHud` | `crates/native-hud/src/windows.rs` and its owner, `hud.rs` of the shell | `desktop` |
| `MCDesktop` | the ten parts around the recorder, each on its own | `desktop` |
| `DesktopProofs` | theorems about seven of these parts: library and settings, capture, encoder, transform, overlay, hotkeys, planner | TLAPS |
| `MCDesktopProofs` | the types of the parts, and that whatever holds of a part alone holds of it in `MCDesktop` | TLAPS |

### ReplayBuffer

One action per method that changes state: `RegisterStream`, `StartNewEpoch`,
`StartNewEpochPreservingStreams`, `Insert`, `SetRetention`. `Insert` is the whole
method: the order check, the append, the packet cap and the eviction. A packet is
its decode time, presentation offset, duration, keyframe flag, size and ingestion
number; the codec bytes are left out. What an encoder may hand over
(`NewPackets`) follows the output timeline of the Media Foundation encoder, and also
includes a packet that goes back in time, which the buffer must reject. Snapshot and
normalisation are operators, evaluated by the invariants in every state. Three
auxiliary variables do not exist in the code: `log` (what was inserted since the
registration), `capped` (streams the cap has cut) and `replacedBytes` (payload of
tracks that were registered again while they held packets, which the code leaves in
its memory counter).

### RecorderEngine

The controller's side is `Start`, `StartClash`, `PumpBegin`, `PumpEvent`,
`PumpPromote`, `PumpEnd`, `SetRetention`, `Resume`, `StopBegin`, `StopEnd`. The
video worker is a program counter over `run_video_worker`, cut wherever another
thread could notice: each lock of the buffer, each publication, each look at the
flag. A generation stands for one configuration of the encoder; the buffer keeps
the set of generations it holds, the generation of its descriptor's
initialisation bytes, its registered streams and whether it is primed. That
inserting never unprimes a buffer, which this abstraction takes for granted, is
`PrimedStays` of `ReplayBuffer`.

### SavePipeline

Every command is a poll, the command, and a poll; the controller's `pc` names where
it is. `StartCapture` out of `Error` cleans the folder (`StartCleans`), then fails
(`StartFails`) or replaces the save worker (`StartInstalls`) and joins the old one
(`Replaced`); `StopCapture` closes the queue (`StopBegins`), empties the result
channel while it waits (`DrainWhileWaiting`) and reports (`StopReports`). The save
worker takes a request, stages the part file, publishes or fails, and delivers,
waiting for room. Two workers exist at once while one is being dropped. `Kill` ends
the process and keeps the folder. `SaveService` is the same without workers,
channels and files, and `ServiceKept` states that the pipeline implements it, with
`pending` being the results gathered by a shutdown, then those in the channel, then
the request in hand, then the queue.

### ExportQueue and ExportWorker

Each method of the queue holds its lock from end to end, so it is an operator from
queue to queue (`Submitted`, `Cancelled`, `Completed`, `Failed`,
`FinishedCancelled`) and one step of whoever calls it. A worker record has two
halves. `pc` is its owner's: `Claim` and `Spawn` of `with_exporter`, then
`stop_and_join` as `Stop` (the flag), `StopSnapshot` and `Settle` (cancel the jobs of
one snapshot, one at a time), `HangUp`, `Joined`, `OrphanSnapshot` and `Settle`
again, `Release`. `shutdown()` takes the worker by value, so it goes through
`stop_and_join` a second time when it drops it (`SecondPass`). `thread` is the
executor's: look at the flag and sweep (`Top`, `ThreadSweep`), look at the queue
(`Look`), export, publish, record the end, or wait. One export is reduced to where
the cancellation token is read last (`ExportReady`) and what can follow. Clients
submit and cancel between any two steps. A submit through a worker is several of them,
and `calls` says where it is for each job: the job is put on the queue
(`SubmitThrough`), then the thread is woken (`Heard`), or found dead (`Unheard`), and then
the job is taken back, by `cancel` (`TakeBack`) and, if it was active, by
`finish_cancelled` (`FinishTakenBack`). The thread may be alive at the first step and dead at
the second: the job is then pending, active because the thread died working on it, or
over because the thread completed it and died in the next one. The
queue's `Busy` answer is a call that did not happen, or is repeated where the code
repeats it. `file` is what lies at each job's destination; `owed` and `rejected` are
auxiliary.

### ClipLibrary and ShellSettings

The library's one worker answers requests one at a time; a request that touches both a
file and the catalog is split where the process may die or a write may fail:
`ScanBegin` (with `ScanFails`), `ScanSave`, `ScanEnd`; `Delete` or `Evict`, which stage
the file, then `DeleteSaved` or `DeleteSaveFails` and `DeleteUnlink`; `RenameBegin`,
`RenameSaved` or `RenameSaveFails`; `ProtectBegin`, `ProtectSaved`, `ProtectSaveFails`.
`Crash` keeps disk and catalog file, and `LibraryOpen` sweeps what a death left behind
(`Swept`) before it scans. The save worker publishes (`PublishClip`) and others remove
files (`RemovedOutside`) between any two steps. `blame` is auxiliary: it says who took a
clip away.

`ShellSettings` adds the command that moves four parties from one document to the next:
`ApplyBindings`, `UpdateRecorder`, `UpdateDirectory`, `UpdatePolicy`, `Persist`,
`Adopt`, and back through `UndoDirectory`, `UndoPolicy`, `UndoRecorder`,
`UndoBindings` when one of them refuses. The file is replaced at once (staged and
renamed), and the process may die before, between and after.

### CaptureSession

Three threads: the screen's callback (`ContentArrives`, `Resized`, `CopyFrame`,
`InsertStaged`, `PublishFrame`, `SourceCloses`), the session's own part of `next_event`
on the video worker's thread (`NextEvent`, `ReceiveFrame`, `ReceiveOther`), and what
the worker does with an accepted frame (`Resolve`, `Convert`). A texture is a slot of the ring
in a generation of the pool, and `picture` tells which copy lies there. Time is `Calibrated`,
`Rebased` after a jump, clamped (`SourcePts`) and shaped (`TooSoon`). `CaptureFairSpec`
is fair to everybody but the screen, which owes nobody a frame.

### EncoderFallback and VideoTransform

`EncoderFallback` cuts one call into its attempts: `EncodeBegin`, then `Encoded`,
`EncodeFailed`, `Reinitialize`, `FallBack`, `GiveUp`; an encoder may hold frames back
and loses what it holds when it is replaced. An instance is numbered by when it was
activated (`born`), and a packet remembers the one that made it. `VideoTransform` is what one such encoder does
inside: the system's transform asks (`AskForInput`), finishes (`FinishFrame`,
`CompleteDrain`), the encoder collects events and pulls outputs, waits up to a limit, and
drains.

### ClipFile

`Save` is normalisation and `Prepared` (frame durations, starts and sizes), `Write`
hands sample after sample to the writer, which fills chunks and run-length tables
(`WithSample`, `WithChunk`) and finishes them (`WriteEnd`). Reading is the operators
`SampleTime`, `SampleSize`, `SampleOffset`, `ReadSample` over the tables alone, as the
reader does it. `Trim` and `ExtractAudio` read a finished file and write another with
the same writer. A byte knows its sample, so that a wrong offset is seen.

### Hotkeys

The owner asks and waits (`Start`, `Ask`, `Stop`); the hotkey thread replaces
(`Replace`: unregister, register, register back on failure), takes WM_HOTKEY
(`HotkeyMessage`) and hook calls (`KeyDown`, `KeyUp`, `CtrlMoves`) in the order the system
makes them; other programs take and give back chords (`OthersMove`). `tally`, a history,
counts presses not yet answered and answers not owed. `Settle` lets the 50 ms pass after
which another answer counts as a press of its own.

### AudioSession

One audio worker with its device and its synchronizer: `Round` looks at the flag,
`ReadPacket`, `MakeSilence`, `DeviceLost` or `CaptureFails` is what `next_event` came
back with, `Process` or `Discontinuity` what the synchronizer made of it, `Restart` one
attempt with its pause. Times are milliseconds; `chunks` is a history of what was
encoded.

### NativeHud

A record per overlay thread, with where it is, its window, its queue, its timers and
whether the dropping owner has told it to stop or joins it (`leaving`). `Reconfigure`,
`Rebuild`, `TakeAnswer` or `NoAnswer` (the five seconds), `Swap`, `StopOld`, `JoinOld`
are the runtime of the shell; `TryShow` and `PostWake` are an event that wants a
cue shown; the rest is the thread: `CreateWindow`, `LookCancelled`, `Answer`, `Receive`,
`DrainCommands`, `HoldExpires`, `ExitExpires`, `PumpFails`, `TearDown`. The compositor
may refuse any commit (`CommitFails`).

### ExportPlan

`MakePlan` is `TargetBytePlanner::plan` from its checks over the ladder and the
roundings to the plan or its refusal. `Narrow` and `Wide` stand for the largest `u64` and
`u128`: intermediate results beyond `Wide` and results beyond `Narrow` are refused.

### MCDesktop

The ten parts share nothing while one of them moves, so one run takes them side by side:
the variable `part` says which one moves, all others keep their initial state. The shell
is taken twice, with changes of settings over few clips, and under one document over
all of them.

## Runs

| Run | Bounds | What it shows |
|---|---|---|
| `buffer` | 2 streams, cap 3, retentions 0 to 2 (0 is rejected); 5 inserts within one epoch, or 3 among all calls with 1 epoch change | `TracksSound`: order, numbers and cap of every track; `NoHoles`; `MemoryAccounted`; `EvictionExact`: a decodable window, its audio, and nothing older; `ClipSound`: a clip rebases to zero and, once primed, covers the window; `SequencesNeverRestart`; `PrimedStays` |
| `engine` | event queue of 2, 2 faults, 2 attempts per recovery | `ClipDecodable`: no clip of two codecs; `AudioStreamRegistered`; `FailureNotMasked`; `StopTerminates`; `PrimingNoticed`; `TroubleSettles`: a recovery ends and a failure surfaces unless the queue dropped an event |
| `engine_ready` | no retention change, no resume | finding, see below |
| `engine_clash` | an audio input reuses a stream id | finding, see below |
| `save_pipeline` | channels of 1, 3 requests, 2 names, 1 rename, 1 kill | the service is kept (`ServiceKept`, a refinement), names are exclusive, verdicts truthful, part files accounted for, no clip of another save overwritten, every request answered and every command returns (`NobodyWaitsForever`) |
| `save_silent` | channels of 1, 2 requests | finding, see below |
| `export_leases` | 3 jobs, 1 pending, 2 workers in a row, 1 panic; nobody starts a worker while a `shutdown()` is returning | one executor at a time, records that agree with the file, a stop that answers every job it found, submits that fail only when nobody serves, and whose jobs are not published or completed after that, all of it as `ExportService` says (`ExportsServed`, a refinement), cancellations that are carried out and a stop that returns (`StopsTakeEffect`) |
| `export_twice` | 1 job, 3 workers, starts at any time | finding, see below |
| `desktop` | ten parts, see the next table | every part's properties |
| `clip_silence` | 3 frames, 2 audio packets | finding, see below |
| `capture_seamless` | 4 pictures, ring of 2, 1 resize | finding, see below |
| `capture_stop` | 2 pictures | finding, see below |

The parts of `desktop`:

| Part | Bounds | What is shown |
|---|---|---|
| settings, library | 2 folders, 2 clips, 3 names (one that the start-up sweep takes for a left-over), quotas none, 0 and 1, 2 faults (a failed write or a death); 2 documents | `NothingLost`: a clip goes only when somebody asked; `QuotaSound`: the quota takes the oldest and only what it must, never what the user was told is protected; `SettingsAllOrNothing`: hotkeys, recorder, library and file follow one document |
| capture | ring of 2, 3 events, 3 pictures, 1 resize, gaps below and above the largest jump, with and without shaping | `PicturesTrue`: a resolved handle shows its picture or is refused; `PtsNeverBack` |
| encoder | 3 candidates (2 hardware), 2 frames, 2 configurations, 4 failures | `ReplacementsSound`: one epoch, one instance, and each frame is returned, held, lost with its instance or refused, and counted once |
| transform | 4 frames, 2 wanted at once, 2 outputs waiting, frames of the same and of later times | `TransformSound`: a packet has the time of its frame, a drain brings out everything, nobody waits for a transform that waits for him |
| clip | 3 frames, 2 audio packets with and without a pause, 3 cuts | `ClipFileSound`: a clip, trimmed or not, is read back sample by sample as it was written, and a trimmed one starts at a keyframe in step |
| hotkeys | a chord and its bare key, 2 actions, 1 replacement, 2 presses, 1 mishap, queue of 1 | `HotkeysSound`: the registered chords are those in force that nobody else held; a press is answered once |
| audio | packets of 30 ms, silence of 50, 4 packets, 2 losses, 2 restarts, a jump | `AudioInStep`: the times of a stream never go back and keep to the clock, but for what made-up silence was too long |
| hud | 2 overlays, 2 cues, queue of 1, both idle policies that differ | `HudSound`: a pill on the screen has the timer that takes it away; an accepted cue is drawn; one overlay runs |
| plan | 4-bit and 8-bit integers, 3 rungs, 3888 requests | `PlanFits`: a plan keeps to its target and wastes no more than its roundings; a request is refused only when nothing fits |

Why the bounds are enough. The buffer compares decode times with one boundary and
at most two neighbouring packets, so a cap of three and a handful of times reach
every comparison in both directions; a second stream is needed for alignment, a third
adds nothing the alignment, which treats streams independently, could tell
apart. A recovery restarts capture up to three times in the code and twice in the
runs (`RestartLimit`: a first attempt and a last one); one fault starts it and the
second hits the recovery of the first. A queue of two overflows
with the two events a recovery publishes. One entry per channel and three requests
fill the queue, the worker's hand and the result channel of the save pipeline at
once, which is the state in which somebody could wait for ever; two names are what
two requests need to clash. Three jobs over one pending slot fill the export queue and
promote twice, and a second worker sees what the first left. One panic is enough for a thread
to complete the job of a submit under way and die in the next job before the wake.

In the library two clips are what a rename needs to meet another file and a quota to
have a choice, and two faults let a roll-back fail as well. A ring of two comes round
with the third picture. Three candidates have one to start with, one to pass over and one to end
at; the second frame is the one that meets an encoder that holds the first. Two outputs
fill the transform's shelf and the third frame waits. Three frames with one shown later
than decoded make runs of one and of two in every table, and two keyframes give a cut a
choice. Two presses and one replacement let a press fall before, into and after it. A
fourth audio packet comes after the second stamp of a timeline taken up anew, which is when a jump is first
refused again. Narrow integers make every overflow of the planner happen.

Every property of a passing run was seen to fail on a mutated definition (`mutants` in
`PROJECT.json`): a dropped guard, an off-by-one, a missing reset.

## Fairness

Only liveness properties use it. In `RecorderEngine` the video worker takes steps,
which assumes of the capture source that `next_event` returns: the display session
does while the screen changes, and `capture_stop` shows that it does not while the
screen is still. An audio worker told to stop ends (its waits are 50 ms), the shell
polls every 25 ms, and `stop`, once begun, goes on. No fairness is given to faults, to capture events of one kind, or to the
user. In `SavePipeline` the shell polls (`Begin("tail")`), a command that began
proceeds, and a save worker with something to do does it. That a disk write or a join
of a healthy thread returns is the assumption behind the last one; a write that never
returns would hang `StopCapture` in the code, too. In `ExportWorker` a stop that
began and a thread outside the encoder go on, and so does a submit that is
under way. The encoder itself has no time limit in the code and gets no fairness: only a
cancellation, which kills the child process, is sure to end it. `CaptureFairSpec` is fair
to the callback once it began, to the session and to the video worker, and not to the
screen. The other parts of `desktop` state safety only.

## Disagreements with the documentation

- `engine_ready`: when the encoder falls back, `sync_encoder_epoch` empties the
  buffer. Nothing takes the engine from `Ready` to `Buffering`, so it says `Ready`
  with an empty window. `state.rs` documents `Buffering` as the state in which the
  history has not accumulated yet.
- `engine_clash`: `start` returns early when an audio input's stream id is already
  registered; the components were moved out, the state is `Starting`, and the comment
  "a rejected start remains retryable" does not hold.
- `save_silent`: `StartCapture` in `Error` (in which saves are allowed) replaces the
  save worker. Its queue and unread results go with it, their names stay reserved, and
  the accepted saves get neither `ClipSaved` nor `SaveFailed`; the clean-up of part
  files that precedes it may also have removed the file being written. MUX-011 demands
  that save failures are reported.
- `export_twice`: `shutdown(mut self)` stops the worker and drops it, and `Drop` stops
  it again. A worker that claimed the queue in between loses its lease to the second
  pass (which also fails or cancels its active job), and a third can then run beside
  it. `queue.rs` speaks of "the single executor lease". `export_leases` excludes just
  that moment, with `Overlap = FALSE`, to show that everything else is in order.
- `clip_silence`: `sorted_mp4_packets` works out a start time that keeps a pause in
  voice chat, and the MP4 writer never reads it: only durations are written, so audio
  after a pause is heard early by its length.
- `capture_seamless`: after a pause longer than the largest jump the timeline is
  recalibrated "so capture continues seamlessly"; the clamp and the shaping still go by
  the stamps of the old one, and frames are dropped for as long as the session had lasted.
- `capture_stop`: `docs/threading.md` says the wait of `next_event` is capped at 50 ms so
  that a stop is observed; on a timeout it waits again, and the flag it looks at is set by
  the thread that is waiting.

Noted without a run, because no document is contradicted in so many words, or because
what it takes lies outside the bounds:

- Exports. A job submitted on the shared queue between the thread's look at the
  shutdown flag and at the queue is exported to its end while the owner waits in
  `join`; one submitted during the orphan
  pass may stay active with a cancellation request until a worker is started again.
- Engine. `docs/architecture/threading.md` gives a per-stream cap of 20 000,
  the code has 60 000. A `RecoveryCompleted` that meets a full event queue is
  lost, which leaves the state `Recovering` until the next recovery or stop: the
  exception in `TroubleSettles`.
- Library. A roll-back of settings re-opens the old folder without the flags of clips
  that were protected meanwhile (`shell.rs:1179`); a clip renamed to a name the sweep
  takes for a left-over is removed at the next start; a death in the middle of a rename
  loses the protection of that clip. `NothingLost` and `QuotaSound` name these causes.
  With no library, settings can never be applied.
- Capture. A texture may be overwritten while the converter reads it, once the ring has
  come round under a lease; `FormatChanged` and `SourceClosed` are lost when the 64
  entries are full. `PicturesTrue` allows for just the first.
- Encoder. `encoder-api/src/lib.rs:584` says a failed backend is discarded before the next
  one is configured; the failed one stays alive until the next is active. The counter
  of dropped frames falls when an encoder is replaced. The transform is assumed to give outputs in
  the order of its inputs and one for each: nothing in the code asks it for no B-frames, and
  an output without data returns before its time is taken from the queue, which would shift the
  times of all later packets.
- Clip file. A trimmed copy of reordered frames may start after the time asked for;
  trimming writes straight to its destination; extracted audio is cached by path and
  track, so a stale or half-written file may be returned.
- Failed submits. `submit` of the export worker may answer `WorkerStopped` for a job whose file is
  published: the thread completed it before the wake, and died in the next job. The record
  is right (`OutcomeTruthful`), the answer says only that nobody serves any more, and no document
  promises more.
- Audio. After a device loss or a refused jump the stream goes on contiguously, early by
  the length of the outage; the second stamp of a new timeline is taken
  whatever it is; each stream starts at its own zero, so an offset between the first
  picture and the first sound is not kept. One packet is read per event, so a backlog is not
  caught up: `AudioSession` assumes a prompt worker. Raw performance-counter ticks are
  taken for 100 ns units in one place of `native.rs`, which agree when the counter
  runs at 10 MHz.
- Hotkeys. `Replace` answers `Ok` whatever the system refused, while its documentation
  says that the previous set stays active. The hook's CTRL goes stale when a key-up is
  missed; `PressesAnswered` excludes such a press. A report that finds the event queue
  full is lost.
- Overlay. A thread whose owner gave up after five seconds, and which had already looked
  at its cancellation flag, stays without an owner. The specification's check of
  generations (`native-hud-visual-spec`, 10.1) is not in the code, which kills timers
  instead; `HudSound` shows that this suffices. `PostMessageW` to a live window may fail
  when the system's message quota is used up (`windows.rs:812`); the caller is told and the overlay
  counts as unhealthy. `NativeHud` leaves this out.

## Proofs

The theorems of eight modules hold for every value of the constants that meets the named assumptions of
the module they are about.

| Theorem | States |
|---|---|
| `TypeCorrect` (`ReplayBufferProofs`) | `Spec => []TypeOK` |
| `AlwaysSound` | `Spec => []TracksSound`, from `AlwaysOrdered` and `AlwaysBounded` |
| `NeverHoles` | `Spec => []NoHoles` |
| `NumbersNeverRestart` | `Spec => SequencesNeverRestart` |
| `SaveTypeCorrect` (`SavePipelineProofs`) | `Spec => []TypeOK` |
| `NamesAlwaysExclusive` | `Spec => []NamesExclusive` |
| `VerdictsAlwaysTruthful` | `Spec => []VerdictsTruthful` |
| `PartsAlwaysAccounted` | `Spec => []PartsAccounted` |
| `ClipsNeverOverwritten` | `Spec => OnlyMovedReplaced` |
| `PipelineServes` | `Spec => ServiceKept`, the refinement of `SaveService` |
| `AudioTypeCorrect` (`AudioSessionProofs`) | `AudioSpec => []AudioTypeOK` |
| `AudioAlwaysInStep` | `AudioSpec => []AudioInStep` |
| `MemoryAlwaysAccounted` (`ReplayBufferProofs`) | `Spec => []MemoryAccounted` |
| `EvictionAlwaysExact` | `Spec => []EvictionExact` |
| `ClipAlwaysSound` | `Spec => []ClipSound` |
| `PrimedStaysPrimed` | `Spec => PrimedStays` |
| `EngineInvariant` (`RecorderEngineProofs`) | `Spec => []IInv` |
| `EngineTypeCorrect` | `Spec => []TypeOK` |
| `AudioAlwaysRegistered` | `Spec => []AudioStreamRegistered` |
| `ClipAlwaysDecodable` | `Spec => []ClipDecodable` |
| `FailureNeverMasked` | `Spec => FailureNotMasked` |
| `WorkerTypeCorrect` (`ExportWorkerProofs`) | `Spec => []TypeOK` |
| `OneExecutorEver` | `Spec => []OneExecutor`, if `Overlap = FALSE` |
| `OutcomesAlwaysTruthful` | `Spec => []OutcomeTruthful`, if `Overlap = FALSE` |
| `ShutdownAlwaysAnswers` | `Spec => []ShutdownAnswersAll` |
| `ExportsAlwaysServed` | `Spec => ExportsServed`, the refinement of `ExportService` |
| `ClipFileTypeCorrect` (`ClipFileProofs`) | `ClipFileSpec => []ClipFileTypeOK` |
| `ClipFileAlwaysSound` | `ClipFileSpec => []ClipFileSound` |
| `NothingIsEverLost` (`DesktopProofs`) | `ShellSpec => []NothingLost` |
| `QuotaAlwaysSound` | `ShellSpec => []QuotaSound` |
| `SettingsAlwaysAllOrNothing` | `ShellSpec => []SettingsAllOrNothing` |
| `PicturesAlwaysTrue` | `CaptureSpec => []PicturesTrue` |
| `PtsNeverGoesBack` | `CaptureSpec => PtsNeverBack` |
| `ReplacementsAlwaysSound` | `FallbackSpec => []ReplacementsSound` |
| `TransformAlwaysSound` | `TransformSpec => []TransformSound` |
| `HudAlwaysSound` | `HudSpec => []HudSound` |
| `HotkeysAlwaysSound` | `HotkeysSpec => []HotkeysSound` |
| `PlanTypeCorrect` | `PlanSpec => []PlanTypeOK` |
| `PlanAlwaysFits` | `PlanSpec => []PlanFits` |
| `ShellTypeCorrect`, `CaptureTypeCorrect`, `FallbackTypeCorrect`, `TransformTypeCorrect`, `HotkeysTypeCorrect`, `HudTypeCorrect` (`MCDesktopProofs`) | each part's `Spec => []TypeOK` |
| `EachPartRuns` | `DesktopSpec` implies the specification of each part |
| `DesktopTypes` | `DesktopSpec => []DesktopTypeOK` |
| `DesktopAlwaysSound` | `DesktopSpec` implies what each part promises |

**The buffer.** Call `b` a tail of `a` when some packets have left `a` at its front
(`IsTail`). `TailProperties` says what that means index by index, `TailReflexive` and
`TailTransitive` that it is a preorder, `TailOfAppend` that it survives an append on
both sides. Eviction leaves a tail of every track (`EvictedTails`), *whatever* index
the keyframe rule picks, and so does the cap (`TrimmedTail`), which moreover leaves at
most `Cap` packets; `InsertTails` combines them for a whole `Insert`. Order survives
tails (`TailOrdered`) and the append of a packet not earlier than the last accepted
one (`AppendOrdered`), which gives `AlwaysOrdered`; the reference time outlives its
packet, so the invariant bounds every retained packet by it rather than equating it
with the last. The cap needs only that no other action makes a track longer. For
`NeverHoles` the retained track is a tail of the log, and tails compose. For
`NumbersNeverRestart` a packet present after a step either was there before or has a
number at least the old counter. The three invariants are
inductive relative to `TypeOK`, so no further strengthening was needed.

**Saving.** `Line` is every request on its way, oldest first: what a dropped worker still
has (`Ahead`), then the controller's `Pending`. The invariant `IInv` says where requests
can be and under which names. `Named`: a request occurs once in `Line`, its name is
reserved and no other request's, and the controller said "accepted" of those of
`Pending`, "abandoned" of those of `Ahead`. `Quiet`: a second worker exists only while it
is dropped, results are gathered only while a shutdown waits, and a thread that ended has
neither a request in hand nor a queue; so ending a shutdown reports all that is pending.
`Filed`: under the name of a request lies nothing, its own clip, or one the library
renamed. `Told`: phases and results agree with what was published. `Fresh`: a part file
being written is none of those a killed process left. `Asked`: the requests asked so far
are the first ones, so that there is a next one. The lemmas `FlowTaken`, `FlowDelivered`,
`FlowAsked` and `FlowRead` say how a worker's part of the line changes when it takes,
delivers, is asked and is read; from them, a step either keeps the line, appends to it, or
takes a front of it away (`Reports`), which is both why `Named` is inductive and why the
steps are those of `SaveService` (`Answers`, `Abandons`, `ServiceStep`). There is one
lemma for each action. The assumptions say that the bounds are natural numbers and that a
channel has room for one.

**The audio timeline.** `AudioInStep` speaks of what was encoded and is not inductive: it
needs to know where clock and device are when the next frame comes. `Remembered` ties
the synchronizer to the newest chunk (its last time, its end, its origin while the
stream was never taken up anew). `Clocked` says that between frames the newest chunk was
a packet that ends now or silence stamped now, and that without a timeline the next stamp
is early by at most the `Excess`, which is how much longer silence is than the first
pause of a restart. `Framed` carries this to the frame on its way to the synchronizer,
and adds what makes a refused jump harmless: a frame that jumps came after the newest
chunk was over. There is one lemma for each action. `JumpAssumption` is used just there: the
largest jump, a minute, is longer than a wait and than what a packet can have gathered
before it ended.

**The planner.** The invariant `Decided` says of a request either that nothing was decided, or
that the plan is `Planned` and `Feasible`, or that it is not feasible. `CeilBounds` and
`FloorBounds` bound the two divisions, `BudgetBounds` and `UsesBounds` what is left for
the picture and what a bitrate uses, `RungSelected` the rung taken from the ladder. From
these, the bitrate chosen fits and the next one up would not leave the bytes of rounding.
`PlanAssumption` has `Narrow * Narrow <= Wide`, which is true of `u64` and `u128`.

**The window of the buffer.** `Windowed` says that the first keyframe kept is the youngest
one old enough, `Spared` that no other stream lost audio that overlaps the window,
`Presented` that decode times and offsets are those of an encoder, `Charged` that the
memory counter is the payload of all packets and of replaced tracks, `DecodablePrefix`
that a clip starts at a keyframe. The rule that picks the keyframe speaks of a greatest
position and a boundary; `LeastInteger` and `GreatestOf` give that it exists,
`StaleExactly` and `PrefixPositions` that what is dropped is exactly a front, and
`EvictedCases`, `AlignedVideo`, `AlignedOther` what is left of each stream. The counter is a
sum over a set of slots, and the proofs go by `PayloadAppend` and `PayloadEmptied`: a
packet more, or a track emptied, changes the sum by just that. `FirstInClip` finds the
first packet of a clip, from which normalisation makes zero. `PrimedStaysPrimed` needs that
an insert ends no earlier than what it evicts reached (`EvictedSpanning`, `AppendedSpanning`).

**The engine.** None of its properties is inductive. `Untouched`: components nobody has taken
belong to an engine that did nothing, so `start` runs at most once and no start leaves
`Error`. `Counted`: at most two generations per fault. `Causes`: the worker recovers exactly while
it has a cause. `Handed`: packets between encode and insert are of the active
generation, and the descriptor is refreshed before the insert. `Trial`: while a mode is
on trial nothing is buffered. `Epoch` says at each place of the worker which generation the
retained packets are of and whether the descriptor is theirs; its last line gives
`ClipDecodable` at the places where a save may look.

**The export worker.** `TInv` is the type invariant with the sequences it speaks of.
`Alone`: there is one worker at a time, which holds the lease until it has let go of its
thread. Just this needs `Overlap = FALSE`; without it, `OneExecutor` is false, as `export_twice`
shows, and with it `OutcomeTruthful`, since two executors may publish and fail one job. `Kept`: a
thread works on the active job and nobody takes it away; from a dead one a submit may. `Calling`: while a
submit through a worker is under way the worker is not stopped, and a job is taken back only after
the thread has died, so the lease stays with a worker that has no thread. `Refused` says why a job whose submit
failed after all comes into no other hands: it is over, or its worker is dead and has not let go of the lease, and,
once it is being stopped, owes the job an end. `Files` says what lies at the destinations. `Fresh` (workers are numbered in the order they are claimed) and `Owing`
(how far a stop has come with what it owes: not seen yet, on its list, asked to stop and therefore
active, or first of its last round) hold with overlap as well. `RemoveFirstOf` and
`SubmittedSound` to `CancelledSound` say what each method of the queue does to it.
For the refinement, `ExportService` sees the outcomes, the requests, the files and how many threads are
alive. Every step is one of its steps or none: what the sweeps and clients do to a job becomes `Ask` or `Leave`
by whether it is first in line. `Unheard` becomes `Refuse`, whatever has become of the job, and needs that nobody
serves; `Place` and a completion need that the job was not refused. A file is placed only where none is, and taken away or left only of a job that was asked
to stop: that is `Leftovers`, which says that a thread about to withdraw a file works for such a job, and that a file which
could not be removed belongs to a job that is over or whose thread is about to say so.

**The clip file.** `ClipInv` says for each stage of a file that what is written and what is left (`Progress`)
make up what the file is to hold (`Made`), and that a finished clip holds the samples prepared from the snapshot.
`TableHolds` is what the tables of one track know of the first `n` samples while the last
few of them are not in a chunk yet: runs of equal durations and of equal offsets (`RunsHold`, `OffsetsHold`),
keyframes, sizes that are one number until two differ, chunks with their runs, and bytes
waiting. `SampleKept` and `TableChunkedHolds` carry it over a sample and over the end of a chunk, `LiesLonger` over
what other tracks append to the file. `Reads` is the reader's side: of a table that holds all samples,
each of its searches ends at the right entry. For a copy, `VideoCutIs` and `AudioCutIs` show that what a cut
takes is a stretch of samples, and `CopyReads` that a stretch, read and written anew, holds the same samples,
moved by one amount. Sums over a table are recursive functions, and the
library's theorems about recursion and induction cannot be cited; so a sum is tied to the function of its partial sums
(`AddsUp`, `SumsOf`), and induction is done with the least number at which a claim fails
(`LeastOf`, `Upwards`, `Recursion`). `ClipFileAssumption` says that rates and lengths are positive and that no frame is
empty or shown before it is decoded.

**Library and settings.** `Placed` says where each clip is; `InHand` what a request split in two
still relies on after others have moved, `Trims` what the enforcement of a quota has freed so
far. `Flags` is what `QuotaSound` needs: a clip told to be protected is so in the rows of the
worker, in the catalog a new process would read, and in the hands of a delete that may put it
back. The attempt to prove it found that the model of `ClipLibrary::open` was
incomplete: opening another folder drops the rows of the old one with their
flags (lib.rs:151), which `unsure` did not record, and with four faults TLC
found the violation that the bounds of `desktop` do not reach. `LibraryOpen` now names the cause.
`Halfway` ties the four parties to how far a change is (`Forward`) or how far back. Assumed of
the constants: folders and names are finite sets, which the counts of files need.

**Capture.** A handle is the number of its copy, and `RoundApart` says that two copies in one
texture are a round of the ring apart; so, the registry being the last copies in a row (`Rung`), a
handle that is still in it has its picture. `Converted` says how long this lasts for the worker that
is converting. `PtsNeverBack` was false as first stated, of the first frame and an
interval of two or more, which no run had: it speaks now of frames after another.

**Encoder and transform.** `Apart` keeps the frames returned, held, and lost with an instance in three
disjoint finite sets whose number is what was counted as encoded; `Calling` bounds the offers of a call by how
far it is in the ranking, `Announced` has each epoch told or about to be. In
the transform, frames stand in line (`Lined`: returned, ready, inside, in the order accepted) and their times in
another (`Dated`), which is one longer while a frame goes in. `Signalled` counts
events: each ready output is announced or pending (`HowMany`, `OneMore`, `OneLess`), so a wait
always has something to wait for.

**Overlay.** `Tidy` lists the three states of pill, timers, window and tree between two steps;
`Unknown` says that nobody knows a thread before it has answered, so nothing can be lost in it; `Cued` that
the cue accepted last is drawn or last in the queue, and that an owner who joins has left a message to close.
`Swapping` follows a change: each thread is in use, under construction, or settled (`SettledHud`). A
step of one thread keeps all of it by `OneMoves`.

**Hotkeys.** `Registration` and `ReplacedExactly` (the new set is distinct, so what is kept never
blocks what is added) give `HotkeysFollow`; `Waits`, that a command has one message while its owner
waits, gives that the owner who has its answer has its set. `Answered` is why a press is
answered once: while the hook knows the modifiers, the message of a press finds it among the `recent`, for
which `Settle` waits.

**The desktop process.** A part's own invariant speaks of what its promise needs, and leaves out what a type
also says: that queues end where they must, that numbers stay below their bounds, that choices
come from the sets they were made from. `MCDesktopProofs` adds one shape for each part, inductive relative to its
invariant. The bounds need an argument where no guard states them: a step has a fault only if there was room for one
(`FaultOrNone`), an encoder's mode stands in the ranking it was activated from (`InRanking`), the time
of a packet never falls below the last one's, whatever the queue of times holds (`OutputTimed`), an overlay thread leaves no more behind than it found (`Fewer`, `OneFits`). By
`EachMoves` a step of `MCDesktop` is a step of one part and a stutter of all others; so every
behaviour of the composition is one of each part (`EachPartRuns`), and what is proved of the parts holds of the composition
(`DesktopTypes`, `DesktopAlwaysSound`). This says that nothing the composition does takes a promise away; the parts
exchange nothing in it.

Every invariant and every safety property that a passing run checks is stated by a theorem. Only model-checked are
the liveness properties (`StopTerminates`, `PrimingNoticed`, `TroubleSettles`, `NobodyWaitsForever`,
`StopsTakeEffect`) and `ENABLED`, which this prover does not do, and the counterexamples of the runs that expect a
violation.

## Plan

Done: `ReplayBuffer`, `RecorderEngine`, `SaveService`, `SavePipeline`, `ExportService`, `ExportQueue`,
`ExportWorker`, and the ten parts of `MCDesktop`. In order of what a user would miss most,
what is left:

1. An abstract specification of what the library's catalog promises, which `ClipLibrary` implements.
2. The composition of `EncoderFallback` with the video worker of `RecorderEngine`, which today assumes
   what the first shows (an epoch per instance, exhaustion as an error), and of
   `AudioSession` with its audio worker.
3. The recorder's metrics; the migrations of
   `configuration`.

## Not modelled

The map covers about a seventh of the implementation. What it leaves out is data without
control, or the platform:

- codec and container bytes: the parsers of H.264, AAC and HEVC headers and the validation of
  their contents in `muxer`, and the box readers and writers of `mp4-silk` (a fork of a
  library, over a fifth of the Rust code);
- Media Foundation, Direct3D, DirectComposition and WASAPI calls below the control
  modelled in `VideoTransform`, `NativeHud` and `AudioSession`: attributes, formats,
  enumeration of adapters and devices, layout and animation curves;
- sample arithmetic: resampling, gain, mixing, peak meters;
- the web UI, the tray, the commands of the shell that read and show;
- the ffmpeg command line and the hash check of its binaries;
- metrics, logging and notifications, which nothing depends on; progress of an export and the bound of its
  history, which are display; one named mutex for the single instance;
- poisoned mutexes, which end the process's usefulness but not its safety;
- tests, mocks and benchmarks.
