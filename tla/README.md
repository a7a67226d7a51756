# A formal model of OmaYap

OmaYap reads selected text aloud on the Omarchy desktop: a Quickshell service
(`Service.qml`) captures the selection, and a Python worker (`worker/worker.py`)
synthesizes and plays it. This directory holds TLA+ models of the parts of it whose
correctness depends on the order in which things happen, the TLC configurations that
check them on small instances, and proofs, checked by TLAPS, of the theorems that hold
for instances of every size.

`PROJECT.json` has the details in tabular form: for every definition the lines it
models, for every property the mutation of the code that breaks it, the findings, and
the hazards each property is for.

Contents: [the system](#the-system), [the modules](#the-modules),
[runs](#the-runs), [findings](#findings), [proofs](#the-proofs),
[what is not modelled](#what-is-not-modelled), [plan](#plan).

## The system

```
 user, IPC ──► Service.qml ───────────────── stdin / stdout, JSON lines ─► worker.py ──► pw-play
 BarWidget     │  capture   settings  voices                               │ main thread
               │     │          │        │                                 │ agent thread ◄── socket ◄── bin/yap
               ▼     ▼          ▼        ▼                                 │ a _speak thread per read
     wl-paste, wl-copy,   settings_store  manage-voices                    ▼
     wtype, hyprctl       (file)          (files)                          Piper / OpenVINO
     under bounded_capture
```

| Component | State | Operations | Interacts with | What is hard |
|---|---|---|---|---|
| Speech worker (`worker/worker.py`) | status, generation, text, request and source of the read, sink, thread, voice, `_shutdown`; three locks | speak, stop, set-speed, status, shutdown; announcements; one `_speak` thread per read | service over two pipes, agents over a socket, pw-play | canceled threads that unwind while the next read runs; work outside the lock; events written after the state moved on |
| Worker lifecycle (`Service.qml`) | status, `stopPending`, `expectedWorkerExit`, `workerReplacementPending`, the command queue, two timers | read, stop, setSpeed, setBackend, prepareExternal, eviction, replacement, the process's signals | worker, capture, OCR, voice manager | events and commands cross in the pipes; started, exited, timers and user calls in any order |
| Selection capture (`Service.qml`) | stage, serial, collector fields per helper, saved clipboard | readSelection, stop, a handler per helper, polls, restore | nine helper processes, the clipboard, the focused window | signals of terminated processes, in either order, after their successors were asked for; the clipboard is lent |
| OCR capture (`Service.qml`, `bin/capture-ocr`) | busy, cancel pending, output, exit | readOcr, its two signals | one process, the worker | cancellation before either signal |
| Voice manager client (`Service.qml`) | operation, busy, cancel pending, pending selection | list, install then select, cancel | `bin/manage-voices`, worker replacement | the files change although the operation was canceled |
| Voice files (`bin/manage-voices`) | three files per voice, `selected-voice` | list, install, select | network, service | crash between files |
| Settings (`Service.qml`, `share/settings_store.py`) | properties, one pending payload, the file | read at startup, write queue, staged replacement | worker events overwrite the speed | startup read against a fresh setting |
| Announcement server and client (`worker/agent_socket.py`, `bin/yap`) | listener, socket path and its identity | start, serve, close; connect with retries, one send | an old and a new worker share a path | probe, unlink, bind, listen are separate steps |
| Bounded runner (`share/bounded_capture.py`) | output, deadline, process group | run | every helper | cap, deadline, end of file and descendants |
| Capture policy (`share/capture.py`) | none | the sequence of one capture | tests | it is what the service is to implement |
| Accelerated inference (`worker/accelerated_voice.py`) | compiled models | tiles, device checks | OpenVINO | boundaries of the last tile |
| Text preparation (`worker/worker.py`) | none | cleanup, chunks | `_speak` | boundaries |
| Setup, uninstall (`bin/`) | bindings file, backup, stamp | edit, validate, roll back | Hyprland | failure between edit and validation |
| Bar widget, benchmarks, metadata | none that matters here | | | |

What makes each of the modelled components correct:

* **Worker.** One read is heard at a time, the last one accepted; after a stop it is
  not heard and not reported again; announcements wait; no text, sound or thread
  outlives its read; the status always comes back to rest.
* **Lifecycle.** A queued read reaches a worker; nothing is written behind a shutdown;
  the control never waits for what will not come; service and worker agree on the
  speed; an unused worker is evicted and a changed one replaced.
* **Capture.** The clipboard is given back whatever happens; a canceled read neither
  speaks nor notifies; a restore and a capture never overlap; every capture ends; the
  steps are those of the capture policy.
* **OCR and the bounded runner.** What is read is a whole output, of a capture that came
  to a good end and that nobody stopped; an exit code says what happened; a producer that
  was cut off leaves nobody of its group; every runner and every capture ends.
* **Voices.** A file gets its name whole or not at all; a name is kept only of a voice
  that is all there; stages are removed; the service and the disk agree once a list was
  seen; every operation ends; a read that was kept is released.
* **Settings.** Nobody ever finds half a file; the last change wins and is not taken back
  by a loss of power; the queue drains.
* **Announcements.** A worker that serves is the one that clients reach; a start fails
  only for another living worker; a worker that ends leaves no path of its own; what the
  client reports is so; no announcement is claimed twice; every client ends.
* **Synthesis.** Every character is spoken once, every frame is heard once and with its
  context, no sentence in part; no accelerator falls back to the CPU.

## The modules

### Worker, Playback

`Worker` models one worker process. A critical section of `Worker._lock` is one action;
what the code does outside the lock (killing a player, writing an event, loading, a
step of inference, feeding the pipe) is an action of its own. `_command_lock` and
`_synthesis_lock` are held across actions and are variables.

| Model | Code |
|---|---|
| `at`, `op`, `asked`, `ticket`, `victim`, `pending` | the program counters and locals of the stdin thread ("main") and of the socket's thread ("agent"): `handle`, `_handle_locked`, `_read_selection_locked`, `_stop_locked`, `shutdown`, `run`, `handle_agent_request`, `_emit` |
| `stage`, `left`, `heard`, `outcome` | the same of each `_speak` thread, named by its generation |
| `player[g]` | the `AudioSink` of the thread and its pw-play: none, open (no process yet), playing, stopped, ended |
| `shown`, `owner`, `accepted`, `settled` | history for the properties: the last event on stdout, whose read a generation is, the read accepted last, the generation up to which stdout has said that reads are over |

`Playback` is what `docs/backend-protocol.md` promises of the sound alone: accept in
silence, sound, cancel, cut, end. `Worker!ImplementsPlayback` maps the worker to it:
the read is the one accepted last; it is open while its text is held, closing while the
step that kills its sink is outstanding.

Abstracted: text is a number of audio pieces; speed, cleanup profile and character
counts are not modelled, so a `set-speed` is an event like `status`. CPU, GPU and NPU
are one loader that may succeed, find no model, or fail.

### WorkerLifecycle

The service's event loop against one worker process. Each IPC function, process signal
and timer is one atomic action, as it is in QML; between them the worker consumes
commands and emits events through two pipes, announcements are accepted, and the
process may die. `workerProc.running` is taken to hold from its assignment to the
exited signal, with the started signal in between: that is how `workerCommand` and
`onStarted` use it.

| Model | Code |
|---|---|
| `status`, `stopPending`, `speed`, `expectedWorkerExit`, `workerOutputSuppressed` | the properties of the same names |
| `workerReplacementPending` | the property; `backendSwitchPending` is never set without it |
| `pending`, `idleTimer`, `killTimer` | `pendingWorkerCommands`, `workerIdleTimer`, `workerEvictionKillTimer` |
| `config` | the backend and voice paths as of now, as a number; `worker.config` is what the process was started with |
| `captureStage`, `restore`, `ocr`, `voiceOp` | what else is under way, reduced to what it does to the worker |
| `proc`, `started`, `stdin`, `stdout`, `worker` | the process, its pipes and what `Worker` says of it at them |

Abstracted: setup is complete, the lines on stdout are valid events, metadata of an
event other than status and speed is left out. `missed` is history: the last idle event
came while a capture was under way, which `armIdleEviction` looks at and nothing looks at
again.

### ClipboardCapture, CapturePolicy

The capture state machine and its nine helper processes. Six of them are collected:
`streamFinished` and `exited` are separate signals, in either order. Setting `running`
to false only asks a process to terminate, and setting it to true again then starts the
next one when the last has gone.

| Model | Code |
|---|---|
| `captureStage`, `clipboardBefore`, `restoreCancelled`, `pollAttempts` | the properties of the same names |
| `restoreText` | `pendingCapturedText` is not empty |
| `collector[p]` | the output, exit code, finished, exited, serial and handled fields of a helper; it is open while `xSerial = captureSerial` and not handled |
| `helper[p]` | the process: signals it still owes, whether it is asked to terminate, whether `running` was set anew |
| `clipboard`, `copying` | the clipboard and the focused application, the environment |

Assumptions: the two signals of one process come with no other event of the shell
between them (both are delivered when the shell learns of its end); a `wl-copy
--clear` that is asked to terminate has cleared by then or never does; nobody else
changes the clipboard. The guards of `readSelection` that look at the worker, the OCR
and the voice manager are in `WorkerLifecycle`, which in turn has the capture in four
stages only.

`CapturePolicy` is `capture_selection` of `share/capture.py`, command by command, of
which the module says that "the live QML service implements this same sequence".
`ClipboardCapture` maps its stages to the policy's steps; `FollowsPolicy` says that every
step of a capture is one of the policy, up to two things that the service does besides: a
read or a stop may cancel at any step, and a clipboard that could not be cleared is
restored too.

### BoundedCapture, OcrCapture

`BoundedCapture` is one run of `share/bounded_capture.py`: the loop of poll and read, end
of file, the wait for the producer, SIGTERM, the grace period and SIGKILL, one step each,
over a producer and descendants that write, fork, close, leave the group, ignore SIGTERM
and end as they like. `OcrCapture` extends it by the service: `readOcr`, which starts a
runner anew, the two signals of its process in either order, `stop`, and what is done with
the output.

| Model | Code |
|---|---|
| `pc`, `output`, `result`, `printed` | the position in `bounded_run`, the bytes collected, the exit code, whether they were printed |
| `expired` | the deadline has passed (time is a step that may come at any moment) |
| `pipe`, `holders`, `alive`, `group`, `returncode` | the operating system: the pipe, who may write to it, who lives, who is in the process group, how the producer ended |
| `ocrBusy`, `ocrCancelPending`, `ocr` | the properties of the same names, and `ocrOutput`, `ocrStreamFinished`, `ocrExited`, `ocrHandled`, `ocrExitCode` |
| `asked`, `owed` | `ocrProc.running = false` was set; signals that are not delivered |
| `submitted`, `wanted`, `own` | history: what was read aloud of the present capture, whether the user still waits, whether all signals taken are of this runner |

Abstracted: a text is a number of bytes; the grep contract of `bin/capture-ocr`, which
ends in one of the producer's exit codes; a runner that is asked to terminate leaves its
producer alone (SIGTERM ends the Python process without its `finally` block).

### VoiceManager

`bin/manage-voices` and its client in the service in one module, since what is hard is
between them: the manager's steps on the disk, one by one, with failures, SIGTERM at each
of them and kills; `Service.qml`'s list, install then select, cancel, its two signals in
either order, the probe of the setup, the timer that repeats a list, the read that is kept
while a list loads, and the replacement of a warm worker.

| Model | Code |
|---|---|
| `client`, `pendingVoiceSelection` | `voiceManagerBusy`, `-CancelPending`, `-Operation`, `-Output`, `-StreamFinished`, `-Exited`, `-Handled`, `-ExitCode`; `pendingVoiceSelection` |
| `process`, `owed` | the manager: its step, its voice and file, its stage; signals not delivered |
| `files`, `selectedFile`, `stamp` | the three files of each voice: absent, whole, or other than the catalog says; `selected-voice`; the setup stamp |
| `voiceName`, `voiceCatalog` | `selectedVoiceId` and the paths; the voices that are listed as installed |
| `kept`, `later` | `pendingReadAfterVoiceList`; `Qt.callLater` |
| `status`, `worker`, `leaving` | captures, worker and its replacement, reduced to what the voices need |
| `unsure`, `overtaken`, `excused`, `own` | history |

### SettingsRegister, Settings

`Settings` has the queue of one payload in `Service.qml`, the helper that replaces the
file (`share/settings_store.py`: stage, write, fsync, replace, fsync of the directory, each
a step that may fail, and a helper that may be killed), the read at startup, and as much of
the worker as overwrites the service's speed. `file` is what a reader finds, `durable` what
the disk has, `loose` what it may have after a loss of power. The shell may be restarted
and power lost at any step. `SettingsRegister` is what the settings promise, a register
whose last write wins and which no loss of power takes back once it is safe;
`Settings!ImplementsRegister` maps the number of each change to it, and half a file to one
that is older than any.

Abstracted: the settings but the speed are one value; the checks of owner, mode and
contents are a refusal; `Orphans` says whether a helper may outlive the shell (a shell
that is restarted in order ends its helpers).

### AgentSocket

Several workers on one path, and clients (`bin/yap`). Every access to the path is a step:
lstat, connect of the probe, lstat, unlink, bind, chmod, listen, lstat; on the way out
close, join, lstat, unlink; a kill at any of them. The accept loop reads one frame, calls
the handler, which refuses, claims, or fails before or after it has claimed, and writes
one acknowledgement. A client asks the service for a worker, connects with retries until a
deadline, sends once and waits for one answer.

| Model | Code |
|---|---|
| `path`, `identity`, `seen` | the inode at the socket's path, `_path_identity`, the first lstat of `_remove_stale_socket` |
| `phase`, `listening`, `backlog` | `AgentSocketServer.start` and `close` of each worker; listening sockets and who waits |
| `thread`, `peer`, `response` | `_serve`, `_handle_connection` |
| `step`, `link`, `sent`, `reply`, `verdict` | `bin/yap`: `_prepare_external`, `_request`, the exit code |
| `admitted`, `met`, `raced` | history: claims of each announcement; who was alive, or at the path, while a server started |

Abstracted: owner and mode of path and peer; inode numbers are not used again; the order
of the backlog.

### SentenceChunks, AcceleratedVoice, Synthesis

`SentenceChunks` is `sentence_chunks` with `_sentence_boundary`, an iteration a step, over
every text of up to `MaxLength` characters of the kinds that the code tells apart.
`AcceleratedVoice` is the constructor of the class of that name (files, libraries, device,
what was compiled for which device) and `synthesize`: sentences, inference, the tiles of
`hybrid_tiles`, normalization, emission; every call of OpenVINO may fail. `Synthesis` is
the loop of `_speak` that cuts the next chunk when the voice has emitted the last one, on
Piper or on an accelerator.

Abstracted: a waveform is the number of its frames; the cut of the graph, the cache, the
volume.

## The runs

`tlc -config <cfg> <module>`; every run takes less than four
minutes with two workers.

| Run | Checks | Shows |
|---|---|---|
| `MCWorker_commands` | OnlyAcceptedAudible, VoiceUsedByOne, TextReleased, SettledStaysQuiet, ImplementsPlayback | all lines of stdin and the exit, with reads that replace and follow each other |
| `MCWorker_announce` | NoOrphanPlayer, EventsNameTheirRead, AgentNeverPreempts | announcements against reads, stops, undecodable lines and the exit, which shuts down as the command does |
| `MCWorker_liveness` | ReadsUnwind, SoundEnds, BusyEnds | two reads that contend for the load and the synthesis lock |
| `MCWorkerLifecycle_commands` | QueueInv, SpeedSettles, WarmWorkerIsTimed | reads, stops, speeds, changes of backend and voice, announcements, failing reads, crashes |
| `MCWorkerLifecycle_liveness` | QueueInv, StopSettles, ExitSettles, CapturingEnds | with captures, OCR, lists, announcements and crashes, stops, shutdowns and captures settle |
| `MCClipboardCapture_capture` | CaptureInv, ClipboardRestored, FollowsPolicy | reads and stops at every point, every outcome of every helper |
| `MCClipboardCapture_liveness` | CaptureInv, ClipboardGivenBack, CaptureEnds | with late applications and lingering writers: a lent clipboard comes back, captures end |
| `MCOcrCapture` | RunnerInv, ReadIsRight, CapturesEnd | two OCR captures, a stop at any moment, and under each a producer with two descendants |
| `MCVoiceManager` | VoicesInv, StepsAreWhole, WaitsEnd | two voices that are whole or were cut off, every operation, canceled or killed at every step |
| `MCSettings` | FileInv, ImplementsRegister, QueueDrains | changes during writes and reads, helpers that fail or are killed, a restart or a loss of power |
| `MCAgentSocket` | ReachableUnlessRaced, StartFailsOnlyForOthers, ClosedLeavesNoPath, ClientsInv, ClientsEnd | two workers on one path, with a stale one, kills at every step, and an agent |
| `MCSynthesis` | ChunksInv, VoiceInv | every short text, on Piper and on accelerators that may fail at every call |

Several of these are conjunctions of parts that are stated, with what they mean, at the end
of their modules:

| Property | Parts |
|---|---|
| `WorkerLifecycle!QueueInv` | TypeOK; QueueHasCarrier: a queued read reaches a worker; NothingBehindShutdown: no read is written where none takes it; StoppingIsAwaited: the control shows stopping only while a stop is awaited of a process that is there |
| `ClipboardCapture!CaptureInv` | TypeOK; StopIsFinal: a canceled read neither speaks nor notifies; RestoreIsExclusive: a restore and a capture never overlap |
| `BoundedCapture!RunnerInv` | TypeOK; PrintedIsWhole; CodeIsTrue; GroupIsGone |
| `OcrCapture!ReadIsRight` | ReadIsWhole; OutputIsOwn: the signals are of the capture's own runner; StopIsHeeded |
| `VoiceManager!VoicesInv` | TypeOK; StagesAreRemoved; ResultIsOwn: no result of a canceled operation is taken for the next one's; SameVoiceAtRest: service and disk agree; WarmWorkerHasVoice |
| `VoiceManager!StepsAreWhole` | FilesComeWhole, SelectedIsComplete: crash safety of the files; PendingIsSelected: what was installed to be selected is |
| `VoiceManager!WaitsEnd` | OperationsEnd, KeptReadIsReleased |
| `Settings!FileInv` | TypeOK; FileIsWhole; SavedIsAsked: the last setting ends up in the file |
| `AgentSocket!ClientsInv` | TypeOK; VerdictIsTrue: what the client reports is so; ClaimedOnce |
| `SentenceChunks!ChunksInv` | NothingLost, ChunksBounded, WordsWhole, PrefersSentences |
| `AcceleratedVoice!VoiceInv` | VoiceTypeOK, PiecesCover, ContextKept, SentencesWhole, NoFallback, FaultsAreForeign |

Bounds, and why they are enough:

* `MaxGeneration` (Worker) bounds the generations a behaviour allots. A speak takes two
  (stop the last read, claim the next), an announcement one, a stop or a refused speak
  one, and `Reserve` keeps those of the shutdown and the exit. 6 in
  `MCWorker_commands` is two reads, or a read and two other commands, before the
  shutdown; 5 in `MCWorker_liveness` is two reads and the exit; 4 in `MCWorker_announce`
  is a read, a stop or an announcement after it, and the exit. The hazards are between a read, its predecessor and
  the step that ends it. `Requests` is one request id per selection.
* `Pieces` is the number of audio pieces of a text: 1 for an only one, 2 for one that is
  followed by another (`MCWorker_commands`); `Commands` selects the commands of a run.
* `MaxConfig` = 1 change of backend or voice: a worker is of the present configuration
  or of an older one. `PipeBound` = 2 unread lines: a command behind a shutdown, or
  an event behind another, needs two. `Speeds` = {1, 2}: the default and another.
  `Uses` selects what the user, the agents and faults do.
* `MaxPolls` is 14 in the code; 1 and 2 have the first, a further and the last poll.
  `MaxDying` bounds the processes that were asked to terminate and linger, 1 or 2: an
  old process and the capture that it could be mistaken for, once and in two places.
* `LateCopies`, `LateKills`: whether an application may answer the copy shortcut when
  polling is over, and whether a writer that was asked to terminate may outlive the
  restore that begins then. `MCClipboardCapture_capture` has both FALSE, and
  `ClipboardRestored` does not hold without (see the findings);
  `MCClipboardCapture_liveness` has both TRUE.
* OcrCapture: `Cap` = 2 and `MaxWritten` = 4 have outputs that are empty, below, at and
  above the cap, and more behind that; `PipeSize` = 2 makes reads partial; three processes
  are a producer, a descendant that inherits, and one of that. `MaxCaptures` = 2: signals
  can only be mistaken for those of the capture before. The exit codes have a good end, a
  failure, and the two that the runner uses itself.
* VoiceManager: two voices, the default and another, each whole or cut off after its first
  file, with another that is out of date; `Reads` = {"selection"} (both kinds of read,
  and voices of which nothing is there, were explored separately, without an error, and
  take longer than a run should). A voice has its three files.
* Settings: `MaxChanges` = 2 and one helper have a change during a write, at each of its
  steps; `MaxRestarts` = 1 restart or loss of power; `PipeBound` = 1 event of a worker in
  flight. More than one helper is only needed where a helper outlives the shell
  (`Orphans`, which is FALSE: see the findings).
* AgentSocket: two servers, the one that ends and the one that follows, and what a third
  left behind; one client; `Backlog` = 0, so that one client fills it. (Two clients were
  explored separately, 6.2 million states.)
* Synthesis: `Target` = 4, `Early` = 2, texts of up to 7 characters have no, one and two
  boundaries, in every place relative to the target; with tiles of `Width` 4 and `Context`
  1 sentences of up to `MaxFrames` = 8 have one to four tiles, the last of each length.
  The accelerated voices have texts of up to 4 characters, since what they do does not
  depend on the text.

Fairness, and what justifies it:

* Worker: each thread that can take a step takes one. Threads are scheduled by the
  operating system and the locks are held for bounded times; load, inference, pipe and
  wait return. It does not assume that a command comes, that a player dies, or that one
  outcome of a step is ever chosen.
* WorkerLifecycle: the event loop runs, and timers go off; captures, OCR and the voice
  manager are bounded by their timeouts; the worker consumes commands, and its reads go
  on, but it may hang for ever in its teardown, for which the kill timer is there. (Both
  are assumed separately: the main thread of the worker and its reads are different
  threads.) A replacement that was asked for before the started signal is never awaited
  (`ReplacementIsDraining` below): such a worker may hang in its teardown for ever, so
  `MCWorkerLifecycle_liveness` has no replacements, `MaxConfig` = 0.
* ClipboardCapture: collected helpers are bounded by `bounded_capture.py`, `wl-copy` and
  `wtype` end, their signals and the poll timer are delivered. It assumes nothing of
  the user, the application, or of what a helper achieves.
* OcrCapture: the runner runs, its deadline comes while it does, a runner that is asked to
  terminate does, and signals are delivered. Nothing is assumed of the producer.
* VoiceManager: the manager's transfers are bounded in size and time; its signals, those
  of the probe and what was put off by `Qt.callLater` are delivered. Nothing is assumed of
  users, of the worker, or of what the manager achieves.
* Settings: the event loop and its helpers run; whether a write succeeds is open.
* AgentSocket: threads and processes run and deadlines pass; nothing is assumed of who
  starts, ends or kills a worker.

## Findings

Statements the repository makes of itself that TLC refutes. They are stated at the end of
their modules (or with the constant that is given); adding the property to a
configuration of the module shows the counterexample.

| Property | Where | What happens |
|---|---|---|
| `Worker!LastEventIsCurrent` | `_emit`, `_emit_generation` | `_emit` writes after it released the lock: a `set-speed` event that says speaking may follow the idle of the read, and the service shows it. |
| `Worker!AgentEventsNameTheirSource` | `_speak`'s cleanup | The cleanup of a failed read clears the source of an announcement that was admitted meanwhile, whose events then do not say `agent`. |
| `Worker!NoSessionAtExit` | `shutdown`, `_ensure_voice` | A load in flight at the shutdown publishes its session after the shutdown dropped it. |
| `WorkerLifecycle!EvictionIsArmed` | `armIdleEviction`; `README.md:56`, "exits after 60 seconds without a reading" | An idle event during a capture does not arm the eviction, and nothing else does: the model stays loaded. |
| `WorkerLifecycle!ReplacementIsDraining` | `onStarted`; the comment in `onExited` | A backend change between the worker's start and its started signal leaves the replacement pending and reads refused. |
| `WorkerLifecycle!ReadsUseSelection` | `finishVoiceManager`; `README.md:73` | A voice selection that finishes while the status is not idle leaves the old model to the next read. |
| `WorkerLifecycle!StaleStaysHidden` | `handleWorkerLine` | A stop is taken for acknowledged by an idle event older than it, and the loading event of the stopped read is shown. |
| `ClipboardCapture!NoLateAdvance` | `Service.qml:121-123` | A read over a capture in its first stage takes the end of the terminated `wl-paste` for its own. |
| `ClipboardCapture!ClipboardRestored` with `LateCopies` or `LateKills` | `restoreClipboard` | An application that answers the copy shortcut after the last poll overwrites the restored clipboard, and so does a `wl-copy --clear` or a copied selection that comes after the restore because its helper was asked to terminate and has not yet. |
| `ClipboardCapture!ImplementsPolicy` | `share/capture.py:3`, "the live QML service implements this same sequence" | When `wl-copy --clear` fails the policy ends; the service restores. |
| `VoiceManager!SameVoice` | `README.md:72`, "the selected voice is persisted" | A selection that is canceled after the manager has replaced `selected-voice` is the next shell's voice, not this one's. |
| `VoiceManager!VoiceChangesAtIdle` | `README.md:73`, "can be changed only while OmaYap is idle" | A list that the timer repeats, or the select that follows an install, is applied while an announcement or a read runs. |
| `Settings!SpeedIsSaved` | `README.md:76`, "speed changes are persisted"; `Service.qml:907` | The first event of a fresh worker has its default speed and overwrites the user's; another setting that is saved before the worker has taken the speed saves the default. |
| `Settings!EarlyChangeIsSaved` | `applySettingsIfSafe` | A setting that is changed before the settings of the last session were applied saves the defaults of the others. |
| `Settings!SavedIsAsked`, `Settings!ImplementsRegister` with `Orphans` | `startSettingsWrite` | A helper that outlives its shell may replace what the next shell has saved. |
| `AgentSocket!OnlyStaleRemoved` | `agent_socket.py:57`, "remove only a stale same-UID socket" | A server between bind and listen refuses connections, looks stale and loses its path to one that starts at the same time. |
| `AgentSocket!AcceptedIsServed` | `_serve`, `close` | A worker that has begun to shut down still answers "ok" to the frame that its thread is reading. |
| `SentenceChunks!NoWordCut` | `worker.py:266-268`, "a single word longer than the target is split" | A chunk ends at a space or a newline only: behind a tab, which a text keeps when its cleanup is off, a short word may be cut. |

`EventsNameTheirRead` has an exception for the same reason as the second of these: a
line on stdin that is no JSON sets the status to error in the middle of a read, an
announcement is then admitted once that read's thread has retired, and relabels the idle
event that the thread still has to write. The properties with an exception that a finding
names (`WarmWorkerIsTimed`, `SameVoiceAtRest`, `WarmWorkerHasVoice`, `SavedIsAsked`,
`ReachableUnlessRaced`, `FollowsPolicy`, `WordsWhole`) say what holds all the same: the
exception is a history variable, or the condition, that describes exactly that case.

## The proofs

Every invariant and every action property that a run checks, both refinements
(`ImplementsPlayback`, `ImplementsRegister`) and the policy that a capture follows are
theorems: a run shows them on its instance, the theorem for every value of the constants,
from the assumptions that the modules state of these. Each module of proofs extends the
module that it is about, states the inductive invariant in named parts, each with what it
says, proves that it holds at the start and is kept by every step, one step per action,
and draws the properties from it.

A bound that a run needs to be finite is a constant that the theorem leaves open
(`MaxGeneration`, `PipeBound`, `MaxCaptures`, `MaxPolls`, `MaxChanges`, `Backlog`, ...),
so no bound is what makes a property true.

### WorkerProofs

`WorkerProofs` proves, for every `MaxGeneration`, `Pieces`, `Commands` and `Requests`
(the assumptions are `BoundsAssumption`, `RequestAssumption` and `CommandsAssumption` of
`Worker`):

| Theorem | States |
|---|---|
| `TypeCorrect` | `Spec => []TypeOK` (no run checks it besides) |
| `AudibleSafe` | `Spec => []OnlyAcceptedAudible` |
| `TextSafe` | `Spec => []TextReleased` |
| `AgentSafe` | `Spec => AgentNeverPreempts` |
| `NoOrphan` | `Spec => []NoOrphanPlayer` |
| `SessionSafe` | `Spec => []VoiceUsedByOne` |
| `PlaybackRefined` | `Spec => ImplementsPlayback` |
| `NamesSafe` | `Spec => []EventsNameTheirRead` |
| `SettledSafe` | `Spec => SettledStaysQuiet` |

None of these invariants is inductive by itself. The argument rests on `IInv`:

* `LockInv`: the steps that are taken under the command lock are taken by its holder.
  Hence a read that is being launched cannot be overtaken by another command.
* `RoomInv`: a command was admitted with room for its generations. Without it the
  typing of `generation` is not preserved.
* `LocalInv`: the locals that a stage of `_speak` relies on.
* `TextInv`: a text that is held is that of the current generation and of the read
  accepted last, and either its thread runs or a command is about to launch it; a
  command that has canceled the last read holds none.
* `ThreadInv`: a thread that runs in the current generation is the tracked one.
* `SinkInv`: a sink that can sound is registered, or about to be killed by the command
  that took it; a registered one belongs to the text that is held.

`TypeStep`, `TextStep`, `ThreadStep` and `SinkStep` show, with one step per action, that
the invariant is preserved. `OnlyAcceptedAudible` and `TextReleased` follow from it,
`AgentNeverPreempts` from it at the step that claims. `ExitInv` (from the shutdown's
cancellation on, `_shutdown` is set and no sink is registered) and `SessionInv` (who is
in the session holds its lock) are inductive relative to it and yield `NoOrphanPlayer`
and `VoiceUsedByOne`. `PlaybackStep` maps every action to a step of `Playback`, or to
none.

What is on stdout needs a second invariant, `EventInv`, inductive relative to `IInv`:

* `NameInv`: from the claim of a read on, the shared request id and source are its own;
  whoever labels them does so in a generation that has no thread, or after the last one
  has retired.
* `AskedInv`: a request id is that of one read, the first command that carries it.
* `SettledInv`: the shared request is one that is over only between the idle event of a
  stop and the end of that stop, all of it under the command lock.
* `ReportInv`: an event that waits to be written is not outrun by a later command. Only
  the first event of the worker and that of an undecodable line are written without the
  lock, and neither shows a read.

`NameStep`, `AskedStep`, `SettledStep` and `ReportStep` go over the actions. `SpeakFrame`
says once for the many steps of a read's thread what any of them may do to the metadata
and to stdout. `EventsNameTheirRead` is part of the invariant, `SettledStaysQuiet` holds
at every step that writes.

### WorkerLifecycleProofs

For any speeds, any number of changes of the configuration, any bound on the pipes and
any uses (`SpeedsAssumption`, `LifecycleBounds`, `UsesAssumption`):

| Theorem | States |
|---|---|
| `LifecycleSafe` | `Spec => []LifecycleInv` |
| `QueueSafe` | `Spec => []QueueInv` |
| `SpeedSafe` | `Spec => []SpeedSettles` |
| `WarmSafe` | `Spec => []WarmWorkerIsTimed` |

`LifecycleInv` has, beside the types, two groups of parts.

* `FlowInv`, what the service waits for. `PendingInv`: what is queued waits for an exit,
  and then no other read can follow it, or for a start; the queue's single place rests on
  that. `ReplaceInv` says why no read comes in while a worker is replaced whose start made
  the service forget that an exit was asked for, `BootInv` why no voice changes while a
  worker starts during a capture, `OneCapture` why two captures do not both submit.
  `GoneInv`, `TimerInv` and `OpenInv` tie the flags to the process.
* `LineInv`, what is in the pipes. `ShutInv`: a shutdown on its way means an expected exit
  or a replacement. `AckInv`: while a stop is pending, the stop or its acknowledgement is
  on its way. `SpeedInv`: unless another speed is on its way to the worker, the last
  event it sent has its speed. `TimedInv`: the last event of a worker that rests says so,
  or has armed the eviction.

The properties speak of moments at which nothing is in the pipes. They are not inductive
because what will be read when the pipes are empty again is what the last line says: the
invariant follows the first and the last line of a sequence. The lemmas on sequences
(`Appended` and those after it) say what a line that is written, read, or lost with its
process does to that.

### ClipboardCaptureProofs

For any number of polls and of lingering helpers and any contents of the clipboard
(`PollsAssumption`, `ClipboardsAssumption`, `WorldAssumption`):

| Theorem | States |
|---|---|
| `CoreSafe` | `Spec => []CoreInv` |
| `CaptureSafe` | `Spec => []CaptureInv` |
| `PolicyFollowed` | `Spec => FollowsPolicy` |
| `ClipboardSafe` | `LateCopies = FALSE, LateKills = FALSE`: `Spec => []ClipboardRestored` |

The first three hold however late a helper or an application is. `ClipboardSafe` has two
hypotheses, those of the run that checks the property, for which TLC shows a
counterexample when either is dropped: an application that answers when polling is over,
or a `wl-copy --clear` or `wtype` that outlives the request to terminate, changes the
clipboard after its restore (see the findings). What holds then is the temporal
`ClipboardGivenBack`, which stays with TLC.

`CoreInv`: `OpenInv`, a collector is open in its own stage only and waits for exactly the
signals that its process still owes; `RestoreInv`, a restore that runs is not to be
started again; `WantedInv`, what was not canceled is wanted; `BeforeInv`, nothing is saved
before there is something to restore. `FullInv` adds `DoerInv`, who may change the clipboard
runs in the stage of its name or is one that the restore waits for, and `ContentInv`, by
stage, what is on the clipboard and what has been saved of it. The stages are entered by
the same few operators, so the lemmas are about these: `Ready` says what holds of the
processes whenever the stage changes.

### OcrCaptureProofs

For every set of processes, cap, size of pipe and set of exit codes
(`ProducerAssumption`, `SizesAssumption`), and for any number of captures and stops
(`CapturesAssumption`). `Spec` is that of `BoundedCapture`:

| Theorem | States |
|---|---|
| `TypeCorrect` | `Spec => []TypeOK`: no more than a byte above the cap is held |
| `WholeSafe` | `Spec => []PrintedIsWhole` |
| `CodeSafe` | `Spec => []CodeIsTrue` |
| `GroupSafe` | `Spec => []GroupIsGone` |
| `RunnerSafe` | `Spec => []RunnerInv`: the four together |
| `EveryRunnerSafe` | `OcrSpec => []RunnerInv` |
| `ReadSafe` | `OcrSpec => []ReadIsWhole` |
| `OwnSafe` | `OcrSpec => []OutputIsOwn` |
| `StopSafe` | `OcrSpec => StopIsHeeded` |
| `ReadRight` | `OcrSpec => ReadIsRight`: the three together |

The runner's invariant `IInv` adds to its properties:

* `StepInv`: what was read and what is in the pipe is all that was written; from the end
  of file on nobody can write any more, since only who has the pipe can hand it on. That
  is why a producer's end is not the end of its output, and why the printed output is whole.
* `TerminationInv`: the code of a termination was given with its reason.
* `ProducerInv`: a producer that has a return code is gone and does not come back, so that
  the code that was passed on stays its own.

`WrapperStep` and `FamilyStep` show that it is preserved, one step per action.
`OcrInv` adds what relates a runner to the fields of the service: each of its two signals
is on its way or has come, never both (`SignalInv`); when the service is neither busy nor
canceling, both have, so that a new capture starts with none outstanding, which is why
`cancelOcr` has to wait for them; and what has come is what the runner has left
(`FieldInv`). The properties of a single runner carry over because a runner that is
started is one at its beginning (`StartInv`).

### VoiceManagerProofs

For any catalog, any files that the shell may find there, and whatever the users, the
network, the disk and the worker do (`VoicesAssumption`, `ReadsAssumption`,
`FilesAssumption`):

| Theorem | States |
|---|---|
| `ManagedSafe` | `Spec => []VoiceManagerInv` |
| `VoicesSafe` | `Spec => []VoicesInv` |
| `StepsWhole` | `Spec => StepsAreWhole` |

`VoiceManagerInv` follows an operation from the click to the worker:

* `OperationInv`, `SignalInv`: an operation has at any moment either its process or the
  signals that this process owes, each once. So the fields of the client are never those
  of another process, although they are shared by all operations.
* `ManagerInv`: what the manager has staged is what the catalog says, it selects a voice
  that is whole, and lists what is on the disk at that moment; nobody else changes it.
* `ResultInv`: an operation that is about to be taken for a success has done on the disk
  what the client takes it for, until its last signal has been handled.
* `PendingInv`: a voice waits to be selected only while its own install, or the select
  that follows, is under way.
* `SyncInv`, `WarmInv`: the service has the voice of the disk but during a mutation, or
  after one whose end it did not see; a worker that stays has the service's.

`SameVoiceAtRest` and `ResultIsOwn` follow; the action properties hold at the steps of
the manager and of the handlers (`DiskStep`).

### SettingsProofs

For any speeds, choices, set of helpers and number of changes, restarts and losses of power
(`NamesAssumption`, `DefaultsAssumption`, `BoundsAssumption`, `MarksAssumption`):

| Theorem | States |
|---|---|
| `FileWhole` | `Spec => []FileIsWhole` |
| `FileSafe` | `Orphans = FALSE`: `Spec => []FileInv` |
| `RegisterImplemented` | `Orphans = FALSE`: `Spec => ImplementsRegister` |

That nobody finds half a file holds also where a helper outlives its shell. What the file
says in the end does not: TLC finds the counterexample when `Orphans` is TRUE (see the
findings), so the hypothesis is that of the two theorems which need it.

`WholeInv`: who replaces the file has all of its payload on the disk before
(`StageInv`). `SavedInv` adds that the helper of the queue is the only one (`SoleInv`);
that versions grow from the disk over the file, the payload on its way and the one that
waits to the last change (`VersionInv`), which makes the replacement at every step a
step of the register; and that the newest of these has what the user has set
(`NewestInv`), which needs to know what the disk has after a failed write (`SettledInv`)
and what the properties are before the file was applied (`AppliedInv`).

### AgentSocketProofs

For any number of workers and clients and every backlog (`BacklogAssumption`,
`PathAssumption`):

| Theorem | States |
|---|---|
| `ReachableSafe` | `Spec => []ReachableUnlessRaced` |
| `StartSafe` | `Spec => []StartFailsOnlyForOthers` |
| `ClosedSafe` | `Spec => []ClosedLeavesNoPath` |
| `ClientsSafe` | `Spec => []ClientsInv` |

The run has two workers, the theorems any number, so that a third one that starts between
the steps of two others is covered as well. `ServerInv`: while a server starts, its
history names everybody who could be in its way (`HistoryInv`); as long as it names nobody,
the path is what the last step has found or made of it (`AloneInv`), and who serves unraced
keeps it (`KeptInv`); who has the path of another, or may take it for its own,
was in its way when that one started (`TakenInv`); a server that closes knows its own path
(`BoundInv`), which is why it leaves none. `AgentInv` adds the clients: each is at one
server, in its backlog or with its thread (`LinkInv`), and whether its announcement has
been claimed shows in where its connection is, and then in the answer (`AdmitInv`).

### SynthesisProofs

For every text, target, early end, width and context of the tiles, and any number of
frames and sentences (`TargetAssumption`, `LengthsAssumption`, `TilesAssumption`,
`FramesAssumption`):

| Theorem | States |
|---|---|
| `ReadSafe` | `ReadSpec => []ReadInv` |
| `ChunksSafe` | `ReadSpec => []ChunksInv` |
| `VoiceSafe` | `ReadSpec => []VoiceInv` |

`ReadSpec` begins with any text on any voice; the run takes the longer texts on Piper
only. `TextInv` adds to `ChunksInv` what a cut in the middle of a word leaves for the
next chunk (`CutInv`). `StrongVoiceInv` adds that nothing of a sentence is out before all
of it has been decoded (`PhaseInv`), which yields that a sentence is heard as a whole or not
at all and that the checks of the tiling never fail. The chunks are cut at the last end
that fits, a maximum of a set of naturals: `MinIsLeast` and `MaxIsGreatest` are proved
from the well-foundedness of the naturals.

### Only model-checked

The liveness properties: `ReadsUnwind`, `SoundEnds` and `BusyEnds` of `Worker`;
`StopSettles`, `ExitSettles` and `CapturingEnds` of `WorkerLifecycle`;
`ClipboardGivenBack` and `CaptureEnds` of `ClipboardCapture`; `CapturesEnd` of
`OcrCapture`; `WaitsEnd` of `VoiceManager`; `QueueDrains` of `Settings`; `ClientsEnd` of
`AgentSocket`. Reasoning about fairness needs ENABLED, which the prover used here does not
reason about. Induction over data and RECURSIVE operators are out of its reach, too;
the modules avoid both: what a loop of the code computes is a variable that its steps
change, so that it is an invariant and not a recursive definition.

## What is not modelled

* Setup and uninstall (`bin/`): provisioning is input and output. The edit of the
  bindings file, its validation by Hyprland and the roll back are one sequence of one
  process on one file; they are last in the plan.
* `cleanup_text`: regular expressions on Markdown, logs and tables, with no state.
* The grep contract of `bin/capture-ocr`: text matching on a foreign script; its outcomes
  are exit codes in `OcrCapture`.
* Audio, inference, the cut of the graph and the cache of OpenVINO, the layout of
  the widget, notifications' wording, benchmarks: no state that another component
  depends on, or none a model checker can enumerate.
* Real time. Timers are guards and a timeout may come at any moment after it was armed.
* What Quickshell does when a process cannot be started at all, and the contents of
  foreign programs.
* Owners, modes and symbolic links of files and sockets: each check is a refusal.

## Plan

Done: the worker, the three state machines of the service, the voices, the settings, the
announcements, the OCR captures over the bounded runner, the capture policy, chunks and
tiles; and for all of them the proofs of every safety property. Next, in this order:

1. Compositions: `WorkerLifecycle` over the commands and events of `Worker`, in place of
   its own worker; `ClipboardCapture` and `OcrCapture` under the captures of
   `WorkerLifecycle`. As theorems first: each of the detailed modules implements the part
   that the lifecycle has of it, by a refinement mapping over the invariants proved here.
2. `Bindings`: edit, validation and roll back of the tagged block.
