--------------------------- MODULE WorkerLifecycle ---------------------------
(***************************************************************************)
(* How Service.qml keeps its speech worker: the worker process is started  *)
(* by the first command, stopped after an idle minute, replaced when the   *)
(* backend or the voice changes, and may die at any time.                  *)
(*                                                                         *)
(* The service is one event loop: a function called from the user          *)
(* interface, a signal of a Process or a timer is one atomic action.       *)
(* Between two of them the worker runs and the two pipes hold what is not  *)
(* read yet.  workerProc.running holds from the assignment that starts the *)
(* process until its exited signal; the started signal comes in between.   *)
(*                                                                         *)
(* The worker is what Worker says of it: it takes its commands in order,   *)
(* emits a state event for each and others as its read goes on.            *)
(* A capture is reduced to what it does to the worker (ClipboardCapture    *)
(* has the rest), setup is complete, and a backend and voice together are  *)
(* a configuration, numbered by the changes so far.                        *)
(***************************************************************************)
EXTENDS Naturals, Sequences

CONSTANTS Speeds,       \* speeds the user may choose; 1 is the worker's own default
          MaxConfig,    \* bound: changes of backend or voice
          PipeBound,    \* bound: lines a pipe holds unread
          Uses          \* bound: what the user, the agents and faults do

ASSUME SpeedsAssumption == Speeds \subseteq Nat \ {0}
ASSUME LifecycleBounds == MaxConfig \in Nat /\ PipeBound \in Nat \ {0}
UseOps == {"selection", "ocr", "stop", "set-speed", "external", "backend",
           "select", "list", "announce", "crash", "fail"}
ASSUME UsesAssumption == Uses \subseteq UseOps

DefaultSpeed == 1
Statuses == {"idle", "capturing", "loading", "speaking", "stopping", "error",
             "setup-required"}
RestStatuses == {"idle", "error", "setup-required"}

VARIABLES
  \* properties of the service
  status, stopPending, speed,
  expectedWorkerExit, workerOutputSuppressed,
  workerReplacementPending,  \* or backendSwitchPending, which is never alone
  pending,                   \* pendingWorkerCommands
  idleTimer, killTimer,      \* workerIdleTimer and workerEvictionKillTimer run
  config,                    \* backend and voice paths
  \* what else may be under way: the selection capture (with how its
  \* restore will end), the OCR capture, the voice manager
  captureStage, restore, ocr, voiceOp,
  \* workerProc: absent, live, or dead with its exit not yet signaled
  proc, started, stdin, stdout, worker,
  \* history: the status shown comes from an event older than the last stop;
  \* it is one of rest and came during a capture, when no eviction is armed
  stale, missed

ui == <<status, stopPending, speed>>
watch == <<expectedWorkerExit, workerOutputSuppressed, workerReplacementPending>>
timers == <<idleTimer, killTimer>>
tasks == <<captureStage, restore, ocr, voiceOp>>
process == <<proc, started, stdin, stdout, worker>>
shown == <<stale, missed>>
vars == <<ui, watch, pending, timers, config, tasks, process, shown>>

Speak == [op |-> "speak", speed |-> 0, config |-> config]
SetSpeedTo(s) == [op |-> "set-speed", speed |-> s, config |-> 0]
Order(o) == [op |-> o, speed |-> 0, config |-> 0]
Shutdown == Order("shutdown")

Running == proc # "absent"

VoiceBusy == voiceOp # "idle"     \* voiceManagerBusy or voiceManagerCancelPending

(* The property "active". *)
Busy == \/ status \in {"capturing", "loading", "speaking", "stopping"}
        \/ ocr # "idle"
        \/ voiceOp \in {"select", "cancel-select"}

Room == Len(stdin) < PipeBound    \* the bound on what the service writes

NoWorker == [status |-> "none", speed |-> 0, config |-> 0]

(* workerProc.running = true: the pipes are new, the process boots.        *)
Launch == /\ proc' = "live" /\ started' = FALSE
          /\ stdin' = <<>> /\ stdout' = <<>>
          /\ worker' = [status |-> "boot", speed |-> DefaultSpeed, config |-> config]

Write(c) == /\ stdin' = Append(stdin, c)
            /\ UNCHANGED <<proc, started, stdout, worker>>

(* Mutation: a command is written although the worker is to exit. *)
WorkerCommandAnyway(c) ==
  /\ idleTimer' = FALSE
  /\ IF Running THEN Write(c) /\ UNCHANGED pending
                ELSE Launch /\ pending' = Append(pending, c)

(* workerCommand: queue behind an expected exit, or write, or start.       *)
WorkerCommand(c) ==
  IF expectedWorkerExit
    THEN /\ pending' = Append(pending, c)
         /\ UNCHANGED <<idleTimer, process>>
    ELSE /\ idleTimer' = FALSE
         /\ IF Running THEN Write(c) /\ UNCHANGED pending
                       ELSE Launch /\ pending' = Append(pending, c)

(* requestWorkerReplacement                                                *)
RequestWorkerReplacement ==
  /\ pending' = <<>>
  /\ IF Running
       THEN /\ workerReplacementPending' = TRUE
            /\ workerOutputSuppressed' = TRUE
            /\ expectedWorkerExit' = TRUE
            /\ IF expectedWorkerExit THEN UNCHANGED process ELSE Write(Shutdown)
            /\ killTimer' = TRUE
            /\ UNCHANGED idleTimer
       ELSE /\ expectedWorkerExit' = FALSE
            /\ workerReplacementPending' = FALSE
            /\ UNCHANGED <<workerOutputSuppressed, timers, process>>

(***************************************************************************)
(* What the user and the agents ask for.                                   *)
(***************************************************************************)
(* readSelection; a capture under way is canceled, and when it has cleared *)
(* the clipboard only its restore goes on.  (A read asked for while the    *)
(* voice list loads is asked for again when it has loaded.)                *)
ReadSelection ==
  /\ "selection" \in Uses
  /\ captureStage # "restore" /\ ~stopPending /\ ocr # "busy" /\ ~VoiceBusy
  /\ ~expectedWorkerExit /\ ~workerReplacementPending
  /\ IF captureStage = "cleared"
       THEN captureStage' = "restore" /\ restore' = "cancelled" /\ UNCHANGED status
       ELSE captureStage' = "inspect" /\ status' = "capturing" /\ UNCHANGED restore
  /\ UNCHANGED <<stopPending, speed, watch, pending, timers, config, ocr, voiceOp,
                 process, shown>>

(* readOcr *)
ReadOcr ==
  /\ "ocr" \in Uses
  /\ ~Busy /\ captureStage = "idle" /\ ~stopPending /\ voiceOp # "list"
  /\ ~expectedWorkerExit /\ ~workerReplacementPending
  /\ ocr' = "busy"
  /\ status' = "capturing"
  /\ UNCHANGED <<stopPending, speed, watch, pending, timers, config, captureStage, restore,
                 voiceOp, process, shown>>

(* cancelCapture(true): the restore of a cleared clipboard still runs.     *)
CancelCapture ==
  IF captureStage \in {"cleared", "restore"}
    THEN captureStage' = "restore" /\ restore' = "cancelled"
    ELSE captureStage' = "idle" /\ UNCHANGED restore

(* cancelVoiceManager *)
CancelVoiceManager ==
  voiceOp' = CASE voiceOp = "list" -> "cancel-list"
               [] voiceOp = "select" -> "cancel-select"
               [] OTHER -> voiceOp

(* stop *)
Stop ==
  /\ "stop" \in Uses /\ Room
  /\ ~stopPending
  /\ ocr' = IF ocr = "busy" THEN "canceling" ELSE ocr
  /\ CancelVoiceManager
  /\ CancelCapture
  /\ pending' = <<>>
  /\ idleTimer' = FALSE
  /\ stopPending' = Running
  /\ status' = IF Running THEN "stopping" ELSE "idle"
  /\ stdin' = IF Running THEN Append(stdin, Order("stop")) ELSE stdin
  /\ stdout' = [i \in DOMAIN stdout |-> [stdout[i] EXCEPT !.stale = TRUE]]
  /\ UNCHANGED <<speed, watch, killTimer, config, proc, started, worker, shown>>

(* Mutation: a new speed is only saved. *)
SetSpeedSaved(s) ==
  /\ "set-speed" \in Uses /\ Room
  /\ speed' = s
  /\ UNCHANGED <<status, stopPending, watch, pending, timers, config, tasks, process, shown>>

(* setSpeed: a warm worker is told.                                        *)
SetSpeed(s) ==
  /\ "set-speed" \in Uses /\ Room
  /\ speed' = s
  /\ IF Running /\ ~expectedWorkerExit
       THEN WorkerCommand(SetSpeedTo(s))
       ELSE UNCHANGED <<pending, idleTimer, process>>
  /\ UNCHANGED <<status, stopPending, watch, killTimer, config, tasks, shown>>

(* prepareExternal: make sure there is a worker for an announcement.       *)
PrepareExternal ==
  /\ "external" \in Uses /\ Room
  /\ status \in {"idle", "error"} /\ captureStage = "idle" /\ ocr # "busy"
  /\ ~stopPending /\ ~VoiceBusy /\ ~expectedWorkerExit /\ ~workerReplacementPending
  /\ WorkerCommand(Order("status"))
  /\ UNCHANGED <<ui, watch, killTimer, config, tasks, shown>>

(* setBackend, to another one.                                             *)
SetBackend ==
  /\ "backend" \in Uses /\ Room /\ config < MaxConfig
  /\ ~Busy /\ captureStage = "idle" /\ ~stopPending /\ ~VoiceBusy /\ ~expectedWorkerExit
  /\ config' = config + 1
  /\ status' = "idle"
  /\ RequestWorkerReplacement
  /\ UNCHANGED <<stopPending, speed, tasks, shown>>

(* selectVoice *)
SelectVoice ==
  /\ "select" \in Uses
  /\ ~Busy /\ ~VoiceBusy /\ ~expectedWorkerExit /\ status = "idle"
  /\ voiceOp' = "select"
  /\ UNCHANGED <<ui, watch, pending, timers, config, captureStage, restore, ocr, process, shown>>

(* requestVoiceList, from the setup probe or the watch timer.              *)
RequestVoiceList ==
  /\ "list" \in Uses
  /\ ~VoiceBusy
  /\ voiceOp' = "list"
  /\ UNCHANGED <<ui, watch, pending, timers, config, captureStage, restore, ocr, process, shown>>

(* finishVoiceManager of a select, applyVoiceList of a list: the voice may *)
(* be another one, and a warm worker is replaced if the status is idle.    *)
(* A select is followed by a list, if the manager's process is gone.       *)
FinishVoiceManager ==
  /\ voiceOp \in {"list", "select"} /\ Room
  /\ \/ /\ config < MaxConfig
        /\ config' = config + 1
        /\ IF Running /\ status = "idle" /\ ~stopPending
             THEN RequestWorkerReplacement
             ELSE UNCHANGED <<watch, pending, timers, process>>
     \/ UNCHANGED <<config, watch, pending, timers, process>>
  /\ voiceOp' \in IF voiceOp = "select" THEN {"list", "idle"} ELSE {"idle"}
  /\ UNCHANGED <<ui, captureStage, restore, ocr, shown>>

(* finishCancelledVoiceManager, finishCancelledOcr *)
FinishCancelled ==
  /\ \/ voiceOp \in {"cancel-list", "cancel-select"} /\ voiceOp' = "idle" /\ UNCHANGED ocr
     \/ ocr = "canceling" /\ ocr' = "idle" /\ UNCHANGED voiceOp
  /\ UNCHANGED <<ui, watch, pending, timers, config, captureStage, restore, process, shown>>

(***************************************************************************)
(* How a capture goes on.                                                  *)
(***************************************************************************)
(* submitCapturedText: a text to read, or none that can be read.           *)
Submit ==
  \/ /\ WorkerCommand(Speak)
     /\ UNCHANGED status
  \/ /\ status' = "idle"
     /\ UNCHANGED <<pending, idleTimer, process>>

(* PRIMARY has a text (handlePrimaryText), or nothing can be captured      *)
(* (handleClipboardTypes, handleClipboardText).                            *)
CaptureEnds ==
  /\ captureStage = "inspect" /\ Room
  /\ captureStage' = "idle"
  /\ Submit
  /\ UNCHANGED <<stopPending, speed, watch, killTimer, config, restore, ocr, voiceOp, shown>>

(* handleClipboardText: from here on the clipboard has to be restored.     *)
CaptureClears ==
  /\ captureStage = "inspect"
  /\ captureStage' = "cleared"
  /\ UNCHANGED <<ui, watch, pending, timers, config, restore, ocr, voiceOp, process, shown>>

(* beginRestore, with the text that was polled or with a notice.           *)
CaptureRestores ==
  /\ captureStage = "cleared"
  /\ captureStage' = "restore"
  /\ restore' \in {"read", "notice"}
  /\ UNCHANGED <<ui, watch, pending, timers, config, ocr, voiceOp, process, shown>>

(* Mutation: a canceled restore leaves the status alone. *)
FinishRestoreSilently ==
  /\ captureStage = "restore" /\ Room
  /\ captureStage' = "idle"
  /\ \/ restore = "cancelled" /\ UNCHANGED <<status, pending, idleTimer, process>>
     \/ restore # "cancelled" /\ status' = "idle" /\ UNCHANGED <<pending, idleTimer, process>>
     \/ restore = "read" /\ Submit
  /\ UNCHANGED <<stopPending, speed, watch, killTimer, config, restore, ocr, voiceOp, shown>>

(* finishRestore: wl-copy may fail.                                        *)
FinishRestore ==
  /\ captureStage = "restore" /\ Room
  /\ captureStage' = "idle"
  /\ \/ status' = "idle" /\ UNCHANGED <<pending, idleTimer, process>>
     \/ restore = "read" /\ Submit
  /\ UNCHANGED <<stopPending, speed, watch, killTimer, config, restore, ocr, voiceOp, shown>>

(* finishOcr *)
FinishOcr ==
  /\ ocr = "busy" /\ Room
  /\ ocr' = "idle"
  /\ status' = "idle"
  /\ WorkerCommand(Speak) \/ UNCHANGED <<pending, idleTimer, process>>
  /\ UNCHANGED <<stopPending, speed, watch, killTimer, config, captureStage, restore, voiceOp,
                 shown>>

CaptureStep == CaptureEnds \/ CaptureClears \/ CaptureRestores \/ FinishRestore \/ FinishOcr

(***************************************************************************)
(* Signals of workerProc and the timers.                                   *)
(***************************************************************************)
(* Mutation: the queue is kept for the exit. *)
OnStartedKeepsQueue ==
  /\ Running /\ ~started
  /\ started' = TRUE
  /\ expectedWorkerExit' = FALSE
  /\ workerOutputSuppressed' = FALSE
  /\ idleTimer' = FALSE
  /\ stdin' = Append(stdin, SetSpeedTo(speed))
  /\ UNCHANGED <<ui, workerReplacementPending, pending, killTimer, config, tasks, proc, stdout,
                 worker, shown>>

(* onStarted: the current speed goes first, then what was queued.          *)
OnStarted ==
  /\ Running /\ ~started
  /\ started' = TRUE
  /\ expectedWorkerExit' = FALSE
  /\ workerOutputSuppressed' = FALSE
  /\ idleTimer' = FALSE
  /\ stdin' = stdin \o <<SetSpeedTo(speed)>> \o pending
  /\ pending' = <<>>
  /\ UNCHANGED <<ui, workerReplacementPending, killTimer, config, tasks, proc, stdout, worker,
                 shown>>

Misses(e) == missed' = (e.status \in RestStatuses /\ captureStage # "idle" /\ ~idleTimer)

(* Mutation: an event is not taken for the end of a stop. *)
HandleWithoutAck(e) ==
  IF stopPending
    THEN /\ status' = "stopping"
         /\ UNCHANGED <<stopPending, idleTimer, shown>>
    ELSE /\ status' = e.status
         /\ stale' = e.stale /\ Misses(e)
         /\ idleTimer' = IF e.status \notin RestStatuses THEN FALSE
                         ELSE IF captureStage = "idle" THEN TRUE ELSE idleTimer
         /\ UNCHANGED stopPending

(* Mutation: the eviction is armed by an idle event only. *)
HandleArmsIdleOnly(e) ==
  IF stopPending /\ e.status \notin {"idle", "setup-required"}
    THEN /\ status' = "stopping"
         /\ UNCHANGED <<stopPending, idleTimer, shown>>
    ELSE /\ stopPending' = FALSE
         /\ status' = e.status
         /\ stale' = e.stale /\ Misses(e)
         /\ idleTimer' = (e.status = "idle" /\ captureStage = "idle")

(* handleWorkerLine, of a state event that is not suppressed: it is shown, *)
(* but while a stop is pending only its acknowledgement is; at rest the    *)
(* idle eviction is armed (armIdleEviction), else it is disarmed.          *)
Handle(e) ==
  IF stopPending /\ e.status \notin {"idle", "setup-required"}
    THEN /\ status' = "stopping"
         /\ UNCHANGED <<stopPending, idleTimer, shown>>
    ELSE /\ stopPending' = FALSE
         /\ status' = e.status
         /\ stale' = e.stale /\ Misses(e)
         /\ idleTimer' = IF e.status \notin RestStatuses THEN FALSE
                         ELSE IF captureStage = "idle" THEN TRUE ELSE idleTimer

OnRead ==
  /\ started /\ stdout # <<>>
  /\ stdout' = Tail(stdout)
  /\ IF workerOutputSuppressed \/ expectedWorkerExit
       THEN UNCHANGED <<ui, idleTimer, shown>>
       ELSE Handle(Head(stdout)) /\ speed' = Head(stdout).speed
  /\ UNCHANGED <<watch, pending, killTimer, config, tasks, proc, started, stdin, worker>>

(* The process is gone; what becomes of the queue.                         *)
Vanish(queue) ==
  /\ proc' = "absent" /\ started' = FALSE
  /\ stdin' = <<>> /\ stdout' = <<>> /\ worker' = NoWorker
  /\ pending' = queue

(* The queue is replayed: the first command starts a worker, and any later *)
(* one would find it running and be written at once.                       *)
Replay ==
  IF pending = <<>>
    THEN Vanish(<<>>)
    ELSE /\ proc' = "live" /\ started' = FALSE
         /\ stdin' = Tail(pending) /\ stdout' = <<>>
         /\ worker' = [status |-> "boot", speed |-> DefaultSpeed, config |-> config]
         /\ pending' = <<Head(pending)>>

(* onExited, of an exit that was asked for.                                *)
ExitedAsExpected ==
  /\ expectedWorkerExit
  /\ expectedWorkerExit' = FALSE
  /\ workerReplacementPending' = FALSE
  /\ stopPending' = FALSE
  /\ status' = IF ~stopPending /\ captureStage # "idle" THEN "capturing" ELSE "idle"
  /\ IF workerReplacementPending THEN Vanish(<<>>) ELSE Replay

(* onExited, of an exit that was not: it ends a stop, or is an error.      *)
ExitedUnexpectedly ==
  /\ ~expectedWorkerExit
  /\ stopPending' = FALSE
  /\ status' = IF stopPending THEN "idle" ELSE IF Busy THEN "error" ELSE status
  /\ Vanish(pending)
  /\ UNCHANGED <<expectedWorkerExit, workerReplacementPending>>

(* onExited *)
OnExited ==
  /\ proc = "dead" /\ started
  /\ idleTimer' = FALSE /\ killTimer' = FALSE
  /\ workerOutputSuppressed' = TRUE
  /\ ExitedAsExpected \/ ExitedUnexpectedly
  /\ UNCHANGED <<speed, config, tasks, shown>>

(* Mutation: the shutdown is not followed up. *)
IdleTimerForgets ==
  /\ idleTimer /\ Room
  /\ expectedWorkerExit' = TRUE
  /\ workerOutputSuppressed' = TRUE
  /\ Write(Shutdown)
  /\ idleTimer' = FALSE
  /\ UNCHANGED <<ui, workerReplacementPending, pending, killTimer, config, tasks, shown>>

(* evictIdleWorker                                                         *)
IdleTimerFires ==
  /\ idleTimer /\ Room
  /\ IF stopPending \/ captureStage # "idle" \/ status \notin RestStatuses
       THEN UNCHANGED <<watch, timers, process>>
       ELSE /\ expectedWorkerExit' = TRUE
            /\ workerOutputSuppressed' = TRUE
            /\ Write(Shutdown)
            /\ idleTimer' = FALSE /\ killTimer' = TRUE
            /\ UNCHANGED workerReplacementPending
  /\ UNCHANGED <<ui, pending, config, tasks, shown>>

(* workerEvictionKillTimer: the process is terminated if it still runs.    *)
KillTimerFires ==
  /\ killTimer
  /\ killTimer' = FALSE
  /\ proc' = IF expectedWorkerExit /\ Running THEN "dead" ELSE proc
  /\ UNCHANGED <<ui, watch, pending, idleTimer, config, tasks, started, stdin, stdout, worker,
                 shown>>

(***************************************************************************)
(* The worker process.                                                     *)
(***************************************************************************)
Ending == worker.status = "ending"
CanEmit == proc = "live" /\ ~Ending /\ Len(stdout) < PipeBound

(* An event is stale once a stop waits to be read.                         *)
Emit(w) ==
  /\ worker' = w
  /\ stdout' = Append(stdout, [status |-> w.status, speed |-> w.speed,
                               stale |-> \E i \in DOMAIN stdin : stdin[i].op = "stop"])

(* run: the first event.                                                   *)
Hello ==
  /\ CanEmit /\ worker.status = "boot"
  /\ Emit([worker EXCEPT !.status = "idle"])
  /\ UNCHANGED <<ui, watch, pending, timers, config, tasks, proc, started, stdin, shown>>

(* run: take a command.                                                    *)
Consume ==
  /\ CanEmit /\ worker.status # "boot" /\ stdin # <<>>
  /\ LET c == Head(stdin) IN
     CASE c.op = "speak" -> \E s \in {"loading", "error"} : Emit([worker EXCEPT !.status = s])
       [] c.op = "stop" -> Emit([worker EXCEPT !.status = "idle"])
       [] c.op = "set-speed" -> Emit([worker EXCEPT !.speed = c.speed])
       [] c.op = "status" -> Emit(worker)
       [] c.op = "shutdown" -> worker' = [worker EXCEPT !.status = "ending"] /\ UNCHANGED stdout
  /\ stdin' = Tail(stdin)
  /\ UNCHANGED <<ui, watch, pending, timers, config, tasks, proc, started, shown>>

(* _speak goes on, ends or fails.                                          *)
Progress ==
  /\ CanEmit /\ worker.status \in {"loading", "speaking"}
  /\ \E s \in {"speaking", "idle"} \union
              (IF "fail" \in Uses THEN {"error", "setup-required"} ELSE {}) :
       /\ s # worker.status
       /\ s = "idle" => worker.status = "speaking"
       /\ Emit([worker EXCEPT !.status = s])
  /\ UNCHANGED <<ui, watch, pending, timers, config, tasks, proc, started, stdin, shown>>

(* handle_agent_request: an announcement is accepted.                      *)
Announce ==
  /\ "announce" \in Uses
  /\ CanEmit /\ worker.status \in {"idle", "error"}
  /\ Emit([worker EXCEPT !.status = "loading"])
  /\ UNCHANGED <<ui, watch, pending, timers, config, tasks, proc, started, stdin, shown>>

(* The process ends after a shutdown, or dies.                             *)
Die ==
  /\ proc = "live"
  /\ Ending \/ "crash" \in Uses
  /\ proc' = "dead"
  /\ UNCHANGED <<ui, watch, pending, timers, config, tasks, started, stdin, stdout, worker,
                 shown>>

-----------------------------------------------------------------------------
(* The worker is cold when the service comes up.                           *)
Init ==
  /\ status = "idle" /\ stopPending = FALSE /\ speed \in Speeds
  /\ expectedWorkerExit = FALSE /\ workerOutputSuppressed = FALSE
  /\ workerReplacementPending = FALSE
  /\ pending = <<>>
  /\ idleTimer = FALSE /\ killTimer = FALSE
  /\ config = 0
  /\ captureStage = "idle" /\ restore = "cancelled" /\ ocr = "idle" /\ voiceOp = "idle"
  /\ proc = "absent" /\ started = FALSE /\ stdin = <<>> /\ stdout = <<>> /\ worker = NoWorker
  /\ stale = FALSE /\ missed = FALSE

UserStep ==
  \/ ReadSelection \/ ReadOcr \/ Stop \/ PrepareExternal
  \/ SetBackend \/ SelectVoice \/ RequestVoiceList
  \/ \E s \in Speeds : SetSpeed(s)

ServiceStep ==
  \/ FinishVoiceManager \/ FinishCancelled \/ CaptureStep
  \/ OnStarted \/ OnRead \/ OnExited \/ IdleTimerFires \/ KillTimerFires

WorkerStep == Hello \/ Consume \/ Progress

Next == UserStep \/ ServiceStep \/ WorkerStep \/ Announce \/ Die

Spec == Init /\ [][Next]_vars

(***************************************************************************)
(* Properties.                                                             *)
(***************************************************************************)
Commands == [op : {"speak", "stop", "set-speed", "status", "shutdown"},
             speed : {0, DefaultSpeed} \union Speeds, config : 0..MaxConfig]
Events == [status : Statuses, speed : Speeds \union {DefaultSpeed}, stale : BOOLEAN]

(* Every variable holds a value of its kind; the pipes exist as long as the *)
(* process, and of the reads of two captures one at most is queued.         *)
TypeOK ==
  /\ status \in Statuses /\ stopPending \in BOOLEAN /\ speed \in Speeds \union {DefaultSpeed}
  /\ expectedWorkerExit \in BOOLEAN /\ workerOutputSuppressed \in BOOLEAN
  /\ workerReplacementPending \in BOOLEAN
  /\ pending \in {<<>>} \union {<<c>> : c \in Commands}
  /\ idleTimer \in BOOLEAN /\ killTimer \in BOOLEAN
  /\ config \in 0..MaxConfig
  /\ captureStage \in {"idle", "inspect", "cleared", "restore"}
  /\ restore \in {"read", "notice", "cancelled"}
  /\ ocr \in {"idle", "busy", "canceling"}
  /\ voiceOp \in {"idle", "list", "select", "cancel-list", "cancel-select"}
  /\ proc \in {"absent", "live", "dead"} /\ started \in BOOLEAN
  /\ \A i \in DOMAIN stdin : stdin[i] \in Commands
  /\ \A i \in DOMAIN stdout : stdout[i] \in Events
  /\ worker.status \in {"none", "boot", "idle", "loading", "speaking", "error",
                        "setup-required", "ending"}
  /\ ~Running => ~started /\ stdin = <<>> /\ stdout = <<>> /\ ~idleTimer /\ ~killTimer
  /\ stale \in BOOLEAN /\ missed \in BOOLEAN

(* A queued read is never stranded: a worker is on its way out, whose exit *)
(* replays the queue, or on its way in, whose start flushes it.            *)
QueueHasCarrier == pending # <<>> => Running /\ (expectedWorkerExit \/ ~started)

(* No read is written behind a shutdown, where no worker would take it     *)
(* ("Queue that read for the fresh worker instead of writing behind        *)
(* shutdown").                                                             *)
NothingBehindShutdown ==
  \A i, j \in DOMAIN stdin :
    i < j /\ stdin[i].op = "shutdown" => stdin[j].op # "speak"

(* The control is kept busy by a stop that is awaited, never by one whose  *)
(* acknowledgement came, or whose worker is gone.                          *)
StoppingIsAwaited == status = "stopping" => stopPending /\ Running

(* The service and a live worker with nothing to tell each other.          *)
InStep == /\ proc = "live" /\ started /\ stdin = <<>> /\ stdout = <<>>
          /\ worker.status \notin {"boot", "ending"}
          /\ ~expectedWorkerExit

(* Whatever speeds crossed each other in the pipes, service and worker end *)
(* up with the same one.                                                   *)
SpeedSettles == InStep => speed = worker.speed

(* A worker that is not used is about to be evicted, but for one whose last *)
(* event came during a capture (see EvictionIsArmed below).                *)
Unused == /\ InStep /\ worker.status \in RestStatuses
          /\ status \in RestStatuses /\ ~Busy /\ captureStage = "idle"
WarmWorkerIsTimed == Unused => idleTimer \/ missed

(* Whatever started, exited or was replaced meanwhile: pending reads have  *)
(* a carrier, pending stops a worker, and timers a process.                *)
QueueInv ==
  TypeOK /\ QueueHasCarrier /\ NothingBehindShutdown /\ StoppingIsAwaited

(* A stop is acknowledged, by the worker's idle or by its exit.            *)
StopSettles == stopPending ~> ~stopPending

(* A shutdown comes to its end, also of a worker that hangs in its native  *)
(* teardown ("to guarantee the model is actually evicted").                *)
ExitSettles == expectedWorkerExit ~> ~expectedWorkerExit

(* A read that was asked for is not shown as a capture for ever.           *)
CapturingEnds == (status = "capturing") ~> (status # "capturing")

(* The event loop runs, the captures and the voice manager are bounded by  *)
(* their timeouts, the timers go off; the worker's threads take its        *)
(* commands and get on with its read, but it may hang once it was told to  *)
(* shut down.                                                              *)
FairSpec == /\ Spec
            /\ WF_vars(OnStarted) /\ WF_vars(OnRead) /\ WF_vars(OnExited)
            /\ WF_vars(KillTimerFires) /\ WF_vars(IdleTimerFires)
            /\ WF_vars(CaptureStep) /\ WF_vars(FinishVoiceManager) /\ WF_vars(FinishCancelled)
            /\ WF_vars(Hello \/ Consume) /\ WF_vars(Progress)

-----------------------------------------------------------------------------
(* What the documentation says and the code does not always do.            *)

(* "Ignore stale speaking/loading/error events that were already in stdout *)
(* when stop was pressed, so they cannot re-enable the read action" (the   *)
(* comment in handleWorkerLine).                                           *)
StaleStaysHidden == stale => status \notin {"loading", "speaking"}

(* A worker that is not used "exits after 60 seconds without a reading"    *)
(* (README.md).                                                            *)
EvictionIsArmed == Unused => idleTimer

(* "The next user read starts it with the current backend and model paths" *)
(* (the comment in onExited): a replacement is over when its worker is.    *)
ReplacementIsDraining == workerReplacementPending => expectedWorkerExit

(* "A voice can be changed only while OmaYap is idle; a warm old worker is *)
(* evicted before the next read starts" (README.md).                       *)
TakesRead == stdin # <<>> /\ stdin' = Tail(stdin) /\ Head(stdin).op = "speak"
ReadsUseSelection == [][TakesRead => worker.config >= Head(stdin).config]_vars
=============================================================================
