------------------------------ MODULE Settings ------------------------------
(***************************************************************************)
(* The settings of the service and the file that keeps them: the queue of  *)
(* one payload in Service.qml, the helper that replaces the file in stages *)
(* (share/settings_store.py), the read at startup, and the worker, whose   *)
(* events overwrite the service's speed.  The shell may be restarted, the  *)
(* helper killed, and power lost, at any step.                             *)
(*                                                                         *)
(* A payload has the number of the change that persisted it, the speed,    *)
(* and the other three settings in one value, the choice.  What is under   *)
(* the file's name is a payload, nothing, or what a write left half done.  *)
(*                                                                         *)
(* Abstracted: the two signals of a reader that together apply what it     *)
(* printed are one; "running" of a process holds from its assignment to    *)
(* the exited signal; the bytes of a payload, which is written at once or  *)
(* in part; a voice that no accelerator supports (there is none).          *)
(***************************************************************************)
EXTENDS Integers, Sequences

CONSTANTS Helpers,       \* processes of settings_store write
          NoHelper, NoPayload, NoFile, Half,
          Off,           \* there is no worker
          Speeds, DefaultSpeed, Choices, DefaultChoice,
          MaxChanges,    \* a bound on the changes of a behaviour
          PipeBound,     \* a bound on unread lines of the worker's pipes
          MaxRestarts,   \* a bound on restarts and losses of power
          Orphans        \* whether a helper may outlive the shell

ASSUME NamesAssumption ==
  /\ NoHelper \notin Helpers /\ Off \notin Speeds
  /\ NoFile # Half
ASSUME DefaultsAssumption == DefaultSpeed \in Speeds /\ DefaultChoice \in Choices
ASSUME BoundsAssumption ==
  /\ {MaxChanges, PipeBound, MaxRestarts} \subseteq Nat
  /\ Orphans \in BOOLEAN

Payloads == [n : Nat, speed : Speeds, choice : Choices]
(* Not to be taken for one another, or for a payload.                      *)
ASSUME MarksAssumption == {NoPayload, NoFile, Half} \cap Payloads = {}

VARIABLES
  speed, choice,           \* the properties of the service
  reading, readText,       \* the helper at startup: "running", "read", "applied"
  pending,                 \* pendingSettingsPayload
  writePayload,            \* settingsWritePayload
  writer, later,           \* settingsWriteProc; a startSettingsWrite by Qt.callLater
  at, job, stage, synced,  \* each helper: its step, its payload, its staged file
  file, durable, loose,    \* the name; what the disk has there, or may have
  worker, stdin, stdout,   \* the worker's speed, and the speeds in its pipes
  \* history: changes, restarts, what the user has set, and why the file may
  \* differ from it
  changes, restarts, asked, early, behind, failed

service == <<speed, choice, reading, readText>>
queue == <<pending, writePayload, writer, later>>
helper == <<at, job, stage, synced>>
disk == <<file, durable, loose>>
speaker == <<worker, stdin, stdout>>
history == <<changes, restarts, asked, early, behind, failed>>
vars == <<service, queue, helper, disk, speaker, history>>

Steps == {"off", "starting", "prepare", "write", "sync", "replace", "flush", "clean", "done"}
Defaults == [speed |-> DefaultSpeed, choice |-> DefaultChoice]
ContentOf(f) == IF f \in Payloads THEN [speed |-> f.speed, choice |-> f.choice] ELSE Defaults

Init ==
  /\ speed = DefaultSpeed /\ choice = DefaultChoice
  /\ reading = "running" /\ readText = NoFile
  /\ pending = NoPayload /\ writePayload = NoPayload /\ writer = NoHelper /\ later = FALSE
  /\ at = [h \in Helpers |-> "off"] /\ job = [h \in Helpers |-> NoPayload]
  /\ stage = [h \in Helpers |-> NoFile] /\ synced = [h \in Helpers |-> FALSE]
  /\ file \in {NoFile} \union [n : {0}, speed : Speeds, choice : Choices]
  /\ durable = file /\ loose = {}
  /\ worker = Off /\ stdin = <<>> /\ stdout = <<>>
  /\ changes = 0 /\ restarts = 0 /\ asked = ContentOf(file)
  /\ early = FALSE /\ behind = FALSE /\ failed = FALSE

(***************************************************************************)
(* The queue.                                                              *)
(***************************************************************************)

(* Mutation: a change during a write is not kept. *)
StartWriteOrDrop(p) ==
  IF writer # NoHelper \/ p = NoPayload
    THEN UNCHANGED <<pending, writePayload, writer, at>>
    ELSE \E h \in Helpers :
           /\ at[h] = "off"
           /\ writer' = h /\ at' = [at EXCEPT ![h] = "starting"]
           /\ writePayload' = p /\ pending' = NoPayload

(* startSettingsWrite with the pending payload p.                          *)
StartWrite(p) ==
  IF writer # NoHelper \/ p = NoPayload
    THEN pending' = p /\ UNCHANGED <<writePayload, writer, at>>
    ELSE \E h \in Helpers :
           /\ at[h] = "off"
           /\ writer' = h /\ at' = [at EXCEPT ![h] = "starting"]
           /\ writePayload' = p /\ pending' = NoPayload

(* persistSettings, of the settings v; StartWrite takes its payload.       *)
Payload(v) == [n |-> changes', speed |-> v.speed, choice |-> v.choice]

Change(v) ==
  /\ changes < MaxChanges /\ changes' = changes + 1
  /\ speed' = v.speed /\ choice' = v.choice
  /\ StartWrite(Payload(v))
  /\ early' = (early \/ reading # "applied")
  /\ UNCHANGED <<reading, readText, later, job, stage, synced, disk, restarts, failed>>

(* setSpeed: a worker that runs is told.                                   *)
SetSpeed ==
  \E s \in Speeds :
    /\ Change([speed |-> s, choice |-> choice])
    /\ asked' = [asked EXCEPT !.speed = s]
    /\ IF worker = Off THEN stdin' = stdin
       ELSE Len(stdin) < PipeBound /\ stdin' = Append(stdin, s)
    /\ behind' = FALSE
    /\ UNCHANGED <<worker, stdout>>

(* setCleanupProfile, setBackend, setAgentIndicator: the payload has the   *)
(* speed of the service, which may be one that no user has set.            *)
SetChoice ==
  \E c \in Choices :
    /\ Change([speed |-> speed, choice |-> c])
    /\ asked' = [asked EXCEPT !.choice = c]
    /\ behind' = (speed # asked.speed)
    /\ UNCHANGED speaker

(* onStarted: the helper has its payload, and its input ends.              *)
Started(h) ==
  /\ writer = h /\ at[h] = "starting"
  /\ at' = [at EXCEPT ![h] = "prepare"]
  /\ job' = [job EXCEPT ![h] = writePayload]
  /\ writePayload' = NoPayload
  /\ UNCHANGED <<service, pending, writer, later, stage, synced, disk, speaker, history>>

(* Mutation: nothing looks at the queue again. *)
ExitedQuietly(h) ==
  /\ writer = h /\ at[h] = "done"
  /\ at' = [at EXCEPT ![h] = "off"] /\ job' = [job EXCEPT ![h] = NoPayload]
  /\ writer' = NoHelper
  /\ UNCHANGED <<service, pending, writePayload, later, stage, synced, disk, speaker, history>>

(* onExited, whatever the exit code.                                       *)
Exited(h) ==
  /\ writer = h /\ at[h] = "done"
  /\ at' = [at EXCEPT ![h] = "off"] /\ job' = [job EXCEPT ![h] = NoPayload]
  /\ writer' = NoHelper
  /\ later' = (later \/ pending # NoPayload)
  /\ UNCHANGED <<service, pending, writePayload, stage, synced, disk, speaker, history>>

CallLater ==
  /\ later /\ later' = FALSE
  /\ StartWrite(pending)
  /\ UNCHANGED <<service, job, stage, synced, disk, speaker, history>>

(***************************************************************************)
(* write_settings.  An error ends it in its finally block.                 *)
(***************************************************************************)
unchangedByHelper == <<service, queue, job, speaker,
                       <<changes, restarts, asked, early, behind>>>>

Proceed(h, step) == at' = [at EXCEPT ![h] = step]
Finish(h) == Proceed(h, IF writer = h THEN "done" ELSE "off")

(* The payload, the directory or the target is refused, or no stage can be *)
(* created.                                                                *)
Refused(h) ==
  /\ at[h] = "prepare"
  /\ Finish(h) /\ failed' = TRUE
  /\ UNCHANGED <<stage, synced, disk, unchangedByHelper>>

CreateStage(h) ==
  /\ at[h] = "prepare"
  /\ Proceed(h, "write")
  /\ stage' = [stage EXCEPT ![h] = Half] /\ synced' = [synced EXCEPT ![h] = FALSE]
  /\ UNCHANGED <<disk, failed, unchangedByHelper>>

WriteStage(h) ==
  /\ at[h] = "write"
  /\ Proceed(h, "sync")
  /\ stage' = [stage EXCEPT ![h] = job[h]]
  /\ UNCHANGED <<synced, disk, failed, unchangedByHelper>>

(* Mutation: the stage is closed without a sync. *)
CloseStage(h) ==
  /\ at[h] = "sync"
  /\ Proceed(h, "replace")
  /\ UNCHANGED <<stage, synced, disk, failed, unchangedByHelper>>

SyncStage(h) ==
  /\ at[h] = "sync"
  /\ Proceed(h, "replace")
  /\ synced' = [synced EXCEPT ![h] = TRUE]
  /\ UNCHANGED <<stage, disk, failed, unchangedByHelper>>

(* The target is checked again, and replaced.                              *)
Replace(h) ==
  /\ at[h] = "replace"
  /\ Proceed(h, "flush")
  /\ file' = stage[h]
  /\ loose' = loose \union {IF synced[h] THEN stage[h] ELSE Half}
  /\ stage' = [stage EXCEPT ![h] = NoFile]
  /\ failed' = FALSE
  /\ UNCHANGED <<synced, durable, unchangedByHelper>>

(* fsync of the directory: the disk has the new name.                      *)
Flush(h) ==
  /\ at[h] = "flush"
  /\ Finish(h)
  /\ durable' = (IF Half \in loose THEN Half ELSE file) /\ loose' = {}
  /\ UNCHANGED <<stage, synced, file, failed, unchangedByHelper>>

(* An OSError, or a target that is not private by now.                     *)
Fails(h) ==
  /\ at[h] \in {"write", "sync", "replace", "flush"}
  /\ Proceed(h, "clean") /\ failed' = TRUE
  /\ UNCHANGED <<stage, synced, disk, unchangedByHelper>>

CleanUp(h) ==
  /\ at[h] = "clean"
  /\ Finish(h)
  /\ stage' = [stage EXCEPT ![h] = NoFile]
  /\ UNCHANGED <<synced, disk, failed, unchangedByHelper>>

(* Somebody kills the helper; a stage of its own stays behind.             *)
Killed(h) ==
  /\ at[h] \notin {"off", "starting", "done"}
  /\ Finish(h)
  /\ stage' = [stage EXCEPT ![h] = NoFile] /\ failed' = TRUE
  /\ UNCHANGED <<synced, disk, unchangedByHelper>>

(***************************************************************************)
(* The read at startup.                                                    *)
(***************************************************************************)
unchangedByReader == <<queue, helper, disk, speaker,
                       <<changes, restarts, asked, behind, failed>>>>

(* read_settings, which may refuse or fail: then nothing is applied.       *)
ReadSettings ==
  /\ reading = "running"
  /\ \/ reading' = "read" /\ readText' = file /\ early' = early
     \/ reading' = "applied" /\ readText' = readText /\ early' = TRUE
  /\ UNCHANGED <<speed, choice, unchangedByReader>>

(* applySettingsIfSafe, applySettings: no file leaves the defaults.        *)
ApplySettings ==
  /\ reading = "read"
  /\ reading' = "applied" /\ readText' = NoFile
  /\ IF readText \in Payloads
       THEN speed' = readText.speed /\ choice' = readText.choice
       ELSE UNCHANGED <<speed, choice>>
  /\ UNCHANGED <<early, unchangedByReader>>

(***************************************************************************)
(* The worker, as far as the service's speed goes.                         *)
(***************************************************************************)
unchangedByWorker == <<choice, reading, readText, queue, helper, disk, history>>

(* A read starts it: its first event has its own speed, and its first      *)
(* command is the service's.                                               *)
WorkerStarts ==
  /\ worker = Off
  /\ worker' = DefaultSpeed
  /\ stdin' = <<speed>> /\ stdout' = <<DefaultSpeed>>
  /\ UNCHANGED <<speed, unchangedByWorker>>

WorkerTakesSpeed ==
  /\ stdin # <<>> /\ Len(stdout) < PipeBound
  /\ worker' = Head(stdin) /\ stdin' = Tail(stdin)
  /\ stdout' = Append(stdout, Head(stdin))
  /\ UNCHANGED <<speed, unchangedByWorker>>

(* Any other event.                                                        *)
WorkerReports ==
  /\ worker # Off /\ Len(stdout) < PipeBound
  /\ stdout' = Append(stdout, worker)
  /\ UNCHANGED <<speed, worker, stdin, unchangedByWorker>>

(* handleWorkerLine                                                        *)
HandleWorkerLine ==
  /\ stdout # <<>>
  /\ speed' = Head(stdout) /\ stdout' = Tail(stdout)
  /\ UNCHANGED <<worker, stdin, unchangedByWorker>>

WorkerEnds ==
  /\ worker # Off
  /\ worker' = Off /\ stdin' = <<>> /\ stdout' = <<>>
  /\ UNCHANGED <<speed, unchangedByWorker>>

(***************************************************************************)
(* Restarts and losses of power.                                           *)
(***************************************************************************)

(* The service begins anew: what it had not written is lost.               *)
Anew(content) ==
  /\ restarts < MaxRestarts /\ restarts' = restarts + 1
  /\ speed' = DefaultSpeed /\ choice' = DefaultChoice
  /\ reading' = "running" /\ readText' = NoFile
  /\ pending' = NoPayload /\ writePayload' = NoPayload
  /\ writer' = NoHelper /\ later' = FALSE
  /\ worker' = Off /\ stdin' = <<>> /\ stdout' = <<>>
  /\ asked' = ContentOf(content)
  /\ early' = FALSE /\ behind' = FALSE
  /\ UNCHANGED changes

HelpersEnd(H) ==
  /\ at' = [h \in Helpers |-> IF h \in H THEN "off" ELSE at[h]]
  /\ job' = [h \in Helpers |-> IF h \in H THEN NoPayload ELSE job[h]]
  /\ stage' = [h \in Helpers |-> IF h \in H THEN NoFile ELSE stage[h]]
  /\ UNCHANGED synced

(* A helper that has no payload by then finds its input empty and ends.    *)
Restart ==
  /\ Anew(file)
  /\ \E H \in SUBSET Helpers :
       /\ HelpersEnd(H)
       /\ \A h \in Helpers \ H : Orphans /\ at[h] \notin {"starting", "done"}
  /\ failed' = (loose # {})
  /\ UNCHANGED disk

PowerLoss ==
  \E found \in loose \union {durable} :
    /\ Anew(found)
    /\ HelpersEnd(Helpers)
    /\ file' = found /\ durable' = found /\ loose' = {} /\ failed' = FALSE

Write(h) ==
  \/ Started(h) \/ Refused(h) \/ CreateStage(h) \/ WriteStage(h) \/ SyncStage(h)
  \/ Replace(h) \/ Flush(h) \/ Fails(h) \/ CleanUp(h) \/ Exited(h)

Next ==
  \/ SetSpeed \/ SetChoice \/ CallLater \/ ReadSettings \/ ApplySettings
  \/ \E h \in Helpers : Write(h) \/ Killed(h)
  \/ WorkerStarts \/ WorkerTakesSpeed \/ WorkerReports \/ HandleWorkerLine \/ WorkerEnds
  \/ Restart \/ PowerLoss

Spec == Init /\ [][Next]_vars

(* The event loop runs, and so do its helpers; whether one achieves its    *)
(* purpose is open.                                                        *)
Fairness ==
  /\ WF_vars(CallLater)
  /\ \A h \in Helpers : WF_vars(Write(h))

FairSpec == Spec /\ Fairness

(***************************************************************************)
(* Properties.                                                             *)
(***************************************************************************)
Contents == Payloads \union {NoFile, Half}

(* Every variable has its type, and a payload is in one place at a time.   *)
TypeOK ==
  /\ speed \in Speeds /\ choice \in Choices
  /\ reading \in {"running", "read", "applied"} /\ readText \in Contents
  /\ pending \in Payloads \union {NoPayload} /\ writePayload \in Payloads \union {NoPayload}
  /\ writer \in Helpers \union {NoHelper} /\ later \in BOOLEAN
  /\ at \in [Helpers -> Steps]
  /\ job \in [Helpers -> Payloads \union {NoPayload}]
  /\ stage \in [Helpers -> Contents] /\ synced \in [Helpers -> BOOLEAN]
  /\ file \in Contents /\ durable \in Contents /\ loose \subseteq Contents
  /\ worker \in Speeds \union {Off} /\ stdin \in Seq(Speeds) /\ stdout \in Seq(Speeds)
  /\ changes \in Nat /\ restarts \in Nat
  /\ asked \in [speed : Speeds, choice : Choices]
  /\ early \in BOOLEAN /\ behind \in BOOLEAN /\ failed \in BOOLEAN
  /\ writePayload # NoPayload <=> \E h \in Helpers : writer = h /\ at[h] = "starting"
  /\ \A h \in Helpers : at[h] \in {"off", "starting"} => job[h] = NoPayload

(* Nobody finds half a file, whenever the helper dies and whenever power   *)
(* is lost: the stage is on the disk before it gets the name.              *)
FileIsWhole == file # Half /\ durable # Half /\ Half \notin loose

VersionOf(f) == IF f \in Payloads THEN f.n ELSE IF f = Half THEN -1 ELSE 0

(* The file is a register whose last write wins: the queue never replaces  *)
(* a payload by an older one, and no loss of power takes back what a       *)
(* helper has finished.  Half a file is older than any.                    *)
Register == INSTANCE SettingsRegister
              WITH asked <- changes, stored <- VersionOf(file), safe <- VersionOf(durable)
ImplementsRegister == Register!Spec

AtRest == writer = NoHelper /\ pending = NoPayload /\ ~later

(* What the user has set is what the file has, and has after a loss of     *)
(* power, once the queue is empty and no write has failed: unless a        *)
(* setting was persisted before those of the last session were applied, or *)
(* with a speed that only a worker had reported.                           *)
SavedIsAsked ==
  AtRest /\ ~early /\ ~behind /\ ~failed
    => ContentOf(file) = asked /\ durable = file /\ loose = {}

(* Nobody finds half a file, and in the end everybody finds the last one.  *)
FileInv == TypeOK /\ FileIsWhole /\ SavedIsAsked

(* A change that has to wait for a write gets its own.                     *)
QueueDrains == pending # NoPayload ~> pending = NoPayload

(***************************************************************************)
(* What the documentation says and the code does not keep: counterexamples *)
(* are in README.md.                                                       *)
(***************************************************************************)

(* "Speed changes are persisted" (README.md:76): the speed of the file is  *)
(* the one that the user has set, also when another setting is saved while *)
(* a worker has not yet taken it.                                          *)
SpeedIsSaved ==
  AtRest /\ ~early /\ ~failed => ContentOf(file).speed = asked.speed

(* The settings of the last session survive a change that comes before     *)
(* they were applied.                                                      *)
EarlyChangeIsSaved ==
  AtRest /\ ~behind /\ ~failed => ContentOf(file) = asked
=============================================================================
