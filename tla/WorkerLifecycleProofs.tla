------------------------ MODULE WorkerLifecycleProofs ------------------------
(***************************************************************************)
(* What is proved of WorkerLifecycle, for any speeds, any number of        *)
(* changes of the configuration, any bound on the pipes and whatever the   *)
(* user, the agents and the faults do: no queued read is stranded or lost  *)
(* behind a shutdown, a stop is awaited only from a worker there is, the   *)
(* speeds of service and worker agree when nothing is under way, and an    *)
(* unused worker is about to be evicted.                                   *)
(***************************************************************************)
EXTENDS WorkerLifecycle, TLAPS

-----------------------------------------------------------------------------
(* Sequences of lines, whatever process holds their other end.             *)
Holds(s, o) == \E i \in DOMAIN s : s[i].op = o
Behind(s) == \A i, j \in DOMAIN s : i < j /\ s[i].op = "shutdown" => s[j].op # "speak"
Acknowledges(s) == \E i \in DOMAIN s : s[i].status \in {"idle", "setup-required"}
LastOf(s) == s[Len(s)]
Marked(s) == [i \in DOMAIN s |-> [s[i] EXCEPT !.stale = TRUE]]

AllSpeeds == Speeds \union {DefaultSpeed}

(* A line of the service: its speed is there when it is one that sets it.  *)
Lines == {c \in Commands : c.op = "set-speed" => c.speed \in AllSpeeds}

(* An event of the worker: what it shows is never the service's own.       *)
Reports == [status : {"idle", "loading", "speaking", "error", "setup-required"},
            speed : AllSpeeds, stale : BOOLEAN]

WorkerStates == [status : {"none", "boot", "idle", "loading", "speaking", "error",
                           "setup-required", "ending"},
                 speed : {0} \union AllSpeeds, config : 0..MaxConfig]

-----------------------------------------------------------------------------
(* The inductive invariant.                                                *)

ServiceTypes ==
  /\ status \in Statuses /\ stopPending \in BOOLEAN /\ speed \in AllSpeeds
  /\ expectedWorkerExit \in BOOLEAN /\ workerOutputSuppressed \in BOOLEAN
  /\ workerReplacementPending \in BOOLEAN
  /\ idleTimer \in BOOLEAN /\ killTimer \in BOOLEAN
  /\ config \in 0..MaxConfig
  /\ captureStage \in {"idle", "inspect", "cleared", "restore"}
  /\ restore \in {"read", "notice", "cancelled"}
  /\ ocr \in {"idle", "busy", "canceling"}
  /\ voiceOp \in {"idle", "list", "select", "cancel-list", "cancel-select"}
  /\ stale \in BOOLEAN /\ missed \in BOOLEAN

(* A worker that there is has been through its start: it has a speed.      *)
ProcessTypes ==
  /\ proc \in {"absent", "live", "dead"} /\ started \in BOOLEAN
  /\ pending = <<>> \/ \E c \in Lines : c.op # "shutdown" /\ pending = <<c>>
  /\ stdin \in Seq(Lines) /\ stdout \in Seq(Reports)
  /\ worker \in WorkerStates
  /\ Running => worker.status # "none" /\ worker.speed \in AllSpeeds

(* A capture under way may yet submit a read.                              *)
CanSubmit == \/ captureStage \in {"inspect", "cleared"}
             \/ captureStage = "restore" /\ restore = "read"
             \/ ocr = "busy"

(* Without a process nothing is under way with one.                        *)
GoneInv == ~Running => /\ ~started /\ stdin = <<>> /\ stdout = <<>>
                       /\ ~idleTimer /\ ~killTimer
                       /\ ~expectedWorkerExit /\ ~stopPending

(* The eviction is armed by an event, so by a process that started.        *)
TimerInv == idleTimer => started

(* What is queued waits for an exit, and then no other read can follow it, *)
(* or for a start: one command at most is queued.                          *)
PendingInv == pending # <<>> => /\ Running
                                /\ IF expectedWorkerExit THEN started /\ ~CanSubmit
                                                         ELSE ~started

(* While the worker starts, a capture shows itself, so that no voice       *)
(* change comes in between; an exit asked for so early is a replacement.   *)
BootInv == ~started /\ Running => /\ CanSubmit => status = "capturing"
                                  /\ expectedWorkerExit => workerReplacementPending

(* The start forgets that an exit was asked for, but the replacement keeps *)
(* new reads away, and there is no capture that could submit one.          *)
ReplaceInv == workerReplacementPending /\ (~expectedWorkerExit \/ ~started) => ~CanSubmit

(* One capture at a time may submit a read.                                *)
OneCapture == ocr = "busy" => captureStage = "idle"

(* The events of a started worker are heard unless it is to exit.          *)
OpenInv == started /\ ~expectedWorkerExit => ~workerOutputSuppressed

FlowInv == /\ GoneInv /\ TimerInv /\ PendingInv /\ BootInv /\ ReplaceInv /\ OneCapture
           /\ OpenInv /\ StoppingIsAwaited

(* A shutdown is on its way to a worker whose exit is expected, or to one  *)
(* that was to be replaced before it had started.                          *)
ShutInv == Holds(stdin, "shutdown") /\ ~expectedWorkerExit =>
             started /\ workerReplacementPending

(* The acknowledgement of a stop is under way, from the worker or to it.   *)
AckInv == Running /\ (~expectedWorkerExit \/ ~started) /\ stopPending =>
            Holds(stdin, "stop") \/ Acknowledges(stdout)

(* Unless another speed is on its way to the worker, the last event that   *)
(* it sent, or that was read, has the worker's speed.                      *)
SpeedInv == started /\ ~expectedWorkerExit /\ ~Holds(stdin, "set-speed") =>
              IF stdout = <<>> THEN speed = worker.speed
                               ELSE LastOf(stdout).speed = worker.speed

(* The last event of a worker that rests says so, or has armed the         *)
(* eviction.                                                               *)
TimedInv == started /\ ~expectedWorkerExit /\ stdin = <<>> /\ worker.status \in RestStatuses =>
              IF stdout = <<>> THEN idleTimer \/ missed
                               ELSE LastOf(stdout).status = worker.status

LineInv == Behind(stdin) /\ ShutInv /\ AckInv /\ SpeedInv /\ TimedInv

LifecycleInv == ServiceTypes /\ ProcessTypes /\ FlowInv /\ LineInv

-----------------------------------------------------------------------------
(* A line that is written comes last, and nothing else changes.            *)
LEMMA Appended ==
  ASSUME NEW S, NEW s \in Seq(S), NEW c \in S
  PROVE  /\ Append(s, c) \in Seq(S) /\ Append(s, c) # <<>>
         /\ \A o : Holds(Append(s, c), o) <=> Holds(s, o) \/ c.op = o
         /\ Behind(s) /\ (c.op = "speak" => ~Holds(s, "shutdown")) => Behind(Append(s, c))
         /\ Acknowledges(Append(s, c)) <=>
              Acknowledges(s) \/ c.status \in {"idle", "setup-required"}
         /\ LastOf(Append(s, c)) = c
<1> DEFINE t == Append(s, c)
<1>1. t \in Seq(S) /\ Len(t) = Len(s) + 1 /\ Len(s) \in Nat
  OBVIOUS
<1>2. DOMAIN t = 1..(Len(s) + 1) /\ DOMAIN s = 1..Len(s)
  BY <1>1
<1>3. t[Len(s) + 1] = c /\ \A i \in 1..Len(s) : t[i] = s[i]
  OBVIOUS
<1>4. t # <<>>
  BY <1>1
<1> HIDE DEF t
<1>5. \A o : Holds(t, o) <=> Holds(s, o) \/ c.op = o
  <2> TAKE o
  <2>1. CASE c.op = o
    BY <2>1, <1>1, <1>2, <1>3 DEF Holds
  <2>2. CASE c.op # o
    <3>1. ASSUME NEW i \in DOMAIN t, t[i].op = o PROVE i \in DOMAIN s /\ s[i].op = o
      BY <3>1, <2>2, <1>1, <1>2, <1>3
    <3>2. ASSUME NEW i \in DOMAIN s, s[i].op = o PROVE i \in DOMAIN t /\ t[i].op = o
      BY <3>2, <1>1, <1>2, <1>3
    <3> QED BY <2>2, <3>1, <3>2 DEF Holds
  <2> QED BY <2>1, <2>2
<1>6. ASSUME Behind(s), c.op = "speak" => ~Holds(s, "shutdown") PROVE Behind(t)
  <2> SUFFICES ASSUME NEW i \in DOMAIN t, NEW j \in DOMAIN t, i < j, t[i].op = "shutdown"
               PROVE  t[j].op # "speak"
    BY DEF Behind
  <2>1. i \in DOMAIN s /\ s[i].op = "shutdown"
    BY <1>1, <1>2, <1>3
  <2>2. CASE j \in DOMAIN s
    BY <2>1, <2>2, <1>2, <1>3, <1>6 DEF Behind
  <2>3. CASE j = Len(s) + 1
    BY <2>1, <2>3, <1>3, <1>6 DEF Holds
  <2> QED BY <2>2, <2>3, <1>1, <1>2
<1>7. Acknowledges(t) <=> Acknowledges(s) \/ c.status \in {"idle", "setup-required"}
  <2>1. ASSUME NEW i \in DOMAIN t PROVE (i \in DOMAIN s /\ t[i] = s[i]) \/ t[i] = c
    BY <1>1, <1>2, <1>3
  <2>2. ASSUME NEW i \in DOMAIN s PROVE i \in DOMAIN t /\ t[i] = s[i]
    BY <1>1, <1>2, <1>3
  <2>3. Len(s) + 1 \in DOMAIN t
    BY <1>1, <1>2
  <2> QED BY <2>1, <2>2, <2>3, <1>3 DEF Acknowledges
<1>8. LastOf(t) = c
  BY <1>1, <1>3 DEF LastOf
<1> QED BY <1>1, <1>4, <1>5, <1>6, <1>7, <1>8 DEF t

(* The line that is taken comes first, and nothing else changes.           *)
LEMMA Taken ==
  ASSUME NEW S, NEW s \in Seq(S), s # <<>>
  PROVE  /\ Tail(s) \in Seq(S) /\ Head(s) \in S
         /\ \A o : Holds(s, o) <=> Holds(Tail(s), o) \/ Head(s).op = o
         /\ Behind(s) => Behind(Tail(s))
         /\ Acknowledges(s) <=>
              Acknowledges(Tail(s)) \/ Head(s).status \in {"idle", "setup-required"}
         /\ LastOf(s) = IF Tail(s) = <<>> THEN Head(s) ELSE LastOf(Tail(s))
<1> DEFINE t == Tail(s)
           h == Head(s)
<1>1. Len(s) \in Nat \ {0} /\ DOMAIN s = 1..Len(s)
  OBVIOUS
<1>2. t \in Seq(S) /\ h \in S /\ h = s[1]
  OBVIOUS
<1>3. Len(t) = Len(s) - 1 /\ DOMAIN t = 1..(Len(s) - 1)
  BY <1>1
<1>4. \A i \in 1..(Len(s) - 1) : t[i] = s[i + 1]
  BY <1>1
<1>5. t = <<>> <=> Len(s) = 1
  BY <1>1, <1>2, <1>3
<1> HIDE DEF t, h
<1>6. ASSUME NEW i \in DOMAIN s PROVE (i = 1 /\ s[i] = h) \/ (i - 1 \in DOMAIN t /\ s[i] = t[i - 1])
  BY <1>1, <1>2, <1>3, <1>4
<1>7. ASSUME NEW i \in DOMAIN t PROVE i + 1 \in DOMAIN s /\ s[i + 1] = t[i]
  BY <1>1, <1>3, <1>4
<1>8. 1 \in DOMAIN s /\ s[1] = h
  BY <1>1, <1>2
<1>9. \A o : Holds(s, o) <=> Holds(t, o) \/ h.op = o
  BY <1>6, <1>7, <1>8 DEF Holds
<1>10. ASSUME Behind(s) PROVE Behind(t)
  <2> SUFFICES ASSUME NEW i \in DOMAIN t, NEW j \in DOMAIN t, i < j, t[i].op = "shutdown"
               PROVE  t[j].op # "speak"
    BY DEF Behind
  <2>1. i + 1 < j + 1
    BY <1>1, <1>3
  <2> QED BY <2>1, <1>7, <1>10 DEF Behind
<1>11. Acknowledges(s) <=> Acknowledges(t) \/ h.status \in {"idle", "setup-required"}
  BY <1>6, <1>7, <1>8 DEF Acknowledges
<1>12. LastOf(s) = IF t = <<>> THEN h ELSE LastOf(t)
  BY <1>1, <1>2, <1>3, <1>4, <1>5 DEF LastOf
<1> QED BY <1>2, <1>9, <1>10, <1>11, <1>12 DEF t, h

(* A stop marks the events under way and changes nothing else about them.  *)
LEMMA Marks ==
  ASSUME NEW s \in Seq(Reports)
  PROVE  /\ Marked(s) \in Seq(Reports)
         /\ Marked(s) = <<>> <=> s = <<>>
         /\ Acknowledges(Marked(s)) <=> Acknowledges(s)
         /\ s # <<>> => /\ LastOf(Marked(s)).speed = LastOf(s).speed
                        /\ LastOf(Marked(s)).status = LastOf(s).status
<1> DEFINE t == Marked(s)
<1>1. Len(s) \in Nat /\ DOMAIN s = 1..Len(s) /\ \A i \in DOMAIN s : s[i] \in Reports
  OBVIOUS
<1>2. DOMAIN t = 1..Len(s)
  BY <1>1 DEF Marked
<1>3. ASSUME NEW i \in 1..Len(s)
      PROVE  t[i] \in Reports /\ t[i].speed = s[i].speed /\ t[i].status = s[i].status
  BY <1>1 DEF Marked, Reports
<1>4. t \in [1..Len(s) -> Reports]
  BY <1>1, <1>3 DEF Marked
<1>5. t \in Seq(Reports) /\ Len(t) = Len(s)
  BY <1>1, <1>4
<1> HIDE DEF t
<1>6. t = <<>> <=> s = <<>>
  BY <1>1, <1>5
<1>7. Acknowledges(t) <=> Acknowledges(s)
  BY <1>1, <1>2, <1>3 DEF Acknowledges
<1>8. ASSUME s # <<>>
      PROVE  LastOf(t).speed = LastOf(s).speed /\ LastOf(t).status = LastOf(s).status
  <2>1. Len(s) \in 1..Len(s)
    BY <1>1, <1>8
  <2> QED BY <2>1, <1>3, <1>5 DEF LastOf
<1> QED BY <1>5, <1>6, <1>7, <1>8 DEF t

(* Nothing is in an empty pipe.                                            *)
LEMMA Empty ==
  /\ \A o : ~Holds(<<>>, o)
  /\ Behind(<<>>) /\ ~Acknowledges(<<>>)
BY DEF Holds, Behind, Acknowledges

(* The queue holds one command, which is its head.                         *)
LEMMA Single ==
  ASSUME NEW S, NEW c \in S
  PROVE  /\ Append(<<>>, c) = <<c>> /\ <<c>> # <<>>
         /\ Head(<<c>>) = c /\ Tail(<<c>>) = <<>>
OBVIOUS

(* What the service writes are lines.                                      *)
LEMMA LinesWritten ==
  /\ config \in 0..MaxConfig => Speak \in Lines
  /\ \A s \in AllSpeeds : SetSpeedTo(s) \in Lines
  /\ \A o \in {"stop", "status", "shutdown"} : Order(o) \in Lines
<1> USE LifecycleBounds, SpeedsAssumption
<1>1. 0 \in 0..MaxConfig /\ 0 \notin Speeds
  OBVIOUS
<1>2. config \in 0..MaxConfig => Speak \in Lines
  BY DEF Speak, Lines, Commands
<1>3. \A s \in AllSpeeds : SetSpeedTo(s) \in Lines
  BY <1>1 DEF SetSpeedTo, Lines, Commands, AllSpeeds
<1>4. \A o \in {"stop", "status", "shutdown"} : Order(o) \in Lines
  BY <1>1 DEF Order, Lines, Commands
<1> QED BY <1>2, <1>3, <1>4

-----------------------------------------------------------------------------
(* What the steps do to the lines under way.                               *)

(* A step that leaves the worker and the watch over it alone.              *)
LEMMA LinesKept ==
  ASSUME LifecycleInv,
         UNCHANGED <<process, watch, pending, stopPending, speed, idleTimer, missed, config>>
  PROVE  ProcessTypes' /\ LineInv'
BY DEF LifecycleInv, ProcessTypes, LineInv, process, watch, Running, WorkerStates, Lines,
   Commands,
       ShutInv, AckInv, SpeedInv, TimedInv

(* A command is written, queued behind an exit, or starts a worker.        *)
LEMMA LineWritten ==
  ASSUME LifecycleInv,
         NEW c \in Lines, c.op \in {"speak", "status", "set-speed"},
         c.op = "speak" => expectedWorkerExit \/ ~workerReplacementPending,
         expectedWorkerExit => pending = <<>>,
         speed' = speed \/ c.op = "set-speed",
         WorkerCommand(c), UNCHANGED <<watch, stopPending, missed, config>>
  PROVE  ProcessTypes' /\ LineInv'
<1> USE DEF LifecycleInv
<1>1. CASE expectedWorkerExit
  <2>1. pending' = <<c>> /\ UNCHANGED <<process, watch, stopPending, missed, idleTimer, config>>
    BY <1>1, Single DEF WorkerCommand
  <2>2. ProcessTypes'
    BY <2>1 DEF ProcessTypes, process, Running, WorkerStates, Lines, Commands
  <2>3. LineInv'
    BY <2>1, <1>1 DEF LineInv, process, watch, Running, ShutInv, AckInv, SpeedInv, TimedInv,
       FlowInv, GoneInv
  <2> QED BY <2>2, <2>3
<1>2. CASE ~expectedWorkerExit /\ Running
  <2>1. /\ stdin' = Append(stdin, c)
        /\ UNCHANGED <<proc, started, stdout, worker, pending, watch, stopPending, missed, config>>
    BY <1>2 DEF WorkerCommand, Write
  <2>2. /\ stdin' \in Seq(Lines) /\ stdin' # <<>>
        /\ \A o : Holds(stdin', o) <=> Holds(stdin, o) \/ c.op = o
        /\ Behind(stdin) /\ (c.op = "speak" => ~Holds(stdin, "shutdown")) => Behind(stdin')
    BY <2>1, Appended DEF ProcessTypes
  <2>3. ProcessTypes'
    BY <2>1, <2>2 DEF ProcessTypes, Running, WorkerStates, Lines, Commands
  <2>4. Behind(stdin') /\ ShutInv' /\ AckInv'
    BY <2>1, <2>2, <1>2 DEF LineInv, ShutInv, AckInv, Running, watch
  <2>5. SpeedInv' /\ TimedInv'
    BY <2>1, <2>2, <1>2 DEF LineInv, SpeedInv, TimedInv, watch
  <2> QED BY <2>3, <2>4, <2>5 DEF LineInv
<1>3. CASE ~expectedWorkerExit /\ ~Running
  <2>1. /\ proc' = "live" /\ started' = FALSE /\ stdin' = <<>> /\ stdout' = <<>>
        /\ worker' = [status |-> "boot", speed |-> DefaultSpeed, config |-> config]
        /\ pending' = Append(pending, c) /\ UNCHANGED <<watch, stopPending, missed, config>>
    BY <1>3 DEF WorkerCommand, Launch
  <2>2. pending = <<>> /\ ~stopPending
    BY <1>3 DEF FlowInv, GoneInv, PendingInv
  <2>3. pending' = <<c>>
    BY <2>1, <2>2, Single
  <2>4. worker' \in WorkerStates /\ worker'.status # "none" /\ worker'.speed \in AllSpeeds
    BY <2>1 DEF WorkerStates, AllSpeeds, ServiceTypes
  <2>5. stdin' \in Seq(Lines) /\ stdout' \in Seq(Reports)
    BY <2>1
  <2>6. ProcessTypes'
    <3>1. \E d \in Lines : d.op # "shutdown" /\ pending' = <<d>>
      BY <2>3
    <3> QED BY <2>1, <3>1, <2>4, <2>5 DEF ProcessTypes, Running, WorkerStates, Lines, Commands
  <2>7. LineInv'
    BY <2>1, <2>2, Empty DEF LineInv, ShutInv, AckInv, SpeedInv, TimedInv, watch
  <2> QED BY <2>6, <2>7
<1> QED BY <1>1, <1>2, <1>3

(* A replacement is asked for.                                             *)
LEMMA Replaced ==
  ASSUME LifecycleInv, RequestWorkerReplacement, config' \in 0..MaxConfig,
         UNCHANGED <<stopPending, missed, speed>>
  PROVE  ProcessTypes' /\ LineInv'
<1> USE DEF LifecycleInv
<1>1. CASE ~Running
  <2>1. UNCHANGED process /\ ~started /\ stdin = <<>> /\ pending' = <<>>
    BY <1>1 DEF RequestWorkerReplacement, FlowInv, GoneInv
  <2>2. ProcessTypes'
    BY <1>1, <2>1 DEF ProcessTypes, Running, process, WorkerStates, Lines, Commands
  <2>3. LineInv'
    BY <1>1, <2>1, Empty DEF LineInv, ShutInv, AckInv, SpeedInv, TimedInv, Running, process
  <2> QED BY <2>2, <2>3
<1>2. CASE Running
  <2>1. /\ expectedWorkerExit' /\ workerReplacementPending' /\ pending' = <<>>
        /\ stdin' = stdin \/ stdin' = Append(stdin, Shutdown)
        /\ UNCHANGED <<proc, started, stdout, worker>>
    BY <1>2 DEF RequestWorkerReplacement, Write, process
  <2>2. Shutdown \in Lines /\ Shutdown.op = "shutdown"
    BY LinesWritten DEF Shutdown, Order
  <2>3. /\ stdin' \in Seq(Lines) /\ Behind(stdin')
        /\ \A o : Holds(stdin, o) => Holds(stdin', o)
    <3>1. stdin \in Seq(Lines) /\ Behind(stdin)
      BY DEF ProcessTypes, LineInv
    <3>2. CASE stdin' = Append(stdin, Shutdown)
      <4>1. Shutdown.op # "speak"
        BY <2>2
      <4> QED BY <2>2, <3>1, <3>2, <4>1, Appended
    <3> QED BY <2>1, <3>1, <3>2
  <2>4. ProcessTypes'
    BY <2>1, <2>3 DEF ProcessTypes, Running, WorkerStates, Lines, Commands
  <2>5. LineInv'
    BY <2>1, <2>3 DEF LineInv, ShutInv, AckInv, SpeedInv, TimedInv, Running
  <2> QED BY <2>4, <2>5
<1> QED BY <1>1, <1>2

-----------------------------------------------------------------------------
(* One step at a time: the service.                                        *)

(* Steps of the captures and the voice manager that leave the worker and   *)
(* the watch over it alone.                                                *)
LEMMA TaskKeeps ==
  ASSUME LifecycleInv,
         \/ ReadSelection \/ ReadOcr \/ SelectVoice \/ RequestVoiceList \/ FinishCancelled
         \/ CaptureClears \/ CaptureRestores
  PROVE  LifecycleInv'
<1> USE DEF ui, watch, timers, tasks, process, shown, Busy, Statuses
<1>1. CASE ReadSelection
  <2>1. UNCHANGED <<process, watch, pending, stopPending, speed, idleTimer, missed, config>>
    BY <1>1 DEF ReadSelection
  <2>2. ServiceTypes'
    BY <1>1 DEF LifecycleInv, ServiceTypes, ReadSelection
  <2>3. FlowInv'
    BY <1>1 DEF LifecycleInv, ServiceTypes, ReadSelection, FlowInv, GoneInv, TimerInv,
       PendingInv, BootInv, ReplaceInv, OneCapture, OpenInv,
       StoppingIsAwaited, CanSubmit, Running
  <2> HIDE DEF ui, watch, timers, tasks, process, shown
  <2> QED BY <2>1, <2>2, <2>3, LinesKept DEF LifecycleInv
<1>2. CASE ReadOcr
  <2>1. UNCHANGED <<process, watch, pending, stopPending, speed, idleTimer, missed, config>>
    BY <1>2 DEF ReadOcr
  <2>2. ServiceTypes'
    BY <1>2 DEF LifecycleInv, ServiceTypes, ReadOcr
  <2>3. FlowInv'
    BY <1>2 DEF LifecycleInv, ServiceTypes, ReadOcr, FlowInv, GoneInv, TimerInv, PendingInv,
       BootInv, ReplaceInv, OneCapture, OpenInv,
       StoppingIsAwaited, CanSubmit, Running
  <2> HIDE DEF ui, watch, timers, tasks, process, shown
  <2> QED BY <2>1, <2>2, <2>3, LinesKept DEF LifecycleInv
<1>3. CASE SelectVoice
  <2>1. UNCHANGED <<process, watch, pending, stopPending, speed, idleTimer, missed, config>>
    BY <1>3 DEF SelectVoice
  <2>2. ServiceTypes'
    BY <1>3 DEF LifecycleInv, ServiceTypes, SelectVoice
  <2>3. FlowInv'
    BY <1>3 DEF LifecycleInv, ServiceTypes, SelectVoice, FlowInv, GoneInv, TimerInv,
       PendingInv, BootInv, ReplaceInv, OneCapture, OpenInv,
       StoppingIsAwaited, CanSubmit, Running
  <2> HIDE DEF ui, watch, timers, tasks, process, shown
  <2> QED BY <2>1, <2>2, <2>3, LinesKept DEF LifecycleInv
<1>4. CASE RequestVoiceList
  <2>1. UNCHANGED <<process, watch, pending, stopPending, speed, idleTimer, missed, config>>
    BY <1>4 DEF RequestVoiceList
  <2>2. ServiceTypes'
    BY <1>4 DEF LifecycleInv, ServiceTypes, RequestVoiceList
  <2>3. FlowInv'
    BY <1>4 DEF LifecycleInv, ServiceTypes, RequestVoiceList, FlowInv, GoneInv, TimerInv,
       PendingInv, BootInv, ReplaceInv, OneCapture, OpenInv,
       StoppingIsAwaited, CanSubmit, Running
  <2> HIDE DEF ui, watch, timers, tasks, process, shown
  <2> QED BY <2>1, <2>2, <2>3, LinesKept DEF LifecycleInv
<1>5. CASE FinishCancelled
  <2>1. UNCHANGED <<process, watch, pending, stopPending, speed, idleTimer, missed, config>>
    BY <1>5 DEF FinishCancelled
  <2>2. ServiceTypes'
    BY <1>5 DEF LifecycleInv, ServiceTypes, FinishCancelled
  <2>3. FlowInv'
    BY <1>5 DEF LifecycleInv, ServiceTypes, FinishCancelled, FlowInv, GoneInv, TimerInv,
       PendingInv, BootInv, ReplaceInv, OneCapture, OpenInv,
       StoppingIsAwaited, CanSubmit, Running
  <2> HIDE DEF ui, watch, timers, tasks, process, shown
  <2> QED BY <2>1, <2>2, <2>3, LinesKept DEF LifecycleInv
<1>6. CASE CaptureClears
  <2>1. UNCHANGED <<process, watch, pending, stopPending, speed, idleTimer, missed, config>>
    BY <1>6 DEF CaptureClears
  <2>2. ServiceTypes'
    BY <1>6 DEF LifecycleInv, ServiceTypes, CaptureClears
  <2>3. FlowInv'
    BY <1>6 DEF LifecycleInv, ServiceTypes, CaptureClears, FlowInv, GoneInv, TimerInv,
       PendingInv, BootInv, ReplaceInv, OneCapture, OpenInv,
       StoppingIsAwaited, CanSubmit, Running
  <2> HIDE DEF ui, watch, timers, tasks, process, shown
  <2> QED BY <2>1, <2>2, <2>3, LinesKept DEF LifecycleInv
<1>7. CASE CaptureRestores
  <2>1. UNCHANGED <<process, watch, pending, stopPending, speed, idleTimer, missed, config>>
    BY <1>7 DEF CaptureRestores
  <2>2. ServiceTypes'
    BY <1>7 DEF LifecycleInv, ServiceTypes, CaptureRestores
  <2>3. FlowInv'
    BY <1>7 DEF LifecycleInv, ServiceTypes, CaptureRestores, FlowInv, GoneInv, TimerInv,
       PendingInv, BootInv, ReplaceInv, OneCapture, OpenInv,
       StoppingIsAwaited, CanSubmit, Running
  <2> HIDE DEF ui, watch, timers, tasks, process, shown
  <2> QED BY <2>1, <2>2, <2>3, LinesKept DEF LifecycleInv
<1> QED BY <1>1, <1>2, <1>3, <1>4, <1>5, <1>6, <1>7

(* A command leaves the timer of the eviction alone or stops it.           *)
LEMMA CommandTimer ==
  ASSUME NEW c, WorkerCommand(c), idleTimer \in BOOLEAN
  PROVE  idleTimer' \in BOOLEAN
<1>1. idleTimer' = FALSE \/ idleTimer' = idleTimer
  BY DEF WorkerCommand
<1> QED BY <1>1

(* A replacement sets the watch and the timers.                            *)
LEMMA ReplacementTypes ==
  ASSUME RequestWorkerReplacement, ServiceTypes
  PROVE  /\ expectedWorkerExit' \in BOOLEAN /\ workerOutputSuppressed' \in BOOLEAN
         /\ workerReplacementPending' \in BOOLEAN
         /\ idleTimer' \in BOOLEAN /\ killTimer' \in BOOLEAN
<1>1. CASE Running
  BY <1>1 DEF RequestWorkerReplacement, ServiceTypes
<1>2. CASE ~Running
  BY <1>2 DEF RequestWorkerReplacement, ServiceTypes, timers
<1> QED BY <1>1, <1>2

(* Steps that give the worker a command.                                   *)
LEMMA CommandKeeps ==
  ASSUME LifecycleInv,
         \/ \E s \in Speeds : SetSpeed(s)
         \/ PrepareExternal \/ CaptureEnds \/ FinishRestore \/ FinishOcr
  PROVE  LifecycleInv'
<1> USE DEF ui, watch, timers, tasks, process, shown, Statuses, AllSpeeds
<1>1. Speak \in Lines /\ Speak.op = "speak"
  BY LinesWritten DEF LifecycleInv, ServiceTypes, Speak
<1>2. Order("status") \in Lines /\ Order("status").op = "status"
  BY LinesWritten DEF Order
<1>3. ASSUME NEW s \in Speeds, SetSpeed(s) PROVE LifecycleInv'
  <2>1. SetSpeedTo(s) \in Lines /\ SetSpeedTo(s).op = "set-speed"
    BY LinesWritten DEF SetSpeedTo
  <2>2. ServiceTypes'
    BY <1>3, CommandTimer DEF LifecycleInv, ServiceTypes, SetSpeed
  <2>3. FlowInv'
    BY <1>3 DEF LifecycleInv, ServiceTypes, SetSpeed, WorkerCommand, Launch, Write, FlowInv,
       GoneInv, TimerInv, PendingInv, BootInv, ReplaceInv, OneCapture, OpenInv,
         StoppingIsAwaited, CanSubmit, Running
  <2>4. CASE Running /\ ~expectedWorkerExit
    <3>1. WorkerCommand(SetSpeedTo(s)) /\ UNCHANGED <<watch, stopPending, missed, config>>
      BY <1>3, <2>4 DEF SetSpeed
    <3> QED BY <2>1, <2>2, <2>3, <2>4, <3>1, LineWritten DEF LifecycleInv
  <2>5. CASE ~(Running /\ ~expectedWorkerExit)
    <3>1. /\ UNCHANGED <<process, watch, pending, stopPending, idleTimer, missed, config>>
          /\ expectedWorkerExit \/ ~started
      BY <1>3, <2>5 DEF SetSpeed, LifecycleInv, FlowInv, GoneInv
    <3>2. ProcessTypes'
      BY <3>1 DEF LifecycleInv, ProcessTypes, Running, WorkerStates, Lines, Commands
    <3>3. LineInv'
      BY <3>1 DEF LifecycleInv, LineInv, ShutInv, AckInv, SpeedInv, TimedInv, Running
    <3> QED BY <2>2, <2>3, <3>2, <3>3 DEF LifecycleInv
  <2> QED BY <2>4, <2>5
<1>4. CASE PrepareExternal
  <2>1. ServiceTypes'
    BY <1>4, CommandTimer DEF LifecycleInv, ServiceTypes, PrepareExternal
  <2>2. FlowInv'
    BY <1>4 DEF LifecycleInv, ServiceTypes, PrepareExternal, WorkerCommand, Launch, Write,
         FlowInv, GoneInv, TimerInv, PendingInv, BootInv, ReplaceInv, OneCapture, OpenInv,
         StoppingIsAwaited, CanSubmit, Running
  <2>3. /\ WorkerCommand(Order("status")) /\ ~expectedWorkerExit
        /\ UNCHANGED <<watch, stopPending, missed, config, speed>>
    BY <1>4 DEF PrepareExternal
  <2> QED BY <1>2, <2>1, <2>2, <2>3, LineWritten DEF LifecycleInv
<1>5. CASE CaptureEnds
  <2>1. ServiceTypes'
    BY <1>5, CommandTimer DEF LifecycleInv, ServiceTypes, CaptureEnds, Submit
  <2>2. FlowInv'
    BY <1>5 DEF LifecycleInv, ServiceTypes, CaptureEnds, Submit, WorkerCommand, Launch, Write,
         FlowInv, GoneInv, TimerInv, PendingInv, BootInv, ReplaceInv, OneCapture, OpenInv,
         StoppingIsAwaited, CanSubmit, Running
  <2>3. CASE WorkerCommand(Speak) /\ CanSubmit
    <3>1. UNCHANGED <<watch, stopPending, missed, config, speed>>
      BY <1>5 DEF CaptureEnds
    <3>2. /\ expectedWorkerExit => pending = <<>>
          /\ expectedWorkerExit \/ ~workerReplacementPending
      BY <2>3 DEF LifecycleInv, FlowInv, PendingInv, ReplaceInv
    <3> QED BY <1>1, <2>1, <2>2, <2>3, <3>1, <3>2, LineWritten DEF LifecycleInv
  <2>4. CASE UNCHANGED <<pending, idleTimer, process>>
    <3>1. UNCHANGED <<process, watch, pending, stopPending, speed, idleTimer, missed, config>>
      BY <1>5, <2>4 DEF CaptureEnds
    <3> HIDE DEF ui, watch, timers, tasks, process, shown
    <3> QED BY <2>1, <2>2, <3>1, LinesKept DEF LifecycleInv
  <2> QED BY <1>5, <2>3, <2>4 DEF CaptureEnds, Submit, CanSubmit
<1>6. CASE FinishRestore
  <2>1. ServiceTypes'
    BY <1>6, CommandTimer DEF LifecycleInv, ServiceTypes, FinishRestore, Submit
  <2>2. FlowInv'
    BY <1>6 DEF LifecycleInv, ServiceTypes, FinishRestore, Submit, WorkerCommand, Launch, Write,
         FlowInv, GoneInv, TimerInv, PendingInv, BootInv, ReplaceInv, OneCapture, OpenInv,
         StoppingIsAwaited, CanSubmit, Running
  <2>3. CASE WorkerCommand(Speak) /\ CanSubmit
    <3>1. UNCHANGED <<watch, stopPending, missed, config, speed>>
      BY <1>6 DEF FinishRestore
    <3>2. /\ expectedWorkerExit => pending = <<>>
          /\ expectedWorkerExit \/ ~workerReplacementPending
      BY <2>3 DEF LifecycleInv, FlowInv, PendingInv, ReplaceInv
    <3> QED BY <1>1, <2>1, <2>2, <2>3, <3>1, <3>2, LineWritten DEF LifecycleInv
  <2>4. CASE UNCHANGED <<pending, idleTimer, process>>
    <3>1. UNCHANGED <<process, watch, pending, stopPending, speed, idleTimer, missed, config>>
      BY <1>6, <2>4 DEF FinishRestore
    <3> HIDE DEF ui, watch, timers, tasks, process, shown
    <3> QED BY <2>1, <2>2, <3>1, LinesKept DEF LifecycleInv
  <2> QED BY <1>6, <2>3, <2>4 DEF FinishRestore, Submit, CanSubmit
<1>7. CASE FinishOcr
  <2>1. ServiceTypes'
    BY <1>7, CommandTimer DEF LifecycleInv, ServiceTypes, FinishOcr, Submit
  <2>2. FlowInv'
    BY <1>7 DEF LifecycleInv, ServiceTypes, FinishOcr, Submit, WorkerCommand, Launch, Write,
         FlowInv, GoneInv, TimerInv, PendingInv, BootInv, ReplaceInv, OneCapture, OpenInv,
         StoppingIsAwaited, CanSubmit, Running
  <2>3. CASE WorkerCommand(Speak) /\ CanSubmit
    <3>1. UNCHANGED <<watch, stopPending, missed, config, speed>>
      BY <1>7 DEF FinishOcr
    <3>2. /\ expectedWorkerExit => pending = <<>>
          /\ expectedWorkerExit \/ ~workerReplacementPending
      BY <2>3 DEF LifecycleInv, FlowInv, PendingInv, ReplaceInv
    <3> QED BY <1>1, <2>1, <2>2, <2>3, <3>1, <3>2, LineWritten DEF LifecycleInv
  <2>4. CASE UNCHANGED <<pending, idleTimer, process>>
    <3>1. UNCHANGED <<process, watch, pending, stopPending, speed, idleTimer, missed, config>>
      BY <1>7, <2>4 DEF FinishOcr
    <3> HIDE DEF ui, watch, timers, tasks, process, shown
    <3> QED BY <2>1, <2>2, <3>1, LinesKept DEF LifecycleInv
  <2> QED BY <1>7, <2>3, <2>4 DEF FinishOcr, Submit, CanSubmit
<1> QED BY <1>3, <1>4, <1>5, <1>6, <1>7

(* Steps that may ask for another worker.                                  *)
LEMMA ReplaceKeeps ==
  ASSUME LifecycleInv, SetBackend \/ FinishVoiceManager
  PROVE  LifecycleInv'
<1> USE LifecycleBounds DEF ui, watch, timers, tasks, process, shown, Statuses, AllSpeeds
<1>1. CASE SetBackend
  <2>1. ServiceTypes'
    BY <1>1, ReplacementTypes DEF LifecycleInv, ServiceTypes, SetBackend
  <2>2. FlowInv'
    BY <1>1 DEF LifecycleInv, ServiceTypes, SetBackend, RequestWorkerReplacement, Write, Busy,
         FlowInv, GoneInv, TimerInv, PendingInv, BootInv, ReplaceInv, OneCapture, OpenInv,
         StoppingIsAwaited, CanSubmit, Running
  <2>3. UNCHANGED <<stopPending, speed, missed>> /\ config' \in 0..MaxConfig
    BY <1>1, <2>1 DEF SetBackend, ServiceTypes
  <2> QED BY <1>1, <2>1, <2>2, <2>3, Replaced DEF SetBackend, LifecycleInv
<1>2. CASE FinishVoiceManager
  <2>1. ServiceTypes'
    BY <1>2, ReplacementTypes DEF LifecycleInv, ServiceTypes, FinishVoiceManager
  <2>2. FlowInv'
    BY <1>2 DEF LifecycleInv, ServiceTypes, FinishVoiceManager, RequestWorkerReplacement,
       Write, Busy,
         FlowInv, GoneInv, TimerInv, PendingInv, BootInv, ReplaceInv, OneCapture, OpenInv,
         StoppingIsAwaited, CanSubmit, Running
  <2>3. UNCHANGED <<stopPending, speed, missed>> /\ config' \in 0..MaxConfig
    BY <1>2, <2>1 DEF FinishVoiceManager, ServiceTypes
  <2>4. CASE RequestWorkerReplacement
    BY <2>1, <2>2, <2>3, <2>4, Replaced DEF LifecycleInv
  <2>5. CASE UNCHANGED <<watch, pending, timers, process>>
    <3>1. ProcessTypes'
      BY <2>5 DEF LifecycleInv, ProcessTypes, Running, WorkerStates, Lines, Commands
    <3>2. LineInv'
      BY <2>3, <2>5 DEF LifecycleInv, LineInv, ShutInv, AckInv, SpeedInv, TimedInv, Running
    <3> QED BY <2>1, <2>2, <3>1, <3>2 DEF LifecycleInv
  <2> QED BY <1>2, <2>4, <2>5 DEF FinishVoiceManager
<1> QED BY <1>1, <1>2

(* Steps that only end the process.                                        *)
LEMMA DeathKeeps ==
  ASSUME LifecycleInv, KillTimerFires \/ Die
  PROVE  LifecycleInv'
<1> USE DEF ui, watch, timers, tasks, process, shown
<1>1. /\ UNCHANGED <<started, stdin, stdout, worker, pending, watch, stopPending, speed,
                     idleTimer, missed, config>>
      /\ proc' \in {"live", "dead", "absent"} /\ (Running' <=> Running)
  BY DEF KillTimerFires, Die, Running, LifecycleInv, ProcessTypes
<1>2. ServiceTypes'
  <2>1. killTimer' \in BOOLEAN
    BY DEF LifecycleInv, ServiceTypes, KillTimerFires, Die
  <2>2. UNCHANGED <<ui, watch, idleTimer, config, tasks, shown>>
    BY DEF KillTimerFires, Die
  <2> QED BY <2>1, <2>2 DEF LifecycleInv, ServiceTypes
<1>3. FlowInv'
  BY <1>1 DEF LifecycleInv, KillTimerFires, Die, FlowInv, GoneInv, TimerInv, PendingInv,
     BootInv, ReplaceInv, OneCapture, OpenInv,
         StoppingIsAwaited, CanSubmit, Running
<1>4. ProcessTypes'
  BY <1>1 DEF LifecycleInv, ProcessTypes, Running, WorkerStates, Lines, Commands
<1>5. LineInv'
  BY <1>1 DEF LifecycleInv, LineInv, ShutInv, AckInv, SpeedInv, TimedInv
<1> QED BY <1>2, <1>3, <1>4, <1>5 DEF LifecycleInv

LEMMA StopKeeps ==
  ASSUME LifecycleInv, Stop
  PROVE  LifecycleInv'
<1> USE DEF ui, watch, timers, tasks, process, shown
<1>1. ServiceTypes'
  BY DEF LifecycleInv, ServiceTypes, Stop, CancelCapture, CancelVoiceManager, Statuses, Running
<1>2. FlowInv'
  <2>1. stdin = <<>> /\ stdout = <<>> /\ ~Running => stdin' = <<>> /\ stdout' = <<>>
    <3>1. stdout' = Marked(stdout)
      BY DEF Stop, Marked
    <3> QED BY <3>1, Marks DEF LifecycleInv, ProcessTypes, Stop
  <2>2. ~CanSubmit'
    BY DEF Stop, CancelCapture, CanSubmit, LifecycleInv, ServiceTypes
  <2>3. ocr' # "busy"
    BY DEF Stop
  <2>4. /\ pending' = <<>> /\ idleTimer' = FALSE /\ stopPending' = Running
        /\ status' = "stopping" => Running
        /\ UNCHANGED <<watch, killTimer, proc, started>>
    BY DEF Stop
  <2> QED BY <2>1, <2>2, <2>3, <2>4
      DEF LifecycleInv, FlowInv, GoneInv, TimerInv, PendingInv, BootInv, ReplaceInv,
          OneCapture, OpenInv, StoppingIsAwaited, Running
<1>3. /\ UNCHANGED <<proc, started, worker, watch, speed, missed, config>> /\ pending' = <<>>
      /\ stdin' = IF Running THEN Append(stdin, Order("stop")) ELSE stdin
      /\ stdout' = Marked(stdout) /\ stopPending' = Running
  BY DEF Stop, Marked
<1>4. /\ stdout' \in Seq(Reports)
      /\ stdout' = <<>> <=> stdout = <<>>
      /\ stdout # <<>> => /\ LastOf(stdout').speed = LastOf(stdout).speed
                          /\ LastOf(stdout').status = LastOf(stdout).status
  BY <1>3, Marks DEF LifecycleInv, ProcessTypes
<1>5. CASE Running
  <2>1. Order("stop") \in Lines /\ Order("stop").op = "stop"
    BY LinesWritten DEF Order
  <2>2. /\ stdin' \in Seq(Lines) /\ stdin' # <<>>
        /\ \A o : Holds(stdin', o) <=> Holds(stdin, o) \/ o = "stop"
        /\ Behind(stdin')
    <3>1. stdin' = Append(stdin, Order("stop")) /\ stdin \in Seq(Lines) /\ Behind(stdin)
      BY <1>3, <1>5 DEF LifecycleInv, ProcessTypes, LineInv
    <3> QED BY <2>1, <3>1, Appended
  <2>3. ProcessTypes'
    BY <1>3, <1>4, <2>2 DEF LifecycleInv, ProcessTypes, Running, WorkerStates, Lines, Commands
  <2>4. LineInv'
    BY <1>3, <1>4, <2>2 DEF LifecycleInv, LineInv, ShutInv, AckInv, SpeedInv, TimedInv
  <2> QED BY <1>1, <1>2, <2>3, <2>4 DEF LifecycleInv
<1>6. CASE ~Running
  <2>1. stdin' = stdin /\ ~started
    BY <1>3, <1>6 DEF LifecycleInv, FlowInv, GoneInv
  <2>2. ProcessTypes'
    BY <1>3, <1>4, <1>6, <2>1
       DEF LifecycleInv, ProcessTypes, Running, WorkerStates, Lines, Commands
  <2>3. LineInv'
    BY <1>3, <1>6, <2>1 DEF LifecycleInv, LineInv, ShutInv, AckInv, SpeedInv, TimedInv, Running
  <2> QED BY <1>1, <1>2, <2>2, <2>3 DEF LifecycleInv
<1> QED BY <1>5, <1>6

(* The start of the process flushes the queue, behind the speed.           *)
LEMMA StartKeeps ==
  ASSUME LifecycleInv, OnStarted
  PROVE  LifecycleInv'
<1> USE DEF ui, watch, timers, tasks, process, shown
<1>1. ServiceTypes'
  <2>1. /\ expectedWorkerExit' \in BOOLEAN /\ workerOutputSuppressed' \in BOOLEAN
        /\ idleTimer' \in BOOLEAN
    BY DEF OnStarted
  <2>2. UNCHANGED <<ui, workerReplacementPending, killTimer, config, tasks, shown>>
    BY DEF OnStarted
  <2> QED BY <2>1, <2>2 DEF LifecycleInv, ServiceTypes
<1>2. FlowInv'
  BY DEF LifecycleInv, OnStarted, FlowInv, GoneInv, TimerInv, PendingInv, BootInv, ReplaceInv,
     OneCapture, OpenInv,
         StoppingIsAwaited, CanSubmit, Running
<1> DEFINE told == Append(stdin, SetSpeedTo(speed))
<1>3. SetSpeedTo(speed) \in Lines /\ SetSpeedTo(speed).op = "set-speed"
  BY LinesWritten DEF SetSpeedTo, LifecycleInv, ServiceTypes
<1>4. stdin \in Seq(Lines) /\ Behind(stdin)
  BY DEF LifecycleInv, ProcessTypes, LineInv
<1>5. /\ told \in Seq(Lines) /\ told # <<>> /\ Behind(told)
      /\ \A o : Holds(told, o) <=> Holds(stdin, o) \/ o = "set-speed"
  BY <1>3, <1>4, Appended
<1>6. Holds(stdin, "shutdown") => expectedWorkerExit /\ workerReplacementPending
  BY DEF LifecycleInv, LineInv, ShutInv, FlowInv, BootInv, OnStarted
<1>7. /\ stdin' \in Seq(Lines) /\ stdin' # <<>> /\ Behind(stdin')
      /\ Holds(stdin', "set-speed")
      /\ Holds(stdin', "shutdown") => Holds(stdin, "shutdown")
      /\ Holds(stdin, "stop") => Holds(stdin', "stop")
  <2>1. CASE pending = <<>>
    <3>1. stdin' = told
      BY <1>3, <1>4, <2>1 DEF OnStarted
    <3> QED BY <1>5, <3>1
  <2>2. CASE pending # <<>>
    <3>1. PICK c \in Lines : c.op # "shutdown" /\ pending = <<c>>
      BY <2>2 DEF LifecycleInv, ProcessTypes
    <3>2. stdin' = Append(told, c)
      BY <1>3, <1>4, <3>1 DEF OnStarted
    <3>3. ~Holds(stdin, "shutdown")
      BY <2>2, <1>6 DEF LifecycleInv, FlowInv, PendingInv, OnStarted
    <3> HIDE DEF told
    <3> QED BY <1>5, <3>1, <3>2, <3>3, Appended
  <2> QED BY <2>1, <2>2
<1>8. /\ UNCHANGED <<proc, stdout, worker, workerReplacementPending, stopPending, config>>
      /\ started' = TRUE /\ expectedWorkerExit' = FALSE /\ pending' = <<>> /\ Running /\ ~started
  BY DEF OnStarted
<1> HIDE DEF told
<1>9. ProcessTypes'
  BY <1>7, <1>8 DEF LifecycleInv, ProcessTypes, Running, WorkerStates, Lines, Commands
<1>10. LineInv'
  BY <1>6, <1>7, <1>8 DEF LifecycleInv, LineInv, ShutInv, AckInv, SpeedInv, TimedInv
<1> QED BY <1>1, <1>2, <1>9, <1>10 DEF LifecycleInv

(* An event is read.                                                       *)
LEMMA ReadKeeps ==
  ASSUME LifecycleInv, OnRead
  PROVE  LifecycleInv'
<1> USE DEF ui, watch, timers, tasks, process, shown
<1> DEFINE e == Head(stdout)
<1>1. /\ stdout \in Seq(Reports) /\ stdout # <<>> /\ started /\ stdout' = Tail(stdout)
      /\ UNCHANGED <<watch, pending, killTimer, config, tasks, proc, started, stdin, worker>>
  BY DEF LifecycleInv, ProcessTypes, OnRead
<1>2. /\ e \in Reports /\ stdout' \in Seq(Reports)
      /\ Acknowledges(stdout) <=> Acknowledges(stdout') \/ e.status \in {"idle", "setup-required"}
      /\ LastOf(stdout) = IF stdout' = <<>> THEN e ELSE LastOf(stdout')
  BY <1>1, Taken
<1>3. IF workerOutputSuppressed \/ expectedWorkerExit
        THEN UNCHANGED <<ui, idleTimer, shown>>
        ELSE Handle(e) /\ speed' = e.speed
  BY DEF OnRead
<1> HIDE DEF e
<1>4. ProcessTypes'
  BY <1>1, <1>2 DEF LifecycleInv, ProcessTypes, Running, WorkerStates, Lines, Commands
<1>5. CASE expectedWorkerExit
  <2>1. ServiceTypes'
    BY <1>1, <1>3, <1>5 DEF LifecycleInv, ServiceTypes
  <2>2. FlowInv'
    BY <1>1, <1>3, <1>5 DEF LifecycleInv, FlowInv, GoneInv, TimerInv, PendingInv, BootInv,
       ReplaceInv, OneCapture, OpenInv,
         StoppingIsAwaited, CanSubmit, Running
  <2>3. LineInv'
    BY <1>1, <1>3, <1>5 DEF LifecycleInv, LineInv, ShutInv, AckInv, SpeedInv, TimedInv
  <2> QED BY <1>4, <2>1, <2>2, <2>3 DEF LifecycleInv
<1>6. CASE ~expectedWorkerExit
  <2>1. Handle(e) /\ speed' = e.speed
    BY <1>1, <1>3, <1>6 DEF LifecycleInv, FlowInv, OpenInv
  <2>2. /\ e.status \in {"idle", "loading", "speaking", "error", "setup-required"}
        /\ e.speed \in AllSpeeds /\ e.stale \in BOOLEAN
    BY <1>2 DEF Reports
  <2>3. CASE stopPending /\ e.status \notin {"idle", "setup-required"}
    <3>1. status' = "stopping" /\ UNCHANGED <<stopPending, idleTimer, shown>>
      BY <2>1, <2>3 DEF Handle
    <3>2. ServiceTypes'
      BY <1>1, <2>1, <2>2, <3>1 DEF LifecycleInv, ServiceTypes, Statuses
    <3>3. FlowInv'
      BY <1>1, <2>3, <3>1 DEF LifecycleInv, FlowInv, GoneInv, TimerInv, PendingInv, BootInv,
         ReplaceInv, OneCapture, OpenInv,
         StoppingIsAwaited, CanSubmit, Running
    <3>4. Holds(stdin, "stop") \/ Acknowledges(stdout')
      BY <1>1, <1>2, <1>6, <2>3 DEF LifecycleInv, LineInv, AckInv, FlowInv, GoneInv
    <3>5. stdin = <<>> => stdout' # <<>>
      BY <3>4, Empty
    <3>6. LineInv'
      BY <1>1, <1>2, <2>1, <3>1, <3>4, <3>5
         DEF LifecycleInv, LineInv, ShutInv, AckInv, SpeedInv, TimedInv
    <3> QED BY <1>4, <3>2, <3>3, <3>6 DEF LifecycleInv
  <2>4. CASE ~(stopPending /\ e.status \notin {"idle", "setup-required"})
    <3>1. /\ stopPending' = FALSE /\ status' = e.status /\ stale' = e.stale
          /\ missed' = (e.status \in RestStatuses /\ captureStage # "idle" /\ ~idleTimer)
          /\ idleTimer' = IF e.status \notin RestStatuses THEN FALSE
                          ELSE IF captureStage = "idle" THEN TRUE ELSE idleTimer
      BY <2>1, <2>4 DEF Handle, Misses
    <3>2. idleTimer' \in BOOLEAN /\ missed' \in BOOLEAN
      BY <3>1 DEF LifecycleInv, ServiceTypes
    <3>3. ServiceTypes'
      <4>1. /\ status' \in Statuses /\ stopPending' \in BOOLEAN /\ speed' \in AllSpeeds
            /\ stale' \in BOOLEAN
        BY <2>1, <2>2, <3>1 DEF Statuses
      <4> QED BY <1>1, <3>2, <4>1 DEF LifecycleInv, ServiceTypes, AllSpeeds
    <3>4. FlowInv'
      BY <1>1, <2>2, <3>1, <3>2 DEF LifecycleInv, ServiceTypes, FlowInv, GoneInv, TimerInv,
         PendingInv, BootInv, ReplaceInv, OneCapture, OpenInv,
         StoppingIsAwaited, CanSubmit, Running
    <3>5. e.status \in RestStatuses => idleTimer' \/ missed'
      BY <3>1 DEF LifecycleInv, ServiceTypes
    <3>6. LineInv'
      BY <1>1, <1>2, <1>6, <2>1, <3>1, <3>5
         DEF LifecycleInv, LineInv, ShutInv, AckInv, SpeedInv, TimedInv
    <3> QED BY <1>4, <3>3, <3>4, <3>6 DEF LifecycleInv
  <2> QED BY <2>3, <2>4
<1> QED BY <1>5, <1>6

(* The process has gone, and another one may start with what was queued.   *)
LEMMA ExitKeeps ==
  ASSUME LifecycleInv, OnExited
  PROVE  LifecycleInv'
<1> USE DEF ui, watch, timers, tasks, process, shown
<1>1. /\ idleTimer' = FALSE /\ killTimer' = FALSE /\ workerOutputSuppressed' = TRUE
      /\ stopPending' = FALSE /\ expectedWorkerExit' = FALSE
      /\ UNCHANGED <<speed, config, tasks, shown>> /\ started
  BY DEF OnExited, ExitedAsExpected, ExitedUnexpectedly
<1>2. /\ status' \in Statuses \ {"stopping"}
      /\ workerReplacementPending' \in BOOLEAN
      /\ workerReplacementPending' => workerReplacementPending /\ ~expectedWorkerExit
  <2>1. CASE ExitedAsExpected
    BY <2>1 DEF ExitedAsExpected, Statuses
  <2>2. CASE ExitedUnexpectedly
    BY <2>2 DEF ExitedUnexpectedly, LifecycleInv, ServiceTypes, Statuses, Busy
  <2> QED BY <2>1, <2>2 DEF OnExited
<1>3. ServiceTypes'
  <2>1. /\ idleTimer' \in BOOLEAN /\ killTimer' \in BOOLEAN /\ workerOutputSuppressed' \in BOOLEAN
        /\ stopPending' \in BOOLEAN /\ expectedWorkerExit' \in BOOLEAN
    BY <1>1
  <2>2. status' \in Statuses
    BY <1>2
  <2> QED BY <1>1, <1>2, <2>1, <2>2 DEF LifecycleInv, ServiceTypes
<1>4. CASE Vanish(<<>>)
  <2>1. /\ proc' = "absent" /\ started' = FALSE /\ stdin' = <<>> /\ stdout' = <<>>
        /\ worker' = NoWorker /\ pending' = <<>>
    BY <1>4 DEF Vanish
  <2>2. worker' \in WorkerStates
    BY <2>1, LifecycleBounds DEF NoWorker, WorkerStates
  <2>3. stdin' \in Seq(Lines) /\ stdout' \in Seq(Reports)
    BY <2>1
  <2>4. ProcessTypes'
    BY <2>1, <2>2, <2>3 DEF ProcessTypes, Running, WorkerStates, Lines, Commands
  <2>5. FlowInv'
    BY <1>1, <1>2, <2>1 DEF LifecycleInv, FlowInv, GoneInv, TimerInv, PendingInv, BootInv,
       ReplaceInv, OneCapture, OpenInv,
         StoppingIsAwaited, CanSubmit, Running
  <2>6. LineInv'
    BY <1>1, <2>1, Empty DEF LineInv, ShutInv, AckInv, SpeedInv, TimedInv
  <2> QED BY <1>3, <2>4, <2>5, <2>6 DEF LifecycleInv
<1>5. CASE ~Vanish(<<>>)
  <2>1. /\ pending # <<>> /\ expectedWorkerExit
        /\ workerReplacementPending' = FALSE
        /\ proc' = "live" /\ started' = FALSE /\ stdin' = Tail(pending) /\ stdout' = <<>>
        /\ worker' = [status |-> "boot", speed |-> DefaultSpeed, config |-> config]
        /\ pending' = <<Head(pending)>>
    <3>1. ~expectedWorkerExit => pending = <<>>
      BY <1>1 DEF LifecycleInv, FlowInv, PendingInv
    <3>2. CASE ExitedUnexpectedly
      BY <3>1, <3>2, <1>5 DEF ExitedUnexpectedly
    <3>3. CASE ExitedAsExpected
      BY <3>3, <1>5 DEF ExitedAsExpected, Replay
    <3> QED BY <3>2, <3>3 DEF OnExited
  <2>2. ~CanSubmit /\ UNCHANGED <<captureStage, restore, ocr>>
    BY <1>1, <2>1 DEF LifecycleInv, FlowInv, PendingInv
  <2>3. PICK c \in Lines : c.op # "shutdown" /\ pending = <<c>>
    BY <2>1 DEF LifecycleInv, ProcessTypes
  <2>4. stdin' = <<>> /\ pending' = <<c>> /\ pending' # <<>>
    BY <2>1, <2>3, Single
  <2>5. worker' \in WorkerStates /\ worker'.status # "none" /\ worker'.speed \in AllSpeeds
    BY <2>1 DEF WorkerStates, AllSpeeds, LifecycleInv, ServiceTypes
  <2>6. stdin' \in Seq(Lines) /\ stdout' \in Seq(Reports)
    <3>1. stdin' = <<>> /\ stdout' = <<>>
      BY <2>1, <2>4
    <3> QED BY ONLY <3>1
  <2>7. ProcessTypes'
    <3>1. \E d \in Lines : d.op # "shutdown" /\ pending' = <<d>>
      BY <2>3, <2>4
    <3> QED BY <2>1, <3>1, <2>5, <2>6 DEF ProcessTypes, Running, WorkerStates, Lines, Commands
  <2>8. FlowInv'
    BY <1>1, <1>2, <2>1, <2>2, <2>4 DEF LifecycleInv, FlowInv, GoneInv, TimerInv, PendingInv,
       BootInv, ReplaceInv, OneCapture, OpenInv,
         StoppingIsAwaited, CanSubmit, Running
  <2>9. LineInv'
    BY <1>1, <2>1, <2>4, Empty DEF LineInv, ShutInv, AckInv, SpeedInv, TimedInv
  <2> QED BY <1>3, <2>7, <2>8, <2>9 DEF LifecycleInv
<1> QED BY <1>4, <1>5

(* An idle worker is told to shut down.                                    *)
LEMMA EvictionKeeps ==
  ASSUME LifecycleInv, IdleTimerFires
  PROVE  LifecycleInv'
<1> USE DEF ui, watch, timers, tasks, process, shown
<1>1. UNCHANGED <<ui, pending, config, tasks, shown>> /\ idleTimer /\ started
  BY DEF IdleTimerFires, LifecycleInv, FlowInv, TimerInv
<1>2. CASE UNCHANGED <<watch, timers, process>>
  <2>1. ServiceTypes'
    BY <1>1, <1>2 DEF LifecycleInv, ServiceTypes
  <2>2. FlowInv'
    BY <1>1, <1>2 DEF LifecycleInv, FlowInv, GoneInv, TimerInv, PendingInv, BootInv,
       ReplaceInv, OneCapture, OpenInv,
         StoppingIsAwaited, CanSubmit, Running
  <2>3. UNCHANGED <<process, watch, pending, stopPending, speed, idleTimer, missed, config>>
    <3>1. UNCHANGED <<process, watch, idleTimer>>
      BY <1>2
    <3>2. UNCHANGED <<pending, stopPending, speed, missed, config>>
      BY <1>1
    <3> QED BY <3>1, <3>2
  <2> HIDE DEF ui, watch, timers, tasks, process, shown
  <2> QED BY <2>1, <2>2, <2>3, LinesKept DEF LifecycleInv
<1>3. CASE /\ expectedWorkerExit' = TRUE /\ workerOutputSuppressed' = TRUE
           /\ Write(Shutdown)
           /\ idleTimer' = FALSE /\ killTimer' = TRUE
           /\ UNCHANGED workerReplacementPending
  <2>1. ServiceTypes'
    <3>1. /\ expectedWorkerExit' \in BOOLEAN /\ workerOutputSuppressed' \in BOOLEAN
          /\ idleTimer' \in BOOLEAN /\ killTimer' \in BOOLEAN
      BY <1>3
    <3> QED BY <1>1, <1>3, <3>1 DEF LifecycleInv, ServiceTypes
  <2>2. /\ stdin' = Append(stdin, Shutdown) /\ stdin \in Seq(Lines) /\ Behind(stdin)
        /\ UNCHANGED <<proc, started, stdout, worker>>
    BY <1>3 DEF Write, LifecycleInv, ProcessTypes, LineInv
  <2>3. Shutdown \in Lines /\ Shutdown.op # "speak"
    BY LinesWritten DEF Shutdown, Order
  <2>4. stdin' \in Seq(Lines) /\ Behind(stdin')
    BY <2>2, <2>3, Appended
  <2>5. FlowInv'
    BY <1>1, <1>3, <2>2 DEF LifecycleInv, FlowInv, GoneInv, TimerInv, PendingInv, BootInv,
       ReplaceInv, OneCapture, OpenInv,
         StoppingIsAwaited, CanSubmit, Running
  <2>6. ProcessTypes'
    BY <1>1, <2>2, <2>4 DEF LifecycleInv, ProcessTypes, Running, WorkerStates, Lines, Commands
  <2>7. LineInv'
    BY <1>1, <1>3, <2>2, <2>4 DEF LifecycleInv, LineInv, ShutInv, AckInv, SpeedInv, TimedInv
  <2> QED BY <2>1, <2>5, <2>6, <2>7 DEF LifecycleInv
<1> QED BY <1>2, <1>3 DEF IdleTimerFires

-----------------------------------------------------------------------------
(* One step at a time: the worker.                                         *)

(* An event is emitted, whether a line was taken before it or not.         *)
LEMMA Emitted ==
  ASSUME LifecycleInv, CanEmit,
         NEW w, w \in WorkerStates, w.speed \in AllSpeeds,
         w.status \in {"idle", "loading", "speaking", "error", "setup-required"},
         Emit(w),
         \/ stdin' = stdin
         \/ /\ stdin # <<>> /\ stdin' = Tail(stdin)
            /\ Head(stdin).op = "stop" => w.status = "idle",
         UNCHANGED <<ui, watch, pending, timers, config, tasks, proc, started, shown>>
  PROVE  LifecycleInv'
<1> USE DEF ui, watch, timers, tasks, process, shown
<1> DEFINE e == [status |-> w.status, speed |-> w.speed,
                 stale |-> \E i \in DOMAIN stdin : stdin[i].op = "stop"]
<1>1. e.status = w.status /\ e.speed = w.speed
  OBVIOUS
<1>2. e \in Reports
  <2>1. (\E i \in DOMAIN stdin : stdin[i].op = "stop") \in BOOLEAN
    OBVIOUS
  <2> QED BY <2>1 DEF Reports
<1>3. stdout' = Append(stdout, e) /\ worker' = w
  BY DEF Emit
<1> HIDE DEF e
<1>4. /\ stdout' \in Seq(Reports) /\ stdout' # <<>> /\ LastOf(stdout') = e
      /\ Acknowledges(stdout') <=> Acknowledges(stdout) \/ e.status \in {"idle", "setup-required"}
  BY <1>2, <1>3, Appended DEF LifecycleInv, ProcessTypes
<1>5. /\ stdin' \in Seq(Lines) /\ Behind(stdin')
      /\ \A o : Holds(stdin', o) => Holds(stdin, o)
      /\ Holds(stdin, "stop") => Holds(stdin', "stop") \/ e.status = "idle"
  <2>1. stdin \in Seq(Lines) /\ Behind(stdin)
    BY DEF LifecycleInv, ProcessTypes, LineInv
  <2>2. CASE stdin' = stdin
    BY <2>1, <2>2
  <2>3. CASE /\ stdin # <<>> /\ stdin' = Tail(stdin)
             /\ Head(stdin).op = "stop" => w.status = "idle"
    BY <2>1, <2>3, <1>1, Taken
  <2> QED BY <2>2, <2>3
<1>6. ServiceTypes'
  BY DEF LifecycleInv, ServiceTypes
<1>7. FlowInv'
  BY DEF LifecycleInv, CanEmit, FlowInv, GoneInv, TimerInv, PendingInv, BootInv, ReplaceInv,
     OneCapture, OpenInv,
         StoppingIsAwaited, CanSubmit, Running
<1>8. ProcessTypes'
  BY <1>3, <1>4, <1>5 DEF LifecycleInv, ProcessTypes, Running, WorkerStates, Lines, Commands
<1>9. LineInv'
  BY <1>1, <1>3, <1>4, <1>5
     DEF LifecycleInv, LineInv, ShutInv, AckInv, SpeedInv, TimedInv, Running
<1> QED BY <1>6, <1>7, <1>8, <1>9 DEF LifecycleInv

(* A worker that emits has a state of its own to tell.                     *)
LEMMA Telling ==
  ASSUME LifecycleInv, CanEmit
  PROVE  /\ worker \in WorkerStates /\ worker.speed \in AllSpeeds
         /\ worker.status # "boot" =>
              worker.status \in {"idle", "loading", "speaking", "error", "setup-required"}
         /\ \A s \in {"idle", "loading", "speaking", "error", "setup-required"} :
              LET w == [worker EXCEPT !.status = s] IN
              w \in WorkerStates /\ w.speed \in AllSpeeds /\ w.status = s
<1>1. worker \in WorkerStates /\ worker.speed \in AllSpeeds /\ worker.status # "none"
  BY DEF LifecycleInv, ProcessTypes, CanEmit, Running
<1>2. worker.status # "ending"
  BY DEF CanEmit, Ending
<1> QED BY <1>1, <1>2 DEF WorkerStates

(* The first event, one of a read, one of an announcement.                 *)
LEMMA EventKeeps ==
  ASSUME LifecycleInv, Hello \/ Progress \/ Announce
  PROVE  LifecycleInv'
<1>1. /\ CanEmit /\ stdin' = stdin
      /\ UNCHANGED <<ui, watch, pending, timers, config, tasks, proc, started, shown>>
  BY DEF Hello, Progress, Announce
<1>2. \E s \in {"idle", "loading", "speaking", "error", "setup-required"} :
         Emit([worker EXCEPT !.status = s])
  BY DEF Hello, Progress, Announce
<1> QED BY <1>1, <1>2, Telling, Emitted

(* A command is taken.                                                     *)
LEMMA ConsumeKeeps ==
  ASSUME LifecycleInv, Consume
  PROVE  LifecycleInv'
<1> USE DEF ui, watch, timers, tasks, process, shown
<1> DEFINE c == Head(stdin)
<1>1. /\ CanEmit /\ stdin # <<>> /\ stdin' = Tail(stdin) /\ worker.status # "boot"
      /\ UNCHANGED <<ui, watch, pending, timers, config, tasks, proc, started, shown>>
  BY DEF Consume
<1>2. stdin \in Seq(Lines) /\ Behind(stdin)
  BY DEF LifecycleInv, ProcessTypes, LineInv
<1>3. /\ c \in Lines /\ stdin' \in Seq(Lines) /\ Behind(stdin')
      /\ \A o : Holds(stdin, o) <=> Holds(stdin', o) \/ c.op = o
  BY <1>1, <1>2, Taken
<1>4. c.op \in {"speak", "stop", "set-speed", "status", "shutdown"}
  BY <1>3 DEF Lines, Commands
<1>5. /\ c.op = "speak" => \E s \in {"loading", "error"} : Emit([worker EXCEPT !.status = s])
      /\ c.op = "stop" => Emit([worker EXCEPT !.status = "idle"])
      /\ c.op = "set-speed" => Emit([worker EXCEPT !.speed = c.speed])
      /\ c.op = "status" => Emit(worker)
      /\ c.op = "shutdown" =>
           worker' = [worker EXCEPT !.status = "ending"] /\ UNCHANGED stdout
  BY <1>4 DEF Consume
<1> HIDE DEF c
<1>6. Head(stdin) = c
  BY DEF c
<1>7. CASE c.op \in {"speak", "stop"}
  <2>1. \E s \in {"idle", "loading", "error"} :
           /\ Emit([worker EXCEPT !.status = s])
           /\ c.op = "stop" => s = "idle"
    BY <1>5, <1>7
  <2> HIDE DEF ui, watch, timers, tasks, process, shown
  <2> QED BY <1>1, <1>6, <2>1, Telling, Emitted
<1>8. CASE c.op = "set-speed"
  <2> DEFINE w == [worker EXCEPT !.speed = c.speed]
  <2>1. c.speed \in AllSpeeds
    BY <1>3, <1>8 DEF Lines
  <2>2. w \in WorkerStates /\ w.speed \in AllSpeeds /\ w.status = worker.status
    BY <1>1, <2>1, Telling DEF WorkerStates
  <2>3. Emit(w)
    BY <1>5, <1>8
  <2> HIDE DEF ui, watch, timers, tasks, process, shown, w
  <2> QED BY <1>1, <1>6, <1>8, <2>2, <2>3, Telling, Emitted
<1>9. CASE c.op = "status"
  <2>1. Emit(worker)
    BY <1>5, <1>9
  <2> HIDE DEF ui, watch, timers, tasks, process, shown
  <2> QED BY <1>1, <1>6, <1>9, <2>1, Telling, Emitted
<1>10. CASE c.op = "shutdown"
  <2>1. worker' = [worker EXCEPT !.status = "ending"] /\ stdout' = stdout
    BY <1>5, <1>10
  <2>2. worker' \in WorkerStates /\ worker'.status = "ending" /\ worker'.speed = worker.speed
    BY <1>1, <2>1, Telling DEF WorkerStates
  <2>3. ServiceTypes'
    BY <1>1 DEF LifecycleInv, ServiceTypes
  <2>4. FlowInv'
    BY <1>1, <2>1 DEF LifecycleInv, CanEmit, FlowInv, GoneInv, TimerInv, PendingInv, BootInv,
       ReplaceInv, OneCapture, OpenInv,
         StoppingIsAwaited, CanSubmit, Running
  <2>5. ProcessTypes'
    BY <1>1, <1>3, <2>1, <2>2
       DEF LifecycleInv, ProcessTypes, Running, WorkerStates, Lines, Commands
  <2>6. LineInv'
    BY <1>1, <1>3, <1>10, <2>1, <2>2
       DEF LifecycleInv, LineInv, ShutInv, AckInv, SpeedInv, TimedInv, Running, RestStatuses
  <2> QED BY <2>3, <2>4, <2>5, <2>6 DEF LifecycleInv
<1> QED BY <1>4, <1>7, <1>8, <1>9, <1>10

-----------------------------------------------------------------------------
(* The theorems.                                                           *)

LEMMA LifecycleInit ==
  ASSUME Init
  PROVE  LifecycleInv
<1>1. ServiceTypes
  <2>1. /\ stopPending \in BOOLEAN /\ expectedWorkerExit \in BOOLEAN
        /\ workerOutputSuppressed \in BOOLEAN /\ workerReplacementPending \in BOOLEAN
        /\ idleTimer \in BOOLEAN /\ killTimer \in BOOLEAN
        /\ stale \in BOOLEAN /\ missed \in BOOLEAN
    BY DEF Init
  <2>2. /\ status = "idle" /\ speed \in Speeds /\ config = 0
        /\ captureStage = "idle" /\ restore = "cancelled" /\ ocr = "idle" /\ voiceOp = "idle"
    BY DEF Init
  <2> QED BY <2>1, <2>2, LifecycleBounds DEF ServiceTypes, Statuses, AllSpeeds
<1>2. stdin \in Seq(Lines) /\ stdout \in Seq(Reports)
  BY DEF Init
<1>3. worker \in WorkerStates
  BY LifecycleBounds DEF Init, NoWorker, WorkerStates
<1>4. ProcessTypes
  BY <1>2, <1>3 DEF Init, ProcessTypes, Running
<1>5. FlowInv
  BY DEF Init, FlowInv, GoneInv, TimerInv, PendingInv, BootInv, ReplaceInv, OneCapture,
         OpenInv, StoppingIsAwaited, CanSubmit, Running
<1>6. LineInv
  BY Empty DEF Init, LineInv, ShutInv, AckInv, SpeedInv, TimedInv, Running
<1> QED BY <1>1, <1>4, <1>5, <1>6 DEF LifecycleInv

LEMMA LifecycleStep ==
  ASSUME LifecycleInv, [Next]_vars
  PROVE  LifecycleInv'
<1>1. CASE UserStep
  BY <1>1, TaskKeeps, CommandKeeps, ReplaceKeeps, StopKeeps DEF UserStep
<1>2. CASE ServiceStep
  BY <1>2, TaskKeeps, CommandKeeps, ReplaceKeeps, StartKeeps, ReadKeeps, ExitKeeps,
     EvictionKeeps, DeathKeeps DEF ServiceStep, CaptureStep
<1>3. CASE WorkerStep \/ Announce
  BY <1>3, EventKeeps, ConsumeKeeps DEF WorkerStep
<1>4. CASE Die
  BY <1>4, DeathKeeps
<1>5. CASE UNCHANGED vars
  <2> USE DEF vars, ui, watch, timers, tasks, process, shown
  <2>1. ServiceTypes'
    BY <1>5 DEF LifecycleInv, ServiceTypes
  <2>2. FlowInv'
    BY <1>5 DEF LifecycleInv, FlowInv, GoneInv, TimerInv, PendingInv, BootInv, ReplaceInv,
         OneCapture, OpenInv, StoppingIsAwaited, CanSubmit, Running
  <2>3. UNCHANGED <<process, watch, pending, stopPending, speed, idleTimer, missed, config>>
    BY <1>5
  <2> HIDE DEF vars, ui, watch, timers, tasks, process, shown
  <2> QED BY <2>1, <2>2, <2>3, LinesKept DEF LifecycleInv
<1> QED BY <1>1, <1>2, <1>3, <1>4, <1>5 DEF Next

(* The lifecycle invariant holds in every state: what is queued, what is   *)
(* under way in the pipes and what the service waits for fit together.     *)
THEOREM LifecycleSafe == Spec => []LifecycleInv
BY LifecycleInit, LifecycleStep, PTL DEF Spec

(* A queued read always has a carrier and none is written behind a         *)
(* shutdown; a stop is awaited only from a worker that there is            *)
(* (workerCommand, onStarted, onExited, stop).                             *)
THEOREM QueueSafe == Spec => []QueueInv
<1>1. ASSUME LifecycleInv PROVE TypeOK
  <2>1. pending \in {<<>>} \union {<<c>> : c \in Commands}
    BY <1>1 DEF LifecycleInv, ProcessTypes, Lines
  <2>2. \A i \in DOMAIN stdin : stdin[i] \in Commands
    BY <1>1 DEF LifecycleInv, ProcessTypes, Lines
  <2>3. \A i \in DOMAIN stdout : stdout[i] \in Events
    <3>1. stdout \in Seq(Reports)
      BY <1>1 DEF LifecycleInv, ProcessTypes
    <3>2. Reports \subseteq Events
      BY DEF Reports, Events, Statuses, AllSpeeds
    <3> QED BY <3>1, <3>2
  <2>4. worker.status \in {"none", "boot", "idle", "loading", "speaking", "error",
                           "setup-required", "ending"}
    BY <1>1 DEF LifecycleInv, ProcessTypes, WorkerStates
  <2>5. ~Running => ~started /\ stdin = <<>> /\ stdout = <<>> /\ ~idleTimer /\ ~killTimer
    BY <1>1 DEF LifecycleInv, FlowInv, GoneInv
  <2> QED BY <1>1, <2>1, <2>2, <2>3, <2>4, <2>5
      DEF LifecycleInv, ServiceTypes, ProcessTypes, TypeOK, AllSpeeds
<1>2. ASSUME LifecycleInv PROVE QueueInv
  <2>1. QueueHasCarrier /\ StoppingIsAwaited
    BY <1>2 DEF LifecycleInv, FlowInv, PendingInv, QueueHasCarrier
  <2>2. NothingBehindShutdown
    BY <1>2 DEF LifecycleInv, LineInv, Behind, NothingBehindShutdown
  <2> QED BY <1>1, <1>2, <2>1, <2>2 DEF QueueInv
<1> QED BY <1>2, LifecycleSafe, PTL

(* Whatever speeds crossed each other in the pipes, service and worker end *)
(* up with the same one (setSpeed, handleWorkerLine).                      *)
THEOREM SpeedSafe == Spec => []SpeedSettles
<1>1. LifecycleInv => SpeedSettles
  BY Empty DEF LifecycleInv, LineInv, SpeedInv, SpeedSettles, InStep
<1> QED BY <1>1, LifecycleSafe, PTL

(* A worker that is not used is about to be evicted, unless its last event *)
(* came during a capture (handleWorkerLine, armIdleEviction).              *)
THEOREM WarmSafe == Spec => []WarmWorkerIsTimed
<1>1. LifecycleInv => WarmWorkerIsTimed
  BY DEF LifecycleInv, LineInv, TimedInv, WarmWorkerIsTimed, Unused, InStep
<1> QED BY <1>1, LifecycleSafe, PTL
=============================================================================
