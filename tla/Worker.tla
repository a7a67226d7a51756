------------------------------- MODULE Worker -------------------------------
(***************************************************************************)
(* The speech worker of worker/worker.py: one process in which             *)
(*                                                                         *)
(*   - the main thread reads JSON commands from stdin,                     *)
(*   - the agent thread serves one announcement at a time from a socket,   *)
(*   - every accepted read gets a _speak thread of its own, named here by  *)
(*     the generation that was allotted to it.                             *)
(*                                                                         *)
(* A critical section of Worker._lock is one atomic step.  What the code   *)
(* does outside the lock (killing a player, writing an event, loading the  *)
(* voice, running inference, feeding the player's pipe) is a step of its   *)
(* own, so that every other thread can run in between.  _command_lock and  *)
(* _synthesis_lock are held across steps and are variables.                *)
(***************************************************************************)
EXTENDS Naturals

CONSTANTS MaxGeneration,  \* bound: generations a behaviour may allot
          Pieces,         \* bound: audio pieces in the text of one read
          Commands,       \* bound: what the service and the agents send
          Requests,       \* request ids the service may send
          NoRequest       \* an absent requestId

ASSUME BoundsAssumption == MaxGeneration \in Nat /\ Pieces \in Nat \ {0}
ASSUME RequestAssumption == NoRequest \notin Requests

Generations == 1..MaxGeneration     \* 0 stands for Python's None throughout
Threads == {"main", "agent"}        \* the two threads that run commands
(* The lines on stdin, and an agent's announcement.  A "misfit" is a speak  *)
(* whose text is no string, too long, or empty once cleaned; "set-speed"    *)
(* (whose speed reaches no property) and "status" are alike: an event with  *)
(* the present status.                                                      *)
CommandOps == {"speak", "misfit", "stop", "set-speed", "status", "invalid",
               "undecodable", "shutdown", "announce"}
ASSUME CommandsAssumption == Commands \subseteq CommandOps

Sources == {"none", "selection", "agent"}
Statuses == {"idle", "loading", "speaking", "error", "setup-required"}
BusyStatuses == {"loading", "speaking"}

VARIABLES
  \* fields of Worker, guarded by _lock
  status, generation, text, source, request, sink, thread, voice, shutdown,
  \* the two long-held locks: their holder
  commandLock, synthesisLock,
  \* the command threads: next statement and locals
  at, op, asked, ticket, victim, pending,
  \* the _speak threads: next statement and locals, and each one's player
  stage, left, heard, outcome, player,
  \* history: the last event on stdout, whose read each generation is, the
  \* last read accepted, and the generation below which all is answered
  shown, owner, accepted, settled

shared == <<status, generation, text, source, request, sink, thread, voice, shutdown>>
locks == <<commandLock, synthesisLock>>
command == <<at, op, asked, ticket, victim, pending>>
speaker == <<stage, left, heard, outcome, player>>
history == <<shown, owner, accepted, settled>>
vars == <<shared, locks, command, speaker, history>>

Requested == Requests \union {NoRequest}
Events == [status : Statuses, request : Requested, source : Sources]
Owners == [request : Requested, source : Sources]
Nobody == [request |-> NoRequest, source |-> "none"]

NoEvent == [status |-> "idle", request |-> NoRequest, source |-> "none"]

(* _snapshot after status has been set to s. *)
Snapshot(s) == [status |-> s, request |-> request, source |-> source]

(* _active: the generation still owns the worker state. *)
Active(g) == ~shutdown /\ g = generation

(* _thread.is_alive() *)
Alive(g) == g # 0 /\ stage[g] \notin {"unborn", "done"}

(* _is_busy_locked *)
Busy == Alive(thread) \/ status \in BusyStatuses

Exited == at["main"] = "exited"

(***************************************************************************)
(* Command threads: _stop_locked, _read_selection_locked, shutdown, run.   *)
(***************************************************************************)
Goto(t, here, there) == /\ at[t] = here
                        /\ at' = [at EXCEPT ![t] = there]

(* Leave "with self._command_lock", if this command ran under it. *)
Release(t) == commandLock' = IF commandLock = t THEN "free" ELSE commandLock

FirstStep(o) == CASE o = "shutdown" -> "condemn"
                  [] o \in {"speak", "misfit", "stop"} -> "invalidate"
                  [] OTHER -> "report"

(* Generations a command allots; the bound on them is checked on entry and *)
(* keeps those of the shutdown command and of the exit in reserve.         *)
Allots(o) == CASE o = "speak" -> 2
               [] o \in {"stop", "misfit"} -> 1
               [] OTHER -> 0
Reserve == IF "shutdown" \in Commands THEN 2 ELSE 1

(* run: the stdin loop takes a line and handle takes the command lock.    *)
BeginCommand(o, r) ==
  /\ o \in Commands \ {"undecodable", "announce"}
  /\ at["main"] = "ready"
  /\ commandLock = "free"
  /\ generation + Allots(o) + Reserve <= MaxGeneration
  /\ IF o \in {"speak", "misfit"}
       THEN r \in Requests /\ \A g \in Generations : owner[g].request # r
       ELSE r = NoRequest
  /\ commandLock' = "main"
  /\ at' = [at EXCEPT !["main"] = FirstStep(o)]
  /\ op' = [op EXCEPT !["main"] = o]
  /\ asked' = [asked EXCEPT !["main"] = r]
  /\ UNCHANGED <<shared, synthesisLock, ticket, victim, pending, speaker, history>>

(* run: a line that is not JSON is reported without the command lock.      *)
BeginUndecodable ==
  /\ "undecodable" \in Commands
  /\ Goto("main", "ready", "report")
  /\ op' = [op EXCEPT !["main"] = "undecodable"]
  /\ UNCHANGED <<shared, locks, asked, ticket, victim, pending, speaker, history>>

(* run: the loop ends, on EOF or after a shutdown command, and its finally *)
(* block shuts down (again).                                               *)
BeginExit ==
  /\ at["main"] \in {"ready", "ending"}
  /\ commandLock = "free"
  /\ generation + 1 <= MaxGeneration
  /\ commandLock' = "main"
  /\ at' = [at EXCEPT !["main"] = "condemn"]
  /\ op' = [op EXCEPT !["main"] = "exit"]
  /\ UNCHANGED <<shared, synthesisLock, asked, ticket, victim, pending, speaker, history>>

(* handle_agent_request: a connection's request takes the command lock.    *)
BeginAnnounce ==
  /\ "announce" \in Commands
  /\ ~Exited
  /\ at["agent"] = "ready"
  /\ commandLock = "free"
  /\ generation + 1 + Reserve <= MaxGeneration
  /\ commandLock' = "agent"
  /\ at' = [at EXCEPT !["agent"] = "admit"]
  /\ op' = [op EXCEPT !["agent"] = "announce"]
  /\ asked' = [asked EXCEPT !["agent"] = NoRequest]
  /\ UNCHANGED <<shared, synthesisLock, ticket, victim, pending, speaker, history>>

(* handle_agent_request: refused while setup is required or a read runs.   *)
Refuse ==
  /\ ~Exited
  /\ Goto("agent", "admit", "ready")
  /\ status = "setup-required" \/ Busy
  /\ Release("agent")
  /\ UNCHANGED <<shared, synthesisLock, op, asked, ticket, victim, pending, speaker, history>>

(* Mutation: only the setup is checked, not _is_busy_locked. *)
AdmitWhileBusy ==
  /\ ~Exited
  /\ Goto("agent", "admit", "label")
  /\ status # "setup-required"
  /\ UNCHANGED <<shared, locks, op, asked, ticket, victim, pending, speaker, history>>

Admit ==
  /\ ~Exited
  /\ Goto("agent", "admit", "label")
  /\ status # "setup-required" /\ ~Busy
  /\ UNCHANGED <<shared, locks, op, asked, ticket, victim, pending, speaker, history>>

(* Mutation: _shutdown is never set. *)
CondemnWithoutFlag ==
  /\ Goto("main", "condemn", "invalidate")
  /\ UNCHANGED <<shared, locks, op, asked, ticket, victim, pending, speaker, history>>

(* shutdown: set _shutdown, then _stop_locked(emit=False). *)
Condemn ==
  /\ Goto("main", "condemn", "invalidate")
  /\ shutdown' = TRUE
  /\ UNCHANGED <<status, generation, text, source, request, sink, thread, voice,
                 locks, op, asked, ticket, victim, pending, speaker, history>>

(* _stop_locked, first section: invalidate the generation, take its sink.  *)
Invalidate ==
  /\ Goto("main", "invalidate", "silence")
  /\ generation' = generation + 1
  /\ ticket' = [ticket EXCEPT !["main"] = generation + 1]
  /\ text' = 0
  /\ victim' = [victim EXCEPT !["main"] = sink]
  /\ sink' = 0
  /\ UNCHANGED <<status, source, request, thread, voice, shutdown, locks,
                 op, asked, pending, speaker, history>>

(* Mutation: the sink is dropped, its player never killed. *)
SilenceDropsSink ==
  /\ at["main"] = "silence"
  /\ at' = [at EXCEPT !["main"] = IF op["main"] = "stop" THEN "idleEvent" ELSE "detach"]
  /\ victim' = [victim EXCEPT !["main"] = 0]
  /\ UNCHANGED <<shared, locks, op, asked, ticket, pending, speaker, history>>

(* _stop_locked: AudioSink.stop outside the lock.                          *)
Silence ==
  /\ at["main"] = "silence"
  /\ at' = [at EXCEPT !["main"] = IF op["main"] = "stop" THEN "idleEvent" ELSE "detach"]
  /\ player' = [g \in Generations |->
                  IF g = victim["main"] THEN "stopped" ELSE player[g]]
  /\ victim' = [victim EXCEPT !["main"] = 0]
  /\ UNCHANGED <<shared, locks, op, asked, ticket, pending,
                 stage, left, heard, outcome, history>>

(* _stop_locked, last section: the request is over.                        *)
Detach ==
  /\ at["main"] = "detach"
  /\ IF generation = ticket["main"]
       THEN request' = NoRequest /\ source' = "none"
       ELSE UNCHANGED <<request, source>>
  /\ at' = [at EXCEPT !["main"] =
              CASE op["main"] = "stop" -> "release"
                [] op["main"] \in {"shutdown", "exit"} -> "unload"
                [] OTHER -> "label"]
  /\ IF op["main"] \in {"shutdown", "exit"} THEN Release("main") ELSE UNCHANGED commandLock
  /\ UNCHANGED <<status, generation, text, sink, thread, voice, shutdown, synthesisLock,
                 op, asked, ticket, victim, pending, speaker, history>>

(* shutdown, after the command lock: drop the voice session.               *)
Unload ==
  /\ at["main"] = "unload"
  /\ at' = [at EXCEPT !["main"] = IF op["main"] = "exit" THEN "closing" ELSE "ending"]
  /\ voice' = IF voice = "loaded" THEN "unloaded" ELSE voice
  /\ UNCHANGED <<status, generation, text, source, request, sink, thread, shutdown,
                 locks, op, asked, ticket, victim, pending, speaker, history>>

(* run: agent_server.close waits a second at most; then the process ends   *)
(* and its daemon threads with it.                                         *)
Exit ==
  /\ Goto("main", "closing", "exited")
  /\ UNCHANGED <<shared, locks, op, asked, ticket, victim, pending, speaker, history>>

SourceOf(t) == IF t = "agent" THEN "agent" ELSE "selection"

(* _read_selection_locked: publish whose request this is.                  *)
Label(t) ==
  /\ ~Exited
  /\ at[t] = "label"
  /\ request' = asked[t]
  /\ source' = SourceOf(t)
  /\ at' = [at EXCEPT ![t] = IF op[t] = "misfit" THEN "errorEvent" ELSE "claim"]
  /\ UNCHANGED <<status, generation, text, sink, thread, voice, shutdown, locks,
                 op, asked, ticket, victim, pending, speaker, history>>

(* _read_selection_locked: allot a generation to the text.                 *)
Claim(t) ==
  /\ ~Exited
  /\ Goto(t, "claim", "loadingEvent")
  /\ generation' = generation + 1
  /\ ticket' = [ticket EXCEPT ![t] = generation + 1]
  /\ text' = generation + 1
  /\ owner' = [owner EXCEPT ![generation + 1] = [request |-> asked[t], source |-> SourceOf(t)]]
  /\ accepted' = generation + 1
  /\ UNCHANGED <<status, source, request, sink, thread, voice, shutdown, locks,
                 op, asked, victim, pending, speaker, shown, settled>>

(* _emit, under the lock: set the status and take the snapshot.  The       *)
(* request id that _stop_locked captured is still the field's: no thread   *)
(* of an older generation clears it.                                       *)
Emit(t, here, there, s) ==
  /\ ~Exited
  /\ Goto(t, here, there)
  /\ status' = s
  /\ pending' = [pending EXCEPT ![t] = Snapshot(s)]
  /\ UNCHANGED <<generation, text, source, request, sink, thread, voice, shutdown,
                 locks, op, asked, ticket, victim, speaker, history>>

EmitIdle == Emit("main", "idleEvent", "writeIdle", "idle")
EmitLoading(t) == Emit(t, "loadingEvent", "writeLoading", "loading")
EmitError == Emit("main", "errorEvent", "writeError", "error")
EmitReport == Emit("main", "report", "writeReport",
                   IF op["main"] \in {"invalid", "undecodable"} THEN "error" ELSE status)

(* _emit, after the lock: write the event.                                 *)
Write(t, here, there) ==
  /\ ~Exited
  /\ Goto(t, here, there)
  /\ shown' = pending[t]
  /\ settled' = IF here \in {"writeIdle", "writeLoading"} THEN ticket[t] ELSE settled
  /\ pending' = [pending EXCEPT ![t] = NoEvent]
  /\ UNCHANGED <<shared, locks, op, asked, ticket, victim, speaker, owner, accepted>>

WriteIdle == Write("main", "writeIdle", "detach")
WriteLoading(t) == Write(t, "writeLoading", "launch")
WriteError == Write("main", "writeError", "forgetRejected")
WriteReport == Write("main", "writeReport", "release")

(* _read_selection_locked: a misfit's request id is dropped after the error. *)
ForgetRejected ==
  /\ Goto("main", "forgetRejected", "release")
  /\ request' = NoRequest
  /\ source' = "none"
  /\ UNCHANGED <<status, generation, text, sink, thread, voice, shutdown, locks,
                 op, asked, ticket, victim, pending, speaker, history>>

(* _read_selection_locked: publish the thread and start it.                *)
Launch(t) ==
  /\ ~Exited
  /\ Goto(t, "launch", "release")
  /\ thread' = ticket[t]
  /\ stage' = [stage EXCEPT ![ticket[t]] = "enter"]
  /\ UNCHANGED <<status, generation, text, source, request, sink, voice, shutdown,
                 locks, op, asked, ticket, victim, pending,
                 left, heard, outcome, player, history>>

(* The command returns and its locals die; an announcement is acknowledged. *)
EndCommand(t) ==
  /\ ~Exited
  /\ Goto(t, "release", "ready")
  /\ Release(t)
  /\ op' = [op EXCEPT ![t] = "none"]
  /\ asked' = [asked EXCEPT ![t] = NoRequest]
  /\ ticket' = [ticket EXCEPT ![t] = 0]
  /\ UNCHANGED <<shared, synthesisLock, victim, pending, speaker, history>>

(***************************************************************************)
(* _speak(g): the thread of one read.                                      *)
(***************************************************************************)
Step(g, here, there) == /\ ~Exited
                        /\ stage[g] = here
                        /\ stage' = [stage EXCEPT ![g] = there]

(* _emit_generation, under the lock: nothing at all for a stale generation. *)
EmitGeneration(g, s) ==
  IF Active(g) THEN status' = s /\ shown' = Snapshot(s)
               ELSE UNCHANGED <<status, shown>>

unchangedByEmit == <<generation, text, source, request, sink, thread, voice, shutdown,
                     locks, command, owner, accepted, settled>>

(* _ensure_voice: use the voice, wait for another thread's load, or load.  *)
SeekVoice(g) ==
  /\ ~Exited
  /\ stage[g] = "enter"
  /\ stage' = [stage EXCEPT ![g] = CASE voice = "loading" -> "asleep"
                                     [] voice = "loaded" -> "register"
                                     [] voice = "unloaded" -> "load"]
  /\ voice' = IF voice = "unloaded" THEN "loading" ELSE voice
  /\ UNCHANGED <<status, generation, text, source, request, sink, thread, shutdown,
                 locks, command, left, heard, outcome, player, history>>

(* Mutation: the load's end is not notified. *)
EndLoadSilently(g, there, v, o) ==
  /\ ~Exited
  /\ stage[g] = "load"
  /\ stage' = [stage EXCEPT ![g] = there]
  /\ voice' = v
  /\ outcome' = [outcome EXCEPT ![g] = o]
  /\ UNCHANGED <<status, generation, text, source, request, sink, thread, shutdown,
                 locks, command, left, heard, player, history>>

(* _ensure_voice: publish the result of the load and notify_all.           *)
EndLoad(g, there, v, o) ==
  /\ ~Exited
  /\ stage[g] = "load"
  /\ stage' = [h \in Generations |-> CASE h = g -> there
                                       [] h # g /\ stage[h] = "asleep" -> "enter"
                                       [] OTHER -> stage[h]]
  /\ voice' = v
  /\ outcome' = [outcome EXCEPT ![g] = o]
  /\ UNCHANGED <<status, generation, text, source, request, sink, thread, shutdown,
                 locks, command, left, heard, player, history>>

VoiceLoaded(g) == EndLoad(g, "register", "loaded", outcome[g])
VoiceMissing(g) == EndLoad(g, "fail", "unloaded", "setup-required")
VoiceFailed(g) == EndLoad(g, "fail", "unloaded", "error")

(* Mutation: the sink is registered without looking at the generation. *)
RegisterUnchecked(g) ==
  /\ Step(g, "register", "announce")
  /\ sink' = g
  /\ player' = [player EXCEPT ![g] = "open"]
  /\ UNCHANGED <<status, generation, text, source, request, thread, voice, shutdown,
                 locks, command, left, heard, outcome, history>>

(* _speak: make a sink and register it while still current.                *)
Register(g) ==
  /\ ~Exited
  /\ stage[g] = "register"
  /\ IF Active(g)
       THEN /\ sink' = g
            /\ player' = [player EXCEPT ![g] = "open"]
            /\ stage' = [stage EXCEPT ![g] = "announce"]
       ELSE /\ stage' = [stage EXCEPT ![g] = "retire"]
            /\ UNCHANGED <<sink, player>>
  /\ UNCHANGED <<status, generation, text, source, request, thread, voice, shutdown,
                 locks, command, left, heard, outcome, history>>

(* Mutation: _emit where _emit_generation belongs. *)
EmitSpeakingUnchecked(g) ==
  /\ Step(g, "announce", "chunk")
  /\ status' = "speaking"
  /\ shown' = Snapshot("speaking")
  /\ UNCHANGED <<unchangedByEmit, left, heard, outcome, player>>

EmitSpeaking(g) ==
  /\ Step(g, "announce", "chunk")
  /\ EmitGeneration(g, "speaking")
  /\ UNCHANGED <<unchangedByEmit, left, heard, outcome, player>>

(* _speak, for each chunk: go on only while current; the loop's end is a   *)
(* completed read.                                                         *)
NextChunk(g) ==
  /\ ~Exited
  /\ stage[g] = "chunk"
  /\ stage' = [stage EXCEPT ![g] = IF Active(g) /\ left[g] > 0 THEN "lock" ELSE "final"]
  /\ outcome' = IF Active(g) /\ left[g] = 0
                  THEN [outcome EXCEPT ![g] = "completed"] ELSE outcome
  /\ UNCHANGED <<shared, locks, command, left, heard, player, history>>

(* Mutation: synthesis without its lock. *)
TakeSessionUnlocked(g) ==
  /\ Step(g, "lock", IF Active(g) THEN "infer" ELSE "final")
  /\ UNCHANGED <<shared, locks, command, left, heard, outcome, player, history>>

(* _speak: take the synthesis lock, and check again.                       *)
TakeSession(g) ==
  /\ ~Exited
  /\ stage[g] = "lock"
  /\ synthesisLock = 0
  /\ IF Active(g)
       THEN synthesisLock' = g /\ stage' = [stage EXCEPT ![g] = "infer"]
       ELSE UNCHANGED synthesisLock /\ stage' = [stage EXCEPT ![g] = "final"]
  /\ UNCHANGED <<shared, commandLock, command, left, heard, outcome, player, history>>

(* The iteration yields an audio piece; a stale thread leaves instead.     *)
Infer(g) ==
  /\ ~Exited
  /\ stage[g] = "infer"
  /\ IF Active(g)
       THEN stage' = [stage EXCEPT ![g] = "write"] /\ UNCHANGED synthesisLock
       ELSE stage' = [stage EXCEPT ![g] = "final"] /\ synthesisLock' = 0
  /\ UNCHANGED <<shared, commandLock, command, left, heard, outcome, player, history>>

(* The piece carries no audio bytes: nothing is written.                   *)
InferNothing(g) ==
  /\ ~Exited
  /\ stage[g] = "infer"
  /\ Active(g)
  /\ left[g] > 0
  /\ left' = [left EXCEPT ![g] = left[g] - 1]
  /\ \/ left[g] > 1 /\ UNCHANGED <<stage, synthesisLock>>
     \/ stage' = [stage EXCEPT ![g] = "chunk"] /\ synthesisLock' = 0
  /\ UNCHANGED <<shared, commandLock, command, heard, outcome, player, history>>

(* An exception while the synthesis lock is held.                          *)
Raise(g) ==
  /\ stage' = [stage EXCEPT ![g] = "fail"]
  /\ synthesisLock' = 0
  /\ outcome' = [outcome EXCEPT ![g] = "error"]
  /\ UNCHANGED <<shared, commandLock, command, left, heard, player, history>>

InferFails(g) == ~Exited /\ stage[g] = "infer" /\ Raise(g)

(* AudioSink.write, locked part: a stopped sink raises, a new one starts   *)
(* its player.                                                             *)
StartWrite(g) ==
  /\ ~Exited
  /\ stage[g] = "write"
  /\ player[g] # "stopped"
  /\ stage' = [stage EXCEPT ![g] = "writing"]
  /\ player' = IF player[g] = "open" THEN [player EXCEPT ![g] = "playing"] ELSE player
  /\ UNCHANGED <<shared, locks, command, left, heard, outcome, history>>

(* AudioSink.write: stopped, or the player program cannot be started.      *)
StartWriteFails(g) ==
  /\ ~Exited
  /\ stage[g] = "write"
  /\ player[g] \in {"stopped", "open"}
  /\ Raise(g)

(* AudioSink.write, outside the sink's lock: the pipe took the piece...    *)
EndWrite(g) ==
  /\ Step(g, "writing", "wrote")
  /\ left' = [left EXCEPT ![g] = left[g] - 1]
  /\ UNCHANGED <<shared, locks, command, heard, outcome, player, history>>

(* ... or its reader is gone.                                              *)
EndWriteFails(g) ==
  /\ ~Exited
  /\ stage[g] = "writing"
  /\ player[g] # "playing"
  /\ Raise(g)

(* _speak: report the first audio, then ask the generator for the next     *)
(* piece, or leave the loop body (the chunk is done) and drop the lock.    *)
AfterWrite(g) ==
  /\ ~Exited
  /\ stage[g] = "wrote"
  /\ IF heard[g] THEN UNCHANGED <<status, shown>> ELSE EmitGeneration(g, "speaking")
  /\ heard' = [heard EXCEPT ![g] = heard[g] \/ Active(g)]
  /\ \/ left[g] > 0 /\ stage' = [stage EXCEPT ![g] = "infer"] /\ UNCHANGED synthesisLock
     \/ stage' = [stage EXCEPT ![g] = "chunk"] /\ synthesisLock' = 0
  /\ UNCHANGED <<generation, text, source, request, sink, thread, voice, shutdown,
                 commandLock, command, left, outcome, player, owner, accepted, settled>>

(* _speak: a failure of the current generation becomes its status.         *)
Fail(g) ==
  /\ Step(g, "fail", IF player[g] = "none" THEN "retire" ELSE "final")
  /\ EmitGeneration(g, outcome[g])
  /\ UNCHANGED <<unchangedByEmit, left, heard, outcome, player>>

(* _speak, finally: finish the sink only while it is still registered.     *)
Finalize(g) ==
  /\ ~Exited
  /\ stage[g] = "final"
  /\ stage' = [stage EXCEPT ![g] = IF sink = g THEN "drain" ELSE "unhook"]
  /\ UNCHANGED <<shared, locks, command, left, heard, outcome, player, history>>

(* Mutation: a player that does not drain in time is not killed. *)
DrainLeavesPlayer(g) ==
  /\ Step(g, "drain", "unhook")
  /\ UNCHANGED <<shared, locks, command, left, heard, outcome, player, history>>

(* AudioSink.finish: the player drains, or is killed after three seconds.  *)
Drain(g) ==
  /\ Step(g, "drain", "unhook")
  /\ player' = IF player[g] = "stopped" THEN player ELSE [player EXCEPT ![g] = "ended"]
  /\ UNCHANGED <<shared, locks, command, left, heard, outcome, history>>

Unhook(g) ==
  /\ Step(g, "unhook", "retire")
  /\ sink' = IF sink = g THEN 0 ELSE sink
  /\ UNCHANGED <<status, generation, text, source, request, thread, voice, shutdown,
                 locks, command, left, heard, outcome, player, history>>

(* Mutation: the text outlives its thread. *)
RetireKeepsText(g) ==
  /\ Step(g, "retire", IF outcome[g] = "completed" THEN "advertise" ELSE "forget")
  /\ thread' = IF g = generation THEN 0 ELSE thread
  /\ UNCHANGED <<status, generation, text, source, request, sink, voice, shutdown,
                 locks, command, left, heard, outcome, player, history>>

(* _speak, finally: drop the text and the thread of the current generation. *)
Retire(g) ==
  /\ Step(g, "retire", IF outcome[g] = "completed" THEN "advertise" ELSE "forget")
  /\ text' = IF g = generation THEN 0 ELSE text
  /\ thread' = IF g = generation THEN 0 ELSE thread
  /\ UNCHANGED <<status, generation, source, request, sink, voice, shutdown,
                 locks, command, left, heard, outcome, player, history>>

(* The thread ends: its locals die, and with them a sink that is silent.   *)
EndThread(g) ==
  /\ left' = [left EXCEPT ![g] = Pieces]
  /\ heard' = [heard EXCEPT ![g] = FALSE]
  /\ outcome' = [outcome EXCEPT ![g] = "running"]
  /\ player' = IF player[g] = "playing" THEN player ELSE [player EXCEPT ![g] = "none"]

(* Mutation: a completed read reports nothing. *)
AdvertiseNothing(g) ==
  /\ Step(g, "advertise", "forget")
  /\ UNCHANGED <<shared, locks, command, left, heard, outcome, player, history>>

(* Mutation: the request is forgotten whoever owns it by now. *)
ForgetUnchecked(g) ==
  /\ Step(g, "forget", "done")
  /\ request' = NoRequest /\ source' = "none"
  /\ EndThread(g)
  /\ UNCHANGED <<status, generation, text, sink, thread, voice, shutdown,
                 locks, command, history>>

(* _speak, finally: a completed read reports idle while it is current.     *)
Advertise(g) ==
  /\ Step(g, "advertise", IF Active(g) THEN "forget" ELSE "done")
  /\ EmitGeneration(g, "idle")
  /\ IF Active(g) THEN UNCHANGED <<left, heard, outcome, player>> ELSE EndThread(g)
  /\ UNCHANGED unchangedByEmit

Forget(g) ==
  /\ Step(g, "forget", "done")
  /\ IF g = generation THEN request' = NoRequest /\ source' = "none"
                       ELSE UNCHANGED <<request, source>>
  /\ EndThread(g)
  /\ UNCHANGED <<status, generation, text, sink, thread, voice, shutdown,
                 locks, command, history>>

(* The player process dies by itself.                                      *)
PlayerDies(g) ==
  /\ player[g] = "playing"
  /\ player' = [player EXCEPT ![g] = "ended"]
  /\ UNCHANGED <<shared, locks, command, stage, left, heard, outcome, history>>

-----------------------------------------------------------------------------
Init ==
  /\ status \in {"idle", "setup-required"}     \* is the model file there
  /\ generation = 0 /\ text = 0
  /\ source = "none" /\ request = NoRequest
  /\ sink = 0 /\ thread = 0 /\ voice = "unloaded" /\ shutdown = FALSE
  /\ commandLock = "free" /\ synthesisLock = 0
  /\ at = [t \in Threads |-> IF t = "main" THEN "report" ELSE "ready"]
  /\ op = [t \in Threads |-> IF t = "main" THEN "hello" ELSE "none"]
  /\ asked = [t \in Threads |-> NoRequest]
  /\ ticket = [t \in Threads |-> 0]
  /\ victim = [t \in Threads |-> 0]
  /\ pending = [t \in Threads |-> NoEvent]
  /\ stage = [g \in Generations |-> "unborn"]
  /\ left = [g \in Generations |-> Pieces]
  /\ heard = [g \in Generations |-> FALSE]
  /\ outcome = [g \in Generations |-> "running"]
  /\ player = [g \in Generations |-> "none"]
  /\ shown = NoEvent
  /\ owner = [g \in Generations |-> Nobody]
  /\ accepted = 0
  /\ settled = 0

(* What the threads do once a command or a connection has begun.           *)
MainStep ==
  \/ Condemn \/ Invalidate \/ Silence \/ Detach \/ Unload \/ Exit
  \/ EmitIdle \/ WriteIdle \/ EmitError \/ WriteError \/ ForgetRejected
  \/ EmitReport \/ WriteReport

CommandStep(t) ==
  \/ Label(t) \/ Claim(t) \/ EmitLoading(t) \/ WriteLoading(t)
  \/ Launch(t) \/ EndCommand(t)

SpeakStep(g) ==
  \/ SeekVoice(g) \/ VoiceLoaded(g) \/ VoiceMissing(g) \/ VoiceFailed(g)
  \/ Register(g) \/ EmitSpeaking(g) \/ NextChunk(g) \/ TakeSession(g)
  \/ Infer(g) \/ InferNothing(g) \/ InferFails(g) \/ StartWrite(g) \/ StartWriteFails(g)
  \/ EndWrite(g) \/ EndWriteFails(g) \/ AfterWrite(g) \/ Fail(g)
  \/ Finalize(g) \/ Drain(g) \/ Unhook(g) \/ Retire(g) \/ Advertise(g) \/ Forget(g)

Next ==
  \/ \E o \in CommandOps, r \in Requested : BeginCommand(o, r)
  \/ BeginUndecodable \/ BeginExit \/ BeginAnnounce
  \/ MainStep \/ Refuse \/ Admit
  \/ \E t \in Threads : CommandStep(t)
  \/ \E g \in Generations : SpeakStep(g) \/ PlayerDies(g)
  \/ Exited /\ UNCHANGED vars

Spec == Init /\ [][Next]_vars

(***************************************************************************)
(* Properties.                                                             *)
(***************************************************************************)
CommandSteps == {"ready", "report", "writeReport", "condemn", "invalidate", "silence",
                 "idleEvent", "writeIdle", "detach", "unload", "ending", "closing",
                 "exited", "admit", "label", "errorEvent", "writeError",
                 "forgetRejected", "claim", "loadingEvent", "writeLoading", "launch",
                 "release"}
Stages == {"unborn", "enter", "asleep", "load", "register", "announce", "chunk", "lock",
           "infer", "write", "writing", "wrote", "fail", "final", "drain", "unhook",
           "retire", "advertise", "forget", "done"}

(* Every variable holds a value of its kind. *)
TypeOK ==
  /\ status \in Statuses
  /\ generation \in 0..MaxGeneration
  /\ text \in 0..MaxGeneration
  /\ source \in Sources /\ request \in Requested
  /\ sink \in 0..MaxGeneration /\ thread \in 0..MaxGeneration
  /\ voice \in {"unloaded", "loading", "loaded"} /\ shutdown \in BOOLEAN
  /\ commandLock \in Threads \union {"free"} /\ synthesisLock \in 0..MaxGeneration
  /\ at \in [Threads -> CommandSteps]
  /\ op \in [Threads -> CommandOps \union {"hello", "exit", "none"}]
  /\ asked \in [Threads -> Requested]
  /\ ticket \in [Threads -> 0..MaxGeneration]
  /\ victim \in [Threads -> 0..MaxGeneration]
  /\ pending \in [Threads -> Events]
  /\ stage \in [Generations -> Stages]
  /\ left \in [Generations -> 0..Pieces]
  /\ heard \in [Generations -> BOOLEAN]
  /\ outcome \in [Generations -> {"running", "completed", "error", "setup-required"}]
  /\ player \in [Generations -> {"none", "open", "playing", "stopped", "ended"}]
  /\ shown \in Events
  /\ owner \in [Generations -> Owners]
  /\ accepted \in 0..MaxGeneration
  /\ settled \in 0..MaxGeneration

Audible(g) == player[g] = "playing"

(* Only the last accepted read is ever heard, and after a stop, a replacing *)
(* read or the shutdown has invalidated it, only until the step that kills  *)
(* its sink: no interleaving of _stop_locked, _speak's registration of its  *)
(* sink and AudioSink.write leaves an older player behind.                  *)
OnlyAcceptedAudible ==
  \A g \in Generations :
    Audible(g) => /\ g = accepted
                  /\ \/ g = generation
                     \/ at["main"] = "silence" /\ victim["main"] = g

(* The process leaves no pw-play behind that nobody could stop (run's       *)
(* finally, shutdown): its daemon threads may die anywhere.                 *)
NoOrphanPlayer == Exited => \A g \in Generations : ~Audible(g)

SessionStages == {"infer", "write", "writing", "wrote"}

(* One thread at most is inside the voice session and one at most loads it, *)
(* whatever canceled threads are still unwinding (_synthesis_lock,          *)
(* _voice_loading).                                                         *)
VoiceUsedByOne ==
  \A g, h \in Generations :
    g # h => /\ ~(stage[g] \in SessionStages /\ stage[h] \in SessionStages)
             /\ ~(stage[g] = "load" /\ stage[h] = "load")

RunningStages == Stages \ {"unborn", "advertise", "forget", "done"}

(* The worker keeps a text only while it is read: from its claim to the     *)
(* end of its own thread, never after that thread retired or was canceled.  *)
TextReleased ==
  text # 0 => /\ text = generation
              /\ \/ stage[text] \in RunningStages
                 \/ \E t \in Threads : ticket[t] = text
                       /\ at[t] \in {"loadingEvent", "writeLoading", "launch"}

(* While a read runs, the shared request id is its own, so every event      *)
(* written for it is correlated with it; a selection's is labeled such.     *)
(* That holds on to the event of its end, unless a line that was no JSON    *)
(* has left the status in error: announcements are admitted then (_admit).  *)
EventsNameTheirRead ==
  \A g \in Generations :
    /\ g = generation
    /\ \/ stage[g] \in RunningStages
       \/ stage[g] = "advertise" /\ status \in BusyStatuses
    => /\ request = owner[g].request
       /\ owner[g].source = "selection" => source = "selection"

(* An announcement never cuts off a read: when it claims its generation,    *)
(* nothing is heard and the last read has retired (handle_agent_request     *)
(* "can never race a selection into interrupting it").                      *)
AgentWaits == at["agent"] = "claim" /\ generation' # generation
                => \A g \in Generations :
                     /\ ~Audible(g)
                     /\ g = generation => stage[g] \notin RunningStages
AgentNeverPreempts == [][AgentWaits]_vars

SettledRequests == {owner[g].request : g \in {h \in Generations : h < settled}} \ {NoRequest}

(* Once the idle of a stop, or the loading of a later read, is on stdout,   *)
(* no event shows an earlier request loading or speaking again.             *)
BusyIsUnsettled == shown' # shown /\ shown'.status \in BusyStatuses
                     => shown'.request \notin SettledRequests
SettledStaysQuiet == [][BusyIsUnsettled]_vars

-----------------------------------------------------------------------------
(* What Playback calls the read is the one accepted last.  It is open until *)
(* its text is dropped, by the end of its thread or by the invalidation,    *)
(* and closing while the step that kills its sink is outstanding.           *)
Sounding == IF \E g \in Generations : g = accepted /\ Audible(g) THEN accepted ELSE 0
Phase == IF text # 0 THEN "open"
         ELSE IF at["main"] = "silence" /\ victim["main"] # 0 THEN "closing" ELSE "closed"

P == INSTANCE Playback WITH read <- accepted, phase <- Phase, sounding <- Sounding

(* The threads, locks and generations implement Playback.                   *)
ImplementsPlayback == P!Spec

-----------------------------------------------------------------------------
(* Every thread that can take a step takes one: the loader, inference, the  *)
(* pipe and the wait on a player all return.  Which command or connection   *)
(* comes, and whether one comes, is up to the environment.                  *)
FairSpec == /\ Spec
            /\ WF_vars(MainStep \/ CommandStep("main"))
            /\ WF_vars(Refuse \/ Admit \/ CommandStep("agent"))
            /\ \A g \in Generations : WF_vars(SpeakStep(g))

(* Every read that was started unwinds: no thread sleeps for ever on a load *)
(* that failed or was canceled, or on the synthesis lock.                   *)
ReadsUnwind == \A g \in Generations : (stage[g] = "enter") ~> (stage[g] = "done" \/ Exited)

(* Whatever is heard falls silent, also when the process is gone.           *)
SoundEnds == \A g \in Generations : Audible(g) ~> ~Audible(g)

(* Loading and speaking are always left.                                    *)
BusyEnds == (status \in BusyStatuses) ~> (status \notin BusyStatuses \/ shutdown)

-----------------------------------------------------------------------------
(* What the documentation says and the code does not always do.             *)

(* "Keep the metadata emission ordered with generation transitions" (the    *)
(* comment in _emit_generation): with every thread at rest, the last event  *)
(* tells the status.                                                        *)
AtRest == /\ \A t \in Threads : at[t] = "ready"
          /\ \A g \in Generations : stage[g] \in {"unborn", "done"}
LastEventIsCurrent == AtRest => shown.status = status

(* "State events include source: agent for these requests".                 *)
AgentEventsNameTheirSource ==
  \A g \in Generations :
    g = generation /\ stage[g] \in RunningStages /\ owner[g].source = "agent"
      => source = "agent"

(* "Drop the native session before leaving the stdin loop".                 *)
NoSessionAtExit == at["main"] \in {"closing", "exited"} => voice # "loaded"
=============================================================================
