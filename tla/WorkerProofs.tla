---------------------------- MODULE WorkerProofs ----------------------------
(***************************************************************************)
(* Theorems about Worker, for every bound and every set of requests.       *)
(***************************************************************************)
EXTENDS Worker, TLAPS

(* The steps that are taken under the command lock. *)
MainHolds == {"condemn", "invalidate", "silence", "idleEvent", "writeIdle", "detach",
              "label", "errorEvent", "writeError", "forgetRejected", "claim",
              "loadingEvent", "writeLoading", "launch"}
AgentHolds == {"admit", "label", "claim", "loadingEvent", "writeLoading", "launch",
               "release"}

LockInv ==
  /\ at["main"] \in MainHolds => commandLock = "main"
  /\ at["agent"] \in AgentHolds => commandLock = "agent"
  /\ at["agent"] \in AgentHolds \union {"ready"}
  /\ at["agent"] \in AgentHolds => op["agent"] = "announce"

(* A command that allots generations was admitted with room for them. *)
Ends == {"shutdown", "exit"}
RoomInv ==
  /\ at["main"] \in {"condemn", "invalidate"} => generation + 1 <= MaxGeneration
  /\ at["main"] = "condemn" => op["main"] \in Ends
  /\ at["main"] = "invalidate" /\ op["main"] \notin Ends \union {"stop", "misfit"}
       => generation + 2 <= MaxGeneration
  /\ at["main"] \in {"silence", "detach", "label", "claim"}
       /\ op["main"] \notin Ends \union {"stop", "misfit"}
       => generation + 1 <= MaxGeneration
  /\ at["main"] \in {"idleEvent", "writeIdle"} => op["main"] = "stop"
  /\ at["main"] \in {"label", "claim"} => op["main"] \notin Ends \union {"stop"}
  /\ at["main"] = "claim" => op["main"] # "misfit"
  /\ at["agent"] \in {"admit", "label", "claim"} => generation + 1 <= MaxGeneration

(* The locals of a _speak thread at the stages that rely on them. *)
LocalInv ==
  \A g \in Generations :
    /\ stage[g] \in {"lock", "infer", "write", "writing"} => left[g] > 0
    /\ stage[g] = "fail" => outcome[g] \in {"error", "setup-required"}

TypeInv == TypeOK /\ LockInv /\ RoomInv /\ LocalInv

SinkStages == {"announce", "chunk", "lock", "infer", "write", "writing", "wrote",
               "fail", "final", "drain", "unhook"}
Launching == {"loadingEvent", "writeLoading", "launch"}
Canceled == {"silence", "idleEvent", "writeIdle", "detach", "label", "errorEvent",
             "writeError", "forgetRejected", "claim"}

(* Who is current: the text, the registered sink and the tracked thread all *)
(* belong to the generation accepted last, or are gone. *)
TextInv ==
  /\ accepted <= generation
  /\ text # 0 => text = generation /\ text = accepted
  /\ text # 0 => \/ stage[text] \in RunningStages
                 \/ \E t \in Threads : at[t] \in Launching /\ ticket[t] = text
  /\ \A t \in Threads :
       at[t] \in Launching => text # 0 /\ ticket[t] = text /\ stage[text] = "unborn"
  /\ at["main"] \in Canceled => text = 0
  /\ at["agent"] \in {"label", "claim"} => text = 0

ThreadInv ==
  \A g \in Generations :
    /\ stage[g] # "unborn" => g <= accepted
    /\ g = generation /\ stage[g] \in RunningStages => thread = g /\ text = g

SinkInv ==
  /\ sink # 0 => /\ sink = text
                 /\ stage[sink] \in SinkStages
                 /\ player[sink] # "none"
  /\ victim["main"] # 0 => at["main"] = "silence" /\ victim["main"] = accepted
  /\ \A g \in Generations :
       /\ player[g] \in {"open", "playing"} =>
            \/ sink = g
            \/ at["main"] = "silence" /\ victim["main"] = g
       /\ stage[g] = "unhook" /\ sink = g => player[g] \notin {"open", "playing"}

IInv == TypeInv /\ TextInv /\ ThreadInv /\ SinkInv

(* From the shutdown's cancellation on, nothing can sound any more. *)
ExitInv ==
  /\ at["main"] \in {"unload", "ending", "closing", "exited"} => shutdown /\ sink = 0
  /\ at["main"] = "invalidate" /\ op["main"] \in Ends => shutdown
  /\ at["main"] \in {"silence", "detach"} /\ op["main"] \in Ends => shutdown /\ sink = 0

SessionInv ==
  /\ \A g \in Generations : stage[g] \in SessionStages => synthesisLock = g
  /\ \A g \in Generations : stage[g] = "load" => voice = "loading"
  /\ \A g, h \in Generations : stage[g] = "load" /\ stage[h] = "load" => g = h

-----------------------------------------------------------------------------
(* The invariant is inductive: one step per action. *)

(* Every action of the worker keeps types, locks, room and locals in order.  *)
LEMMA TypeStep == TypeInv /\ [Next]_vars => TypeInv'
<1> SUFFICES ASSUME TypeInv, [Next]_vars
             PROVE  TypeInv'
  OBVIOUS
<1> USE BoundsAssumption, RequestAssumption, CommandsAssumption
    DEF TypeInv, TypeOK, LockInv, RoomInv, LocalInv, vars, shared, locks, command,
        speaker, history, Generations, Threads, Statuses, Requested, Events, Owners,
        CommandSteps, Stages, MainHolds, AgentHolds, Ends, Sources
<1>1. ASSUME NEW o \in CommandOps, NEW r \in Requested, BeginCommand(o, r) PROVE TypeInv'
  BY <1>1, SMTT(90) DEF BeginCommand, FirstStep, Allots, Reserve, CommandOps
<1>2. CASE BeginUndecodable
  BY <1>2 DEF BeginUndecodable, Goto
<1>3. CASE BeginExit
  BY <1>3 DEF BeginExit
<1>4. CASE BeginAnnounce
  BY <1>4 DEF BeginAnnounce, Exited, Reserve
<1>5. CASE Condemn
  BY <1>5 DEF Condemn, Goto
<1>6. CASE Invalidate
  BY <1>6, SMTT(60) DEF Invalidate, Goto
<1>7. CASE Silence
  BY <1>7 DEF Silence
<1>8. CASE Detach
  BY <1>8 DEF Detach, Release
<1>9. CASE Unload
  BY <1>9 DEF Unload
<1>10. CASE Exit
  BY <1>10 DEF Exit, Goto
<1>11. CASE EmitIdle
  BY <1>11 DEF EmitIdle, Emit, Goto, Snapshot, Exited
<1>12. CASE WriteIdle
  <2>1. stage' \in [Generations -> Stages]
    BY <1>12, SMTT(60) DEF WriteIdle, Write, Goto, Exited, NoEvent
  <2>2. player' \in [Generations -> {"none", "open", "playing", "stopped", "ended"}]
    BY <1>12, <2>1, SMTT(60) DEF WriteIdle, Write, Goto, Exited, NoEvent
  <2>3. TypeOK'
    BY <1>12, <2>1, <2>2, SMTT(60) DEF WriteIdle, Write, Goto, Exited, NoEvent
  <2>4. LockInv'
    BY <1>12, <2>1, <2>2, <2>3, SMTT(60) DEF WriteIdle, Write, Goto, Exited, NoEvent
  <2>5. RoomInv'
    BY <1>12, <2>1, <2>2, <2>3, <2>4, SMTT(60) DEF WriteIdle, Write, Goto, Exited, NoEvent
  <2>6. LocalInv'
    BY <1>12, <2>1, <2>2, <2>3, <2>4, <2>5, SMTT(60) DEF WriteIdle, Write, Goto, Exited, NoEvent
  <2> QED
    BY <2>1, <2>2, <2>3, <2>4, <2>5, <2>6
<1>13. CASE EmitError
  BY <1>13 DEF EmitError, Emit, Goto, Snapshot, Exited
<1>14. CASE WriteError
  BY <1>14 DEF WriteError, Write, Goto, Exited, NoEvent
<1>15. CASE ForgetRejected
  BY <1>15 DEF ForgetRejected, Goto
<1>16. CASE EmitReport
  BY <1>16 DEF EmitReport, Emit, Goto, Snapshot, Exited
<1>17. CASE WriteReport
  BY <1>17 DEF WriteReport, Write, Goto, Exited, NoEvent
<1>18. CASE Refuse
  BY <1>18 DEF Refuse, Goto, Release, Exited
<1>19. CASE Admit
  BY <1>19 DEF Admit, Goto, Exited
<1>20. ASSUME NEW t \in Threads, Label(t) PROVE TypeInv'
  <2>1. stage' \in [Generations -> Stages]
    BY <1>20, SMTT(60) DEF Label, SourceOf, Exited
  <2>2. player' \in [Generations -> {"none", "open", "playing", "stopped", "ended"}]
    BY <1>20, <2>1, SMTT(60) DEF Label, SourceOf, Exited
  <2>3. TypeOK'
    BY <1>20, <2>1, <2>2, SMTT(60) DEF Label, SourceOf, Exited
  <2>4. LockInv'
    BY <1>20, <2>1, <2>2, <2>3, SMTT(60) DEF Label, SourceOf, Exited
  <2>5. RoomInv'
    BY <1>20, <2>1, <2>2, <2>3, <2>4, SMTT(60) DEF Label, SourceOf, Exited
  <2>6. LocalInv'
    BY <1>20, <2>1, <2>2, <2>3, <2>4, <2>5, SMTT(60) DEF Label, SourceOf, Exited
  <2> QED
    BY <2>1, <2>2, <2>3, <2>4, <2>5, <2>6
<1>21. ASSUME NEW t \in Threads, Claim(t) PROVE TypeInv'
  BY <1>21 DEF Claim, Goto, SourceOf, Exited
<1>22. ASSUME NEW t \in Threads, EmitLoading(t) PROVE TypeInv'
  BY <1>22 DEF EmitLoading, Emit, Goto, Snapshot, Exited
<1>23. ASSUME NEW t \in Threads, WriteLoading(t) PROVE TypeInv'
  BY <1>23 DEF WriteLoading, Write, Goto, Exited, NoEvent
<1>24. ASSUME NEW t \in Threads, Launch(t) PROVE TypeInv'
  <2> DEFINE k == ticket[t]
  <2>a. stage' = [stage EXCEPT ![k] = "enter"]
    BY <1>24 DEF Launch
  <2>b. stage \in [Generations -> Stages] /\ "enter" \in Stages
    OBVIOUS
  <2> HIDE DEF k
  <2>1. stage' \in [Generations -> Stages]
    <3> HIDE DEF TypeInv, TypeOK, LockInv, RoomInv, LocalInv, Stages, Generations
    <3> QED BY <2>a, <2>b
  <2>2. player' \in [Generations -> {"none", "open", "playing", "stopped", "ended"}]
    BY <1>24, <2>1, SMTT(60) DEF Launch, Goto, Exited
  <2>3. TypeOK'
    BY <1>24, <2>1, <2>2, SMTT(60) DEF Launch, Goto, Exited
  <2>4. LockInv'
    BY <1>24, <2>1, <2>2, <2>3, SMTT(60) DEF Launch, Goto, Exited
  <2>5. RoomInv'
    BY <1>24, <2>1, <2>2, <2>3, <2>4, SMTT(60) DEF Launch, Goto, Exited
  <2>6. LocalInv'
    BY <1>24, <2>1, <2>2, <2>3, <2>4, <2>5, SMTT(60) DEF Launch, Goto, Exited
  <2> QED
    BY <2>1, <2>2, <2>3, <2>4, <2>5, <2>6
<1>25. ASSUME NEW t \in Threads, EndCommand(t) PROVE TypeInv'
  BY <1>25 DEF EndCommand, Goto, Release, Exited
<1>26. ASSUME NEW g \in Generations, SeekVoice(g) PROVE TypeInv'
  <2>1. stage' \in [Generations -> Stages]
    BY <1>26, SMTT(60) DEF SeekVoice, Exited
  <2>2. TypeOK'
    BY <1>26, <2>1, SMTT(60) DEF SeekVoice, Exited
  <2>3. LockInv' /\ RoomInv'
    BY <1>26, <2>1, <2>2, SMTT(60) DEF SeekVoice, Exited
  <2>4. LocalInv'
    BY <1>26, <2>1, <2>2, <2>3, SMTT(60) DEF SeekVoice, Exited
  <2> QED
    BY <2>1, <2>2, <2>3, <2>4
<1>27. ASSUME NEW g \in Generations, VoiceLoaded(g) PROVE TypeInv'
  BY <1>27 DEF VoiceLoaded, EndLoad, Exited
<1>28. ASSUME NEW g \in Generations, VoiceMissing(g) PROVE TypeInv'
  BY <1>28 DEF VoiceMissing, EndLoad, Exited
<1>29. ASSUME NEW g \in Generations, VoiceFailed(g) PROVE TypeInv'
  BY <1>29 DEF VoiceFailed, EndLoad, Exited
<1>30. ASSUME NEW g \in Generations, Register(g) PROVE TypeInv'
  <2>1. stage' \in [Generations -> Stages]
    BY <1>30, SMTT(60) DEF Register, Active, Exited
  <2>2. player' \in [Generations -> {"none", "open", "playing", "stopped", "ended"}]
    BY <1>30, <2>1, SMTT(60) DEF Register, Active, Exited
  <2>3. TypeOK'
    BY <1>30, <2>1, <2>2, SMTT(60) DEF Register, Active, Exited
  <2>4. LockInv'
    BY <1>30, <2>1, <2>2, <2>3, SMTT(60) DEF Register, Active, Exited
  <2>5. RoomInv'
    BY <1>30, <2>1, <2>2, <2>3, <2>4, SMTT(60) DEF Register, Active, Exited
  <2>6. LocalInv'
    BY <1>30, <2>1, <2>2, <2>3, <2>4, <2>5, SMTT(60) DEF Register, Active, Exited
  <2> QED
    BY <2>1, <2>2, <2>3, <2>4, <2>5, <2>6
<1>31. ASSUME NEW g \in Generations, EmitSpeaking(g) PROVE TypeInv'
  BY <1>31 DEF EmitSpeaking, Step, EmitGeneration, unchangedByEmit, Active, Snapshot, Exited
<1>32. ASSUME NEW g \in Generations, NextChunk(g) PROVE TypeInv'
  BY <1>32 DEF NextChunk, Active, Exited
<1>33. ASSUME NEW g \in Generations, TakeSession(g) PROVE TypeInv'
  <2>1. stage' \in [Generations -> Stages]
    BY <1>33, SMTT(60) DEF TakeSession, Active, Exited
  <2>2. player' \in [Generations -> {"none", "open", "playing", "stopped", "ended"}]
    BY <1>33, <2>1, SMTT(60) DEF TakeSession, Active, Exited
  <2>3. TypeOK'
    BY <1>33, <2>1, <2>2, SMTT(60) DEF TakeSession, Active, Exited
  <2>4. LockInv'
    BY <1>33, <2>1, <2>2, <2>3, SMTT(60) DEF TakeSession, Active, Exited
  <2>5. RoomInv'
    BY <1>33, <2>1, <2>2, <2>3, <2>4, SMTT(60) DEF TakeSession, Active, Exited
  <2>6. LocalInv'
    BY <1>33, <2>1, <2>2, <2>3, <2>4, <2>5, SMTT(60) DEF TakeSession, Active, Exited
  <2> QED
    BY <2>1, <2>2, <2>3, <2>4, <2>5, <2>6
<1>34. ASSUME NEW g \in Generations, Infer(g) PROVE TypeInv'
  <2>1. stage' \in [Generations -> Stages]
    BY <1>34, SMTT(60) DEF Infer, Active, Exited
  <2>2. player' \in [Generations -> {"none", "open", "playing", "stopped", "ended"}]
    BY <1>34, <2>1, SMTT(60) DEF Infer, Active, Exited
  <2>3. TypeOK'
    BY <1>34, <2>1, <2>2, SMTT(60) DEF Infer, Active, Exited
  <2>4. LockInv'
    BY <1>34, <2>1, <2>2, <2>3, SMTT(60) DEF Infer, Active, Exited
  <2>5. RoomInv'
    BY <1>34, <2>1, <2>2, <2>3, <2>4, SMTT(60) DEF Infer, Active, Exited
  <2>6. LocalInv'
    BY <1>34, <2>1, <2>2, <2>3, <2>4, <2>5, SMTT(60) DEF Infer, Active, Exited
  <2> QED
    BY <2>1, <2>2, <2>3, <2>4, <2>5, <2>6
<1>35. ASSUME NEW g \in Generations, InferNothing(g) PROVE TypeInv'
  BY <1>35, SMTT(90) DEF InferNothing, Active, Exited
<1>36. ASSUME NEW g \in Generations, InferFails(g) PROVE TypeInv'
  BY <1>36 DEF InferFails, Raise, Exited
<1>37. ASSUME NEW g \in Generations, StartWrite(g) PROVE TypeInv'
  BY <1>37 DEF StartWrite, Exited
<1>38. ASSUME NEW g \in Generations, StartWriteFails(g) PROVE TypeInv'
  BY <1>38 DEF StartWriteFails, Raise, Exited
<1>39. ASSUME NEW g \in Generations, EndWrite(g) PROVE TypeInv'
  <2>1. stage' \in [Generations -> Stages]
    BY <1>39, SMTT(60) DEF EndWrite, Step, Exited
  <2>2. player' \in [Generations -> {"none", "open", "playing", "stopped", "ended"}]
    BY <1>39, <2>1, SMTT(60) DEF EndWrite, Step, Exited
  <2>3. TypeOK'
    BY <1>39, <2>1, <2>2, SMTT(60) DEF EndWrite, Step, Exited
  <2>4. LockInv'
    BY <1>39, <2>1, <2>2, <2>3, SMTT(60) DEF EndWrite, Step, Exited
  <2>5. RoomInv'
    BY <1>39, <2>1, <2>2, <2>3, <2>4, SMTT(60) DEF EndWrite, Step, Exited
  <2>6. LocalInv'
    BY <1>39, <2>1, <2>2, <2>3, <2>4, <2>5, SMTT(60) DEF EndWrite, Step, Exited
  <2> QED
    BY <2>1, <2>2, <2>3, <2>4, <2>5, <2>6
<1>40. ASSUME NEW g \in Generations, EndWriteFails(g) PROVE TypeInv'
  BY <1>40 DEF EndWriteFails, Raise, Exited
<1>41. ASSUME NEW g \in Generations, AfterWrite(g) PROVE TypeInv'
  <2>1. stage' \in [Generations -> Stages]
    BY <1>41, SMTT(60) DEF AfterWrite, EmitGeneration, Active, Snapshot, Exited
  <2>2. player' \in [Generations -> {"none", "open", "playing", "stopped", "ended"}]
    BY <1>41, <2>1, SMTT(60) DEF AfterWrite, EmitGeneration, Active, Snapshot, Exited
  <2>3. TypeOK'
    BY <1>41, <2>1, <2>2, SMTT(60) DEF AfterWrite, EmitGeneration, Active, Snapshot, Exited
  <2>4. LockInv'
    BY <1>41, <2>1, <2>2, <2>3, SMTT(60) DEF AfterWrite, EmitGeneration, Active, Snapshot, Exited
  <2>5. RoomInv'
    BY <1>41, <2>1, <2>2, <2>3, <2>4, SMTT(60) DEF AfterWrite, EmitGeneration, Active, Snapshot, Exited
  <2>6. LocalInv'
    BY <1>41, <2>1, <2>2, <2>3, <2>4, <2>5, SMTT(60) DEF AfterWrite, EmitGeneration, Active, Snapshot, Exited
  <2> QED
    BY <2>1, <2>2, <2>3, <2>4, <2>5, <2>6
<1>42. ASSUME NEW g \in Generations, Fail(g) PROVE TypeInv'
  BY <1>42 DEF Fail, Step, EmitGeneration, unchangedByEmit, Active, Snapshot, Exited
<1>43. ASSUME NEW g \in Generations, Finalize(g) PROVE TypeInv'
  BY <1>43 DEF Finalize, Exited
<1>44. ASSUME NEW g \in Generations, Drain(g) PROVE TypeInv'
  BY <1>44 DEF Drain, Step, Exited
<1>45. ASSUME NEW g \in Generations, Unhook(g) PROVE TypeInv'
  BY <1>45 DEF Unhook, Step, Exited
<1>46. ASSUME NEW g \in Generations, Retire(g) PROVE TypeInv'
  BY <1>46 DEF Retire, Step, Exited
<1>47. ASSUME NEW g \in Generations, Advertise(g) PROVE TypeInv'
  <2>1. stage' \in [Generations -> Stages]
    BY <1>47, SMTT(60) DEF Advertise, Step, EmitGeneration, EndThread, unchangedByEmit, Active, Snapshot, Exited
  <2>2. player' \in [Generations -> {"none", "open", "playing", "stopped", "ended"}]
    BY <1>47, <2>1, SMTT(60) DEF Advertise, Step, EmitGeneration, EndThread, unchangedByEmit, Active, Snapshot, Exited
  <2>c. status' \in Statuses /\ shown' \in Events
    BY <1>47, SMTT(60) DEF Advertise, Step, EmitGeneration, Active, Snapshot
  <2>d. left' \in [Generations -> 0..Pieces]
    BY <1>47, SMTT(60) DEF Advertise, EndThread
  <2>e. heard' \in [Generations -> BOOLEAN]
    <3>1. heard' = heard \/ heard' = [heard EXCEPT ![g] = FALSE]
      BY <1>47 DEF Advertise, EndThread
    <3>2. heard \in [Generations -> BOOLEAN]
      OBVIOUS
    <3> HIDE DEF TypeInv, TypeOK, LockInv, RoomInv, LocalInv, Generations
    <3> QED BY <3>1, <3>2
  <2>f. outcome' \in [Generations -> {"running", "completed", "error", "setup-required"}]
    BY <1>47, SMTT(60) DEF Advertise, EndThread
  <2>3. TypeOK'
    BY <1>47, <2>1, <2>2, <2>c, <2>d, <2>e, <2>f, SMTT(60) DEF Advertise, unchangedByEmit
  <2>4. LockInv'
    BY <1>47, <2>1, <2>2, <2>3, SMTT(60) DEF Advertise, Step, EmitGeneration, EndThread, unchangedByEmit, Active, Snapshot, Exited
  <2>5. RoomInv'
    BY <1>47, <2>1, <2>2, <2>3, <2>4, SMTT(60) DEF Advertise, Step, EmitGeneration, EndThread, unchangedByEmit, Active, Snapshot, Exited
  <2>6. LocalInv'
    BY <1>47, <2>1, <2>2, <2>3, <2>4, <2>5, SMTT(60) DEF Advertise, Step, EmitGeneration, EndThread, unchangedByEmit, Active, Snapshot, Exited
  <2> QED
    BY <2>1, <2>2, <2>3, <2>4, <2>5, <2>6
<1>48. ASSUME NEW g \in Generations, Forget(g) PROVE TypeInv'
  BY <1>48 DEF Forget, Step, EndThread, Exited
<1>49. ASSUME NEW g \in Generations, PlayerDies(g) PROVE TypeInv'
  BY <1>49 DEF PlayerDies
<1>50. CASE UNCHANGED vars
  BY <1>50 DEF vars
<1> HIDE DEF TypeInv, TypeOK, LockInv, RoomInv, LocalInv, vars, shared, locks, command,
        speaker, history, Generations, Threads, Statuses, Requested, Events, Owners,
        CommandSteps, Stages, MainHolds, AgentHolds, Ends, Sources
<1> QED
  BY <1>1, <1>2, <1>3, <1>4, <1>5, <1>6, <1>7, <1>8, <1>9, <1>10,
     <1>11, <1>12, <1>13, <1>14, <1>15, <1>16, <1>17, <1>18, <1>19, <1>20,
     <1>21, <1>22, <1>23, <1>24, <1>25, <1>26, <1>27, <1>28, <1>29, <1>30,
     <1>31, <1>32, <1>33, <1>34, <1>35, <1>36, <1>37, <1>38, <1>39, <1>40,
     <1>41, <1>42, <1>43, <1>44, <1>45, <1>46, <1>47, <1>48, <1>49, <1>50
  DEF Next, MainStep, CommandStep, SpeakStep

(* Every action keeps the text, the generation and the allotted read          *)
(* together.                                                                  *)
LEMMA TextStep == IInv /\ [Next]_vars => TextInv'
<1> SUFFICES ASSUME IInv, [Next]_vars
             PROVE  TextInv'
  OBVIOUS
<1> USE BoundsAssumption
    DEF IInv, TypeInv, TypeOK, LockInv, RoomInv, LocalInv, TextInv, ThreadInv, SinkInv, vars, shared,
        locks, command, speaker, history, Generations, Threads, MainHolds, AgentHolds, Launching,
        Canceled, SinkStages, RunningStages, Stages
<1>1. ASSUME NEW o \in CommandOps, NEW r \in Requested, BeginCommand(o, r) PROVE TextInv'
  BY <1>1, SMTT(30) DEF BeginCommand, FirstStep, Allots, Reserve, CommandOps, Ends
<1>2. CASE BeginUndecodable
  BY <1>2, SMTT(30) DEF BeginUndecodable, Goto
<1>3. CASE BeginExit
  BY <1>3, SMTT(30) DEF BeginExit
<1>4. CASE BeginAnnounce
  BY <1>4, SMTT(30) DEF BeginAnnounce, Exited, Reserve
<1>5. CASE Condemn
  BY <1>5, SMTT(30) DEF Condemn, Goto
<1>6. CASE Invalidate
  BY <1>6, SMTT(30) DEF Invalidate, Goto
<1>7. CASE Silence
  BY <1>7, SMTT(30) DEF Silence
<1>8. CASE Detach
  BY <1>8, SMTT(30) DEF Detach, Release
<1>9. CASE Unload
  BY <1>9, SMTT(30) DEF Unload
<1>10. CASE Exit
  BY <1>10, SMTT(30) DEF Exit, Goto
<1>11. CASE EmitIdle
  BY <1>11, SMTT(30) DEF EmitIdle, Emit, Goto, Snapshot, Exited
<1>12. CASE WriteIdle
  BY <1>12, SMTT(30) DEF WriteIdle, Write, Goto, Exited, NoEvent
<1>13. CASE EmitError
  BY <1>13, SMTT(30) DEF EmitError, Emit, Goto, Snapshot, Exited
<1>14. CASE WriteError
  BY <1>14, SMTT(30) DEF WriteError, Write, Goto, Exited, NoEvent
<1>15. CASE ForgetRejected
  BY <1>15, SMTT(30) DEF ForgetRejected, Goto
<1>16. CASE EmitReport
  BY <1>16, SMTT(30) DEF EmitReport, Emit, Goto, Snapshot, Exited
<1>17. CASE WriteReport
  BY <1>17, SMTT(30) DEF WriteReport, Write, Goto, Exited, NoEvent
<1>18. CASE Refuse
  BY <1>18, SMTT(30) DEF Refuse, Goto, Release, Exited
<1>19. CASE Admit
  BY <1>19, SMTT(30) DEF Admit, Goto, Exited, Busy, Alive
<1>20. ASSUME NEW t \in Threads, Label(t) PROVE TextInv'
  BY <1>20, SMTT(30) DEF Label, SourceOf, Exited
<1>21. ASSUME NEW t \in Threads, Claim(t) PROVE TextInv'
  BY <1>21, SMTT(30) DEF Claim, Goto, SourceOf, Exited
<1>22. ASSUME NEW t \in Threads, EmitLoading(t) PROVE TextInv'
  BY <1>22, SMTT(30) DEF EmitLoading, Emit, Goto, Snapshot, Exited
<1>23. ASSUME NEW t \in Threads, WriteLoading(t) PROVE TextInv'
  BY <1>23, SMTT(30) DEF WriteLoading, Write, Goto, Exited, NoEvent
<1>24. ASSUME NEW t \in Threads, Launch(t) PROVE TextInv'
  BY <1>24, SMTT(30) DEF Launch, Goto, Exited
<1>25. ASSUME NEW t \in Threads, EndCommand(t) PROVE TextInv'
  BY <1>25, SMTT(30) DEF EndCommand, Goto, Release, Exited
<1>26. ASSUME NEW g \in Generations, SeekVoice(g) PROVE TextInv'
  BY <1>26, SMTT(30) DEF SeekVoice, Exited
<1>27. ASSUME NEW g \in Generations, VoiceLoaded(g) PROVE TextInv'
  BY <1>27, SMTT(30) DEF VoiceLoaded, EndLoad, Exited
<1>28. ASSUME NEW g \in Generations, VoiceMissing(g) PROVE TextInv'
  BY <1>28, SMTT(30) DEF VoiceMissing, EndLoad, Exited
<1>29. ASSUME NEW g \in Generations, VoiceFailed(g) PROVE TextInv'
  BY <1>29, SMTT(30) DEF VoiceFailed, EndLoad, Exited
<1>30. ASSUME NEW g \in Generations, Register(g) PROVE TextInv'
  BY <1>30, SMTT(30) DEF Register, Active, Exited
<1>31. ASSUME NEW g \in Generations, EmitSpeaking(g) PROVE TextInv'
  BY <1>31, SMTT(30) DEF EmitSpeaking, Step, EmitGeneration, unchangedByEmit, Active, Snapshot, Exited
<1>32. ASSUME NEW g \in Generations, NextChunk(g) PROVE TextInv'
  BY <1>32, SMTT(30) DEF NextChunk, Active, Exited
<1>33. ASSUME NEW g \in Generations, TakeSession(g) PROVE TextInv'
  BY <1>33, SMTT(30) DEF TakeSession, Active, Exited
<1>34. ASSUME NEW g \in Generations, Infer(g) PROVE TextInv'
  BY <1>34, SMTT(30) DEF Infer, Active, Exited
<1>35. ASSUME NEW g \in Generations, InferNothing(g) PROVE TextInv'
  BY <1>35, SMTT(30) DEF InferNothing, Active, Exited
<1>36. ASSUME NEW g \in Generations, InferFails(g) PROVE TextInv'
  BY <1>36, SMTT(30) DEF InferFails, Raise, Exited
<1>37. ASSUME NEW g \in Generations, StartWrite(g) PROVE TextInv'
  BY <1>37, SMTT(30) DEF StartWrite, Exited
<1>38. ASSUME NEW g \in Generations, StartWriteFails(g) PROVE TextInv'
  BY <1>38, SMTT(30) DEF StartWriteFails, Raise, Exited
<1>39. ASSUME NEW g \in Generations, EndWrite(g) PROVE TextInv'
  BY <1>39, SMTT(30) DEF EndWrite, Step, Exited
<1>40. ASSUME NEW g \in Generations, EndWriteFails(g) PROVE TextInv'
  BY <1>40, SMTT(30) DEF EndWriteFails, Raise, Exited
<1>41. ASSUME NEW g \in Generations, AfterWrite(g) PROVE TextInv'
  BY <1>41, SMTT(30) DEF AfterWrite, EmitGeneration, Active, Snapshot, Exited
<1>42. ASSUME NEW g \in Generations, Fail(g) PROVE TextInv'
  BY <1>42, SMTT(30) DEF Fail, Step, EmitGeneration, unchangedByEmit, Active, Snapshot, Exited
<1>43. ASSUME NEW g \in Generations, Finalize(g) PROVE TextInv'
  BY <1>43, SMTT(30) DEF Finalize, Exited
<1>44. ASSUME NEW g \in Generations, Drain(g) PROVE TextInv'
  BY <1>44, SMTT(30) DEF Drain, Step, Exited
<1>45. ASSUME NEW g \in Generations, Unhook(g) PROVE TextInv'
  BY <1>45, SMTT(30) DEF Unhook, Step, Exited
<1>46. ASSUME NEW g \in Generations, Retire(g) PROVE TextInv'
  BY <1>46, SMTT(30) DEF Retire, Step, Exited
<1>47. ASSUME NEW g \in Generations, Advertise(g) PROVE TextInv'
  BY <1>47, SMTT(30) DEF Advertise, Step, EmitGeneration, EndThread, unchangedByEmit, Active, Snapshot, Exited
<1>48. ASSUME NEW g \in Generations, Forget(g) PROVE TextInv'
  BY <1>48, SMTT(30) DEF Forget, Step, EndThread, Exited
<1>49. ASSUME NEW g \in Generations, PlayerDies(g) PROVE TextInv'
  BY <1>49, SMTT(30) DEF PlayerDies
<1>50. CASE UNCHANGED vars
  BY <1>50 DEF vars
<1> HIDE DEF IInv, TypeInv, TypeOK, LockInv, RoomInv, LocalInv, TextInv, ThreadInv, SinkInv, vars, shared,
        locks, command, speaker, history, Generations, Threads, MainHolds, AgentHolds, Launching,
        Canceled, SinkStages, RunningStages, Stages
<1> QED
  BY <1>1, <1>2, <1>3, <1>4, <1>5, <1>6, <1>7, <1>8, <1>9, <1>10,
     <1>11, <1>12, <1>13, <1>14, <1>15, <1>16, <1>17, <1>18, <1>19, <1>20,
     <1>21, <1>22, <1>23, <1>24, <1>25, <1>26, <1>27, <1>28, <1>29, <1>30,
     <1>31, <1>32, <1>33, <1>34, <1>35, <1>36, <1>37, <1>38, <1>39, <1>40,
     <1>41, <1>42, <1>43, <1>44, <1>45, <1>46, <1>47, <1>48, <1>49, <1>50
  DEF Next, MainStep, CommandStep, SpeakStep

(* Every action leaves the running thread of the current generation tracked.  *)
LEMMA ThreadStep == IInv /\ [Next]_vars => ThreadInv'
<1> SUFFICES ASSUME IInv, [Next]_vars
             PROVE  ThreadInv'
  OBVIOUS
<1> USE BoundsAssumption
    DEF IInv, TypeInv, TypeOK, LockInv, RoomInv, LocalInv, TextInv, ThreadInv, SinkInv, vars, shared,
        locks, command, speaker, history, Generations, Threads, MainHolds, AgentHolds, Launching,
        Canceled, SinkStages, RunningStages, Stages
<1>1. ASSUME NEW o \in CommandOps, NEW r \in Requested, BeginCommand(o, r) PROVE ThreadInv'
  BY <1>1, SMTT(30) DEF BeginCommand, FirstStep, Allots, Reserve, CommandOps, Ends
<1>2. CASE BeginUndecodable
  BY <1>2, SMTT(30) DEF BeginUndecodable, Goto
<1>3. CASE BeginExit
  BY <1>3, SMTT(30) DEF BeginExit
<1>4. CASE BeginAnnounce
  BY <1>4, SMTT(30) DEF BeginAnnounce, Exited, Reserve
<1>5. CASE Condemn
  BY <1>5, SMTT(30) DEF Condemn, Goto
<1>6. CASE Invalidate
  BY <1>6, SMTT(30) DEF Invalidate, Goto
<1>7. CASE Silence
  BY <1>7, SMTT(30) DEF Silence
<1>8. CASE Detach
  BY <1>8, SMTT(30) DEF Detach, Release
<1>9. CASE Unload
  BY <1>9, SMTT(30) DEF Unload
<1>10. CASE Exit
  BY <1>10, SMTT(30) DEF Exit, Goto
<1>11. CASE EmitIdle
  BY <1>11, SMTT(30) DEF EmitIdle, Emit, Goto, Snapshot, Exited
<1>12. CASE WriteIdle
  BY <1>12, SMTT(30) DEF WriteIdle, Write, Goto, Exited, NoEvent
<1>13. CASE EmitError
  BY <1>13, SMTT(30) DEF EmitError, Emit, Goto, Snapshot, Exited
<1>14. CASE WriteError
  BY <1>14, SMTT(30) DEF WriteError, Write, Goto, Exited, NoEvent
<1>15. CASE ForgetRejected
  BY <1>15, SMTT(30) DEF ForgetRejected, Goto
<1>16. CASE EmitReport
  BY <1>16, SMTT(30) DEF EmitReport, Emit, Goto, Snapshot, Exited
<1>17. CASE WriteReport
  BY <1>17, SMTT(30) DEF WriteReport, Write, Goto, Exited, NoEvent
<1>18. CASE Refuse
  BY <1>18, SMTT(30) DEF Refuse, Goto, Release, Exited
<1>19. CASE Admit
  BY <1>19, SMTT(30) DEF Admit, Goto, Exited, Busy, Alive
<1>20. ASSUME NEW t \in Threads, Label(t) PROVE ThreadInv'
  BY <1>20, SMTT(30) DEF Label, SourceOf, Exited
<1>21. ASSUME NEW t \in Threads, Claim(t) PROVE ThreadInv'
  BY <1>21, SMTT(30) DEF Claim, Goto, SourceOf, Exited
<1>22. ASSUME NEW t \in Threads, EmitLoading(t) PROVE ThreadInv'
  BY <1>22, SMTT(30) DEF EmitLoading, Emit, Goto, Snapshot, Exited
<1>23. ASSUME NEW t \in Threads, WriteLoading(t) PROVE ThreadInv'
  BY <1>23, SMTT(30) DEF WriteLoading, Write, Goto, Exited, NoEvent
<1>24. ASSUME NEW t \in Threads, Launch(t) PROVE ThreadInv'
  BY <1>24, SMTT(30) DEF Launch, Goto, Exited
<1>25. ASSUME NEW t \in Threads, EndCommand(t) PROVE ThreadInv'
  BY <1>25, SMTT(30) DEF EndCommand, Goto, Release, Exited
<1>26. ASSUME NEW g \in Generations, SeekVoice(g) PROVE ThreadInv'
  BY <1>26, SMTT(30) DEF SeekVoice, Exited
<1>27. ASSUME NEW g \in Generations, VoiceLoaded(g) PROVE ThreadInv'
  BY <1>27, SMTT(30) DEF VoiceLoaded, EndLoad, Exited
<1>28. ASSUME NEW g \in Generations, VoiceMissing(g) PROVE ThreadInv'
  BY <1>28, SMTT(30) DEF VoiceMissing, EndLoad, Exited
<1>29. ASSUME NEW g \in Generations, VoiceFailed(g) PROVE ThreadInv'
  BY <1>29, SMTT(30) DEF VoiceFailed, EndLoad, Exited
<1>30. ASSUME NEW g \in Generations, Register(g) PROVE ThreadInv'
  BY <1>30, SMTT(30) DEF Register, Active, Exited
<1>31. ASSUME NEW g \in Generations, EmitSpeaking(g) PROVE ThreadInv'
  BY <1>31, SMTT(30) DEF EmitSpeaking, Step, EmitGeneration, unchangedByEmit, Active, Snapshot, Exited
<1>32. ASSUME NEW g \in Generations, NextChunk(g) PROVE ThreadInv'
  BY <1>32, SMTT(30) DEF NextChunk, Active, Exited
<1>33. ASSUME NEW g \in Generations, TakeSession(g) PROVE ThreadInv'
  BY <1>33, SMTT(30) DEF TakeSession, Active, Exited
<1>34. ASSUME NEW g \in Generations, Infer(g) PROVE ThreadInv'
  BY <1>34, SMTT(90) DEF Infer, Active, Exited
<1>35. ASSUME NEW g \in Generations, InferNothing(g) PROVE ThreadInv'
  BY <1>35, SMTT(30) DEF InferNothing, Active, Exited
<1>36. ASSUME NEW g \in Generations, InferFails(g) PROVE ThreadInv'
  BY <1>36, SMTT(30) DEF InferFails, Raise, Exited
<1>37. ASSUME NEW g \in Generations, StartWrite(g) PROVE ThreadInv'
  BY <1>37, SMTT(30) DEF StartWrite, Exited
<1>38. ASSUME NEW g \in Generations, StartWriteFails(g) PROVE ThreadInv'
  BY <1>38, SMTT(30) DEF StartWriteFails, Raise, Exited
<1>39. ASSUME NEW g \in Generations, EndWrite(g) PROVE ThreadInv'
  <2>1. /\ \A h \in Generations : h # g => stage'[h] = stage[h]
        /\ stage[g] \in RunningStages /\ stage'[g] \in RunningStages
    BY <1>39 DEF EndWrite, Step
  <2>2. UNCHANGED <<generation, text, thread, accepted>>
    BY <1>39 DEF EndWrite
  <2> QED BY <2>1, <2>2, SMTT(60)
<1>40. ASSUME NEW g \in Generations, EndWriteFails(g) PROVE ThreadInv'
  BY <1>40, SMTT(30) DEF EndWriteFails, Raise, Exited
<1>41. ASSUME NEW g \in Generations, AfterWrite(g) PROVE ThreadInv'
  BY <1>41, SMTT(30) DEF AfterWrite, EmitGeneration, Active, Snapshot, Exited
<1>42. ASSUME NEW g \in Generations, Fail(g) PROVE ThreadInv'
  BY <1>42, SMTT(30) DEF Fail, Step, EmitGeneration, unchangedByEmit, Active, Snapshot, Exited
<1>43. ASSUME NEW g \in Generations, Finalize(g) PROVE ThreadInv'
  BY <1>43, SMTT(30) DEF Finalize, Exited
<1>44. ASSUME NEW g \in Generations, Drain(g) PROVE ThreadInv'
  <2>1. /\ \A h \in Generations : h # g => stage'[h] = stage[h]
        /\ stage[g] \in RunningStages /\ stage'[g] \in RunningStages
    BY <1>44 DEF Drain, Step
  <2>2. UNCHANGED <<generation, text, thread, accepted>>
    BY <1>44 DEF Drain
  <2> QED BY <2>1, <2>2, SMTT(60)
<1>45. ASSUME NEW g \in Generations, Unhook(g) PROVE ThreadInv'
  BY <1>45, SMTT(30) DEF Unhook, Step, Exited
<1>46. ASSUME NEW g \in Generations, Retire(g) PROVE ThreadInv'
  BY <1>46, SMTT(30) DEF Retire, Step, Exited
<1>47. ASSUME NEW g \in Generations, Advertise(g) PROVE ThreadInv'
  BY <1>47, SMTT(30) DEF Advertise, Step, EmitGeneration, EndThread, unchangedByEmit, Active, Snapshot, Exited
<1>48. ASSUME NEW g \in Generations, Forget(g) PROVE ThreadInv'
  BY <1>48, SMTT(30) DEF Forget, Step, EndThread, Exited
<1>49. ASSUME NEW g \in Generations, PlayerDies(g) PROVE ThreadInv'
  BY <1>49, SMTT(30) DEF PlayerDies
<1>50. CASE UNCHANGED vars
  BY <1>50 DEF vars
<1> HIDE DEF IInv, TypeInv, TypeOK, LockInv, RoomInv, LocalInv, TextInv, ThreadInv, SinkInv, vars, shared,
        locks, command, speaker, history, Generations, Threads, MainHolds, AgentHolds, Launching,
        Canceled, SinkStages, RunningStages, Stages
<1> QED
  BY <1>1, <1>2, <1>3, <1>4, <1>5, <1>6, <1>7, <1>8, <1>9, <1>10,
     <1>11, <1>12, <1>13, <1>14, <1>15, <1>16, <1>17, <1>18, <1>19, <1>20,
     <1>21, <1>22, <1>23, <1>24, <1>25, <1>26, <1>27, <1>28, <1>29, <1>30,
     <1>31, <1>32, <1>33, <1>34, <1>35, <1>36, <1>37, <1>38, <1>39, <1>40,
     <1>41, <1>42, <1>43, <1>44, <1>45, <1>46, <1>47, <1>48, <1>49, <1>50
  DEF Next, MainStep, CommandStep, SpeakStep

(* Every action leaves an open player registered, or about to be killed.      *)
LEMMA SinkStep == IInv /\ [Next]_vars => SinkInv'
<1> SUFFICES ASSUME IInv, [Next]_vars
             PROVE  SinkInv'
  OBVIOUS
<1> USE BoundsAssumption
    DEF IInv, TypeInv, TypeOK, LockInv, RoomInv, LocalInv, TextInv, ThreadInv, SinkInv, vars, shared,
        locks, command, speaker, history, Generations, Threads, MainHolds, AgentHolds, Launching,
        Canceled, SinkStages, RunningStages, Stages
<1>1. ASSUME NEW o \in CommandOps, NEW r \in Requested, BeginCommand(o, r) PROVE SinkInv'
  BY <1>1, SMTT(30) DEF BeginCommand, FirstStep, Allots, Reserve, CommandOps, Ends
<1>2. CASE BeginUndecodable
  BY <1>2, SMTT(30) DEF BeginUndecodable, Goto
<1>3. CASE BeginExit
  BY <1>3, SMTT(30) DEF BeginExit
<1>4. CASE BeginAnnounce
  BY <1>4, SMTT(30) DEF BeginAnnounce, Exited, Reserve
<1>5. CASE Condemn
  BY <1>5, SMTT(30) DEF Condemn, Goto
<1>6. CASE Invalidate
  BY <1>6, SMTT(30) DEF Invalidate, Goto
<1>7. CASE Silence
  BY <1>7, SMTT(30) DEF Silence
<1>8. CASE Detach
  BY <1>8, SMTT(30) DEF Detach, Release
<1>9. CASE Unload
  BY <1>9, SMTT(30) DEF Unload
<1>10. CASE Exit
  BY <1>10, SMTT(30) DEF Exit, Goto
<1>11. CASE EmitIdle
  BY <1>11, SMTT(30) DEF EmitIdle, Emit, Goto, Snapshot, Exited
<1>12. CASE WriteIdle
  BY <1>12, SMTT(30) DEF WriteIdle, Write, Goto, Exited, NoEvent
<1>13. CASE EmitError
  BY <1>13, SMTT(30) DEF EmitError, Emit, Goto, Snapshot, Exited
<1>14. CASE WriteError
  BY <1>14, SMTT(30) DEF WriteError, Write, Goto, Exited, NoEvent
<1>15. CASE ForgetRejected
  BY <1>15, SMTT(30) DEF ForgetRejected, Goto
<1>16. CASE EmitReport
  BY <1>16, SMTT(30) DEF EmitReport, Emit, Goto, Snapshot, Exited
<1>17. CASE WriteReport
  BY <1>17, SMTT(30) DEF WriteReport, Write, Goto, Exited, NoEvent
<1>18. CASE Refuse
  BY <1>18, SMTT(30) DEF Refuse, Goto, Release, Exited
<1>19. CASE Admit
  BY <1>19, SMTT(30) DEF Admit, Goto, Exited, Busy, Alive
<1>20. ASSUME NEW t \in Threads, Label(t) PROVE SinkInv'
  BY <1>20, SMTT(30) DEF Label, SourceOf, Exited
<1>21. ASSUME NEW t \in Threads, Claim(t) PROVE SinkInv'
  BY <1>21, SMTT(30) DEF Claim, Goto, SourceOf, Exited
<1>22. ASSUME NEW t \in Threads, EmitLoading(t) PROVE SinkInv'
  BY <1>22, SMTT(30) DEF EmitLoading, Emit, Goto, Snapshot, Exited
<1>23. ASSUME NEW t \in Threads, WriteLoading(t) PROVE SinkInv'
  BY <1>23, SMTT(30) DEF WriteLoading, Write, Goto, Exited, NoEvent
<1>24. ASSUME NEW t \in Threads, Launch(t) PROVE SinkInv'
  BY <1>24, SMTT(30) DEF Launch, Goto, Exited
<1>25. ASSUME NEW t \in Threads, EndCommand(t) PROVE SinkInv'
  BY <1>25, SMTT(30) DEF EndCommand, Goto, Release, Exited
<1>26. ASSUME NEW g \in Generations, SeekVoice(g) PROVE SinkInv'
  BY <1>26, SMTT(30) DEF SeekVoice, Exited
<1>27. ASSUME NEW g \in Generations, VoiceLoaded(g) PROVE SinkInv'
  BY <1>27, SMTT(30) DEF VoiceLoaded, EndLoad, Exited
<1>28. ASSUME NEW g \in Generations, VoiceMissing(g) PROVE SinkInv'
  BY <1>28, SMTT(30) DEF VoiceMissing, EndLoad, Exited
<1>29. ASSUME NEW g \in Generations, VoiceFailed(g) PROVE SinkInv'
  BY <1>29, SMTT(30) DEF VoiceFailed, EndLoad, Exited
<1>30. ASSUME NEW g \in Generations, Register(g) PROVE SinkInv'
  BY <1>30, SMTT(30) DEF Register, Active, Exited
<1>31. ASSUME NEW g \in Generations, EmitSpeaking(g) PROVE SinkInv'
  BY <1>31, SMTT(30) DEF EmitSpeaking, Step, EmitGeneration, unchangedByEmit, Active, Snapshot, Exited
<1>32. ASSUME NEW g \in Generations, NextChunk(g) PROVE SinkInv'
  BY <1>32, SMTT(30) DEF NextChunk, Active, Exited
<1>33. ASSUME NEW g \in Generations, TakeSession(g) PROVE SinkInv'
  BY <1>33, SMTT(30) DEF TakeSession, Active, Exited
<1>34. ASSUME NEW g \in Generations, Infer(g) PROVE SinkInv'
  BY <1>34, SMTT(30) DEF Infer, Active, Exited
<1>35. ASSUME NEW g \in Generations, InferNothing(g) PROVE SinkInv'
  BY <1>35, SMTT(30) DEF InferNothing, Active, Exited
<1>36. ASSUME NEW g \in Generations, InferFails(g) PROVE SinkInv'
  BY <1>36, SMTT(30) DEF InferFails, Raise, Exited
<1>37. ASSUME NEW g \in Generations, StartWrite(g) PROVE SinkInv'
  BY <1>37, SMTT(30) DEF StartWrite, Exited
<1>38. ASSUME NEW g \in Generations, StartWriteFails(g) PROVE SinkInv'
  BY <1>38, SMTT(30) DEF StartWriteFails, Raise, Exited
<1>39. ASSUME NEW g \in Generations, EndWrite(g) PROVE SinkInv'
  BY <1>39, SMTT(30) DEF EndWrite, Step, Exited
<1>40. ASSUME NEW g \in Generations, EndWriteFails(g) PROVE SinkInv'
  BY <1>40, SMTT(30) DEF EndWriteFails, Raise, Exited
<1>41. ASSUME NEW g \in Generations, AfterWrite(g) PROVE SinkInv'
  BY <1>41, SMTT(30) DEF AfterWrite, EmitGeneration, Active, Snapshot, Exited
<1>42. ASSUME NEW g \in Generations, Fail(g) PROVE SinkInv'
  BY <1>42, SMTT(30) DEF Fail, Step, EmitGeneration, unchangedByEmit, Active, Snapshot, Exited
<1>43. ASSUME NEW g \in Generations, Finalize(g) PROVE SinkInv'
  BY <1>43, SMTT(30) DEF Finalize, Exited
<1>44. ASSUME NEW g \in Generations, Drain(g) PROVE SinkInv'
  BY <1>44, SMTT(30) DEF Drain, Step, Exited
<1>45. ASSUME NEW g \in Generations, Unhook(g) PROVE SinkInv'
  BY <1>45, SMTT(30) DEF Unhook, Step, Exited
<1>46. ASSUME NEW g \in Generations, Retire(g) PROVE SinkInv'
  BY <1>46, SMTT(30) DEF Retire, Step, Exited
<1>47. ASSUME NEW g \in Generations, Advertise(g) PROVE SinkInv'
  BY <1>47, SMTT(30) DEF Advertise, Step, EmitGeneration, EndThread, unchangedByEmit, Active, Snapshot, Exited
<1>48. ASSUME NEW g \in Generations, Forget(g) PROVE SinkInv'
  BY <1>48, SMTT(30) DEF Forget, Step, EndThread, Exited
<1>49. ASSUME NEW g \in Generations, PlayerDies(g) PROVE SinkInv'
  BY <1>49, SMTT(30) DEF PlayerDies
<1>50. CASE UNCHANGED vars
  BY <1>50 DEF vars
<1> HIDE DEF IInv, TypeInv, TypeOK, LockInv, RoomInv, LocalInv, TextInv, ThreadInv, SinkInv, vars, shared,
        locks, command, speaker, history, Generations, Threads, MainHolds, AgentHolds, Launching,
        Canceled, SinkStages, RunningStages, Stages
<1> QED
  BY <1>1, <1>2, <1>3, <1>4, <1>5, <1>6, <1>7, <1>8, <1>9, <1>10,
     <1>11, <1>12, <1>13, <1>14, <1>15, <1>16, <1>17, <1>18, <1>19, <1>20,
     <1>21, <1>22, <1>23, <1>24, <1>25, <1>26, <1>27, <1>28, <1>29, <1>30,
     <1>31, <1>32, <1>33, <1>34, <1>35, <1>36, <1>37, <1>38, <1>39, <1>40,
     <1>41, <1>42, <1>43, <1>44, <1>45, <1>46, <1>47, <1>48, <1>49, <1>50
  DEF Next, MainStep, CommandStep, SpeakStep


(* The worker starts in the invariant.                                        *)
LEMMA InvInit == Init => IInv
<1> SUFFICES ASSUME Init
             PROVE  IInv
  OBVIOUS
<1> USE BoundsAssumption, RequestAssumption DEF Init, Generations, Threads
<1>1. TypeOK
  <2>1. /\ generation \in 0..MaxGeneration /\ text \in 0..MaxGeneration
        /\ sink \in 0..MaxGeneration /\ thread \in 0..MaxGeneration
        /\ synthesisLock \in 0..MaxGeneration /\ accepted \in 0..MaxGeneration
        /\ settled \in 0..MaxGeneration /\ ticket \in [Threads -> 0..MaxGeneration]
        /\ victim \in [Threads -> 0..MaxGeneration]
    OBVIOUS
  <2>2. /\ status \in Statuses /\ source \in Sources /\ request \in Requested
        /\ voice \in {"unloaded", "loading", "loaded"} /\ shutdown \in BOOLEAN
        /\ commandLock \in Threads \union {"free"}
    BY DEF Statuses, Sources, Requested
  <2>3. /\ at \in [Threads -> CommandSteps]
        /\ op \in [Threads -> CommandOps \union {"hello", "exit", "none"}]
        /\ asked \in [Threads -> Requested]
    BY DEF CommandSteps, Requested
  <2>4. pending \in [Threads -> Events] /\ shown \in Events
    BY DEF Events, NoEvent, Statuses, Sources, Requested
  <2>5. /\ stage \in [Generations -> Stages] /\ left \in [Generations -> 0..Pieces]
        /\ outcome \in [Generations -> {"running", "completed", "error", "setup-required"}]
        /\ player \in [Generations -> {"none", "open", "playing", "stopped", "ended"}]
    BY DEF Stages
  <2>6. heard \in [Generations -> BOOLEAN]
    OBVIOUS
  <2>7. owner \in [Generations -> Owners]
    BY DEF Owners, Nobody, Sources, Requested
  <2> QED
    BY <2>1, <2>2, <2>3, <2>4, <2>5, <2>6, <2>7 DEF TypeOK
<1>2. LockInv /\ RoomInv /\ LocalInv
  BY DEF LockInv, RoomInv, LocalInv, MainHolds, AgentHolds, Ends
<1>3. TextInv /\ ThreadInv /\ SinkInv
  BY DEF TextInv, ThreadInv, SinkInv, RunningStages, Launching, Canceled
<1> QED
  BY <1>1, <1>2, <1>3 DEF IInv, TypeInv

(* The invariant is inductive ...                                             *)
LEMMA InvStep == IInv /\ [Next]_vars => IInv'
  BY TypeStep, TextStep, ThreadStep, SinkStep DEF IInv

(* ... and holds of every behaviour.                                          *)
LEMMA InvHolds == Spec => []IInv
  BY InvInit, InvStep, PTL DEF Spec

(* TypeOK holds of every behaviour of the worker, for every bound. *)
THEOREM TypeCorrect == Spec => []TypeOK
<1>1. IInv => TypeOK
  BY DEF IInv, TypeInv
<1> QED
  BY <1>1, InvHolds, PTL

(* Only the last accepted read is heard, and once it is canceled only until *)
(* the step that kills its sink. *)
THEOREM AudibleSafe == Spec => []OnlyAcceptedAudible
<1>1. IInv => OnlyAcceptedAudible
  BY DEF IInv, TextInv, SinkInv, OnlyAcceptedAudible, Audible, Generations
<1> QED
  BY <1>1, InvHolds, PTL

(* The worker keeps a text only for the read that is running. *)
THEOREM TextSafe == Spec => []TextReleased
<1>1. IInv => TextReleased
  BY DEF IInv, TextInv, TextReleased, Launching
<1> QED
  BY <1>1, InvHolds, PTL

(* An announcement is only ever admitted in silence, after the last read    *)
(* has retired. *)
THEOREM AgentSafe == Spec => AgentNeverPreempts
<1>1. IInv /\ [Next]_vars => [AgentWaits]_vars
  <2> SUFFICES ASSUME IInv, at["agent"] = "claim"
               PROVE  \A g \in Generations : ~Audible(g)
                        /\ (g = generation => stage[g] \notin RunningStages)
    BY DEF AgentWaits
  <2>1. text = 0 /\ sink = 0
    BY DEF IInv, TextInv, SinkInv
  <2>2. at["main"] # "silence"
    BY DEF IInv, TypeInv, LockInv, AgentHolds, MainHolds
  <2> QED
    BY <2>1, <2>2 DEF IInv, SinkInv, ThreadInv, Audible, Generations
<1> QED
  BY <1>1, InvHolds, PTL DEF Spec, AgentNeverPreempts

(* Once the shutdown has canceled the read, no sink is registered again.      *)
LEMMA ExitStep == TypeOK /\ RoomInv /\ ExitInv /\ [Next]_vars => ExitInv'
<1> SUFFICES ASSUME TypeOK, RoomInv, ExitInv, [Next]_vars
             PROVE  ExitInv'
  OBVIOUS
<1> USE BoundsAssumption
    DEF TypeOK, ExitInv, Ends, vars, shared, locks, command, speaker, history,
        Generations, Threads
<1>1. ASSUME NEW o \in CommandOps, NEW r \in Requested, BeginCommand(o, r) PROVE ExitInv'
  BY <1>1, SMTT(30) DEF BeginCommand, FirstStep, Allots, Reserve, CommandOps
<1>2. CASE BeginUndecodable
  BY <1>2, SMTT(30) DEF BeginUndecodable, Goto
<1>3. CASE BeginExit
  BY <1>3, SMTT(30) DEF BeginExit
<1>4. CASE BeginAnnounce
  BY <1>4, SMTT(30) DEF BeginAnnounce, Exited, Reserve
<1>5. CASE Condemn
  BY <1>5, SMTT(30) DEF Condemn, Goto
<1>6. CASE Invalidate
  BY <1>6, SMTT(30) DEF Invalidate, Goto
<1>7. CASE Silence
  BY <1>7, SMTT(30) DEF Silence
<1>8. CASE Detach
  BY <1>8, SMTT(30) DEF Detach, Release
<1>9. CASE Unload
  BY <1>9, SMTT(30) DEF Unload
<1>10. CASE Exit
  BY <1>10, SMTT(30) DEF Exit, Goto
<1>11. CASE EmitIdle
  BY <1>11, SMTT(30) DEF EmitIdle, Emit, Goto, Snapshot, Exited
<1>12. CASE WriteIdle
  BY <1>12, SMTT(30) DEF WriteIdle, Write, Goto, RoomInv
<1>13. CASE EmitError
  BY <1>13, SMTT(30) DEF EmitError, Emit, Goto, Snapshot, Exited
<1>14. CASE WriteError
  BY <1>14, SMTT(30) DEF WriteError, Write, Goto, Exited, NoEvent
<1>15. CASE ForgetRejected
  BY <1>15, SMTT(30) DEF ForgetRejected, Goto
<1>16. CASE EmitReport
  BY <1>16, SMTT(30) DEF EmitReport, Emit, Goto, Snapshot, Exited
<1>17. CASE WriteReport
  BY <1>17, SMTT(30) DEF WriteReport, Write, Goto, Exited, NoEvent
<1>18. CASE Refuse
  BY <1>18, SMTT(30) DEF Refuse, Goto, Release, Exited
<1>19. CASE Admit
  BY <1>19, SMTT(30) DEF Admit, Goto, Exited
<1>20. ASSUME NEW t \in Threads, Label(t) PROVE ExitInv'
  BY <1>20, SMTT(30) DEF Label, SourceOf, Exited
<1>21. ASSUME NEW t \in Threads, Claim(t) PROVE ExitInv'
  BY <1>21, SMTT(30) DEF Claim, Goto, SourceOf, Exited
<1>22. ASSUME NEW t \in Threads, EmitLoading(t) PROVE ExitInv'
  BY <1>22, SMTT(30) DEF EmitLoading, Emit, Goto, Snapshot, Exited
<1>23. ASSUME NEW t \in Threads, WriteLoading(t) PROVE ExitInv'
  BY <1>23, SMTT(30) DEF WriteLoading, Write, Goto, Exited, NoEvent
<1>24. ASSUME NEW t \in Threads, Launch(t) PROVE ExitInv'
  BY <1>24, SMTT(30) DEF Launch, Goto, Exited
<1>25. ASSUME NEW t \in Threads, EndCommand(t) PROVE ExitInv'
  BY <1>25, SMTT(30) DEF EndCommand, Goto, Release, Exited
<1>26. ASSUME NEW g \in Generations, SeekVoice(g) PROVE ExitInv'
  BY <1>26, SMTT(30) DEF SeekVoice, Exited
<1>27. ASSUME NEW g \in Generations, VoiceLoaded(g) PROVE ExitInv'
  BY <1>27, SMTT(30) DEF VoiceLoaded, EndLoad, Exited
<1>28. ASSUME NEW g \in Generations, VoiceMissing(g) PROVE ExitInv'
  BY <1>28, SMTT(30) DEF VoiceMissing, EndLoad, Exited
<1>29. ASSUME NEW g \in Generations, VoiceFailed(g) PROVE ExitInv'
  BY <1>29, SMTT(30) DEF VoiceFailed, EndLoad, Exited
<1>30. ASSUME NEW g \in Generations, Register(g) PROVE ExitInv'
  BY <1>30, SMTT(30) DEF Register, Active, Exited
<1>31. ASSUME NEW g \in Generations, EmitSpeaking(g) PROVE ExitInv'
  BY <1>31, SMTT(30) DEF EmitSpeaking, Step, EmitGeneration, unchangedByEmit, Active, Snapshot, Exited
<1>32. ASSUME NEW g \in Generations, NextChunk(g) PROVE ExitInv'
  BY <1>32, SMTT(30) DEF NextChunk, Active, Exited
<1>33. ASSUME NEW g \in Generations, TakeSession(g) PROVE ExitInv'
  BY <1>33, SMTT(30) DEF TakeSession, Active, Exited
<1>34. ASSUME NEW g \in Generations, Infer(g) PROVE ExitInv'
  BY <1>34, SMTT(30) DEF Infer, Active, Exited
<1>35. ASSUME NEW g \in Generations, InferNothing(g) PROVE ExitInv'
  BY <1>35, SMTT(30) DEF InferNothing, Active, Exited
<1>36. ASSUME NEW g \in Generations, InferFails(g) PROVE ExitInv'
  BY <1>36, SMTT(30) DEF InferFails, Raise, Exited
<1>37. ASSUME NEW g \in Generations, StartWrite(g) PROVE ExitInv'
  BY <1>37, SMTT(30) DEF StartWrite, Exited
<1>38. ASSUME NEW g \in Generations, StartWriteFails(g) PROVE ExitInv'
  BY <1>38, SMTT(30) DEF StartWriteFails, Raise, Exited
<1>39. ASSUME NEW g \in Generations, EndWrite(g) PROVE ExitInv'
  BY <1>39, SMTT(30) DEF EndWrite, Step, Exited
<1>40. ASSUME NEW g \in Generations, EndWriteFails(g) PROVE ExitInv'
  BY <1>40, SMTT(30) DEF EndWriteFails, Raise, Exited
<1>41. ASSUME NEW g \in Generations, AfterWrite(g) PROVE ExitInv'
  BY <1>41, SMTT(30) DEF AfterWrite, EmitGeneration, Active, Snapshot, Exited
<1>42. ASSUME NEW g \in Generations, Fail(g) PROVE ExitInv'
  BY <1>42, SMTT(30) DEF Fail, Step, EmitGeneration, unchangedByEmit, Active, Snapshot, Exited
<1>43. ASSUME NEW g \in Generations, Finalize(g) PROVE ExitInv'
  BY <1>43, SMTT(30) DEF Finalize, Exited
<1>44. ASSUME NEW g \in Generations, Drain(g) PROVE ExitInv'
  BY <1>44, SMTT(30) DEF Drain, Step, Exited
<1>45. ASSUME NEW g \in Generations, Unhook(g) PROVE ExitInv'
  BY <1>45, SMTT(30) DEF Unhook, Step, Exited
<1>46. ASSUME NEW g \in Generations, Retire(g) PROVE ExitInv'
  BY <1>46, SMTT(30) DEF Retire, Step, Exited
<1>47. ASSUME NEW g \in Generations, Advertise(g) PROVE ExitInv'
  BY <1>47, SMTT(30) DEF Advertise, Step, EmitGeneration, EndThread, unchangedByEmit, Active, Snapshot, Exited
<1>48. ASSUME NEW g \in Generations, Forget(g) PROVE ExitInv'
  BY <1>48, SMTT(30) DEF Forget, Step, EndThread, Exited
<1>49. ASSUME NEW g \in Generations, PlayerDies(g) PROVE ExitInv'
  BY <1>49, SMTT(30) DEF PlayerDies
<1>50. CASE UNCHANGED vars
  BY <1>50 DEF vars
<1> HIDE DEF TypeOK, ExitInv, Ends, vars, shared, locks, command, speaker, history,
        Generations, Threads
<1> QED
  BY <1>1, <1>2, <1>3, <1>4, <1>5, <1>6, <1>7, <1>8, <1>9, <1>10,
     <1>11, <1>12, <1>13, <1>14, <1>15, <1>16, <1>17, <1>18, <1>19, <1>20,
     <1>21, <1>22, <1>23, <1>24, <1>25, <1>26, <1>27, <1>28, <1>29, <1>30,
     <1>31, <1>32, <1>33, <1>34, <1>35, <1>36, <1>37, <1>38, <1>39, <1>40,
     <1>41, <1>42, <1>43, <1>44, <1>45, <1>46, <1>47, <1>48, <1>49, <1>50
  DEF Next, MainStep, CommandStep, SpeakStep

(* A thread that moves on inside the session keeps its lock. *)
LEMMA SessionMove ==
  ASSUME NEW g \in Generations, SessionInv, stage \in [Generations -> Stages],
         stage[g] \in SessionStages, UNCHANGED <<synthesisLock, voice>>,
         stage' = [stage EXCEPT ![g] = "write"]
  PROVE  SessionInv'
  BY DEF SessionInv, SessionStages

(* A thread that leaves the session drops the lock that was its own. *)
LEMMA SessionLeave ==
  ASSUME NEW g \in Generations, SessionInv, stage \in [Generations -> Stages],
         stage[g] \in SessionStages, synthesisLock' = 0, UNCHANGED voice,
         stage' = [stage EXCEPT ![g] = "final"]
  PROVE  SessionInv'
  BY BoundsAssumption DEF SessionInv, SessionStages, Generations

(* Every action leaves the voice session to the holder of its lock.           *)
LEMMA SessionStep == TypeOK /\ SessionInv /\ [Next]_vars => SessionInv'
<1> SUFFICES ASSUME TypeOK, SessionInv, [Next]_vars
             PROVE  SessionInv'
  OBVIOUS
<1> USE BoundsAssumption
    DEF TypeOK, SessionInv, SessionStages, vars, shared, locks, command, speaker, history,
        Generations, Threads
<1>1. ASSUME NEW o \in CommandOps, NEW r \in Requested, BeginCommand(o, r) PROVE SessionInv'
  BY <1>1, SMTT(30) DEF BeginCommand, FirstStep, Allots, Reserve, CommandOps
<1>2. CASE BeginUndecodable
  BY <1>2, SMTT(30) DEF BeginUndecodable, Goto
<1>3. CASE BeginExit
  BY <1>3, SMTT(30) DEF BeginExit
<1>4. CASE BeginAnnounce
  BY <1>4, SMTT(30) DEF BeginAnnounce, Exited, Reserve
<1>5. CASE Condemn
  BY <1>5, SMTT(30) DEF Condemn, Goto
<1>6. CASE Invalidate
  BY <1>6, SMTT(30) DEF Invalidate, Goto
<1>7. CASE Silence
  BY <1>7, SMTT(30) DEF Silence
<1>8. CASE Detach
  BY <1>8, SMTT(30) DEF Detach, Release
<1>9. CASE Unload
  BY <1>9, SMTT(30) DEF Unload
<1>10. CASE Exit
  BY <1>10, SMTT(30) DEF Exit, Goto
<1>11. CASE EmitIdle
  BY <1>11, SMTT(30) DEF EmitIdle, Emit, Goto, Snapshot, Exited
<1>12. CASE WriteIdle
  BY <1>12, SMTT(30) DEF WriteIdle, Write, Goto, Exited, NoEvent
<1>13. CASE EmitError
  BY <1>13, SMTT(30) DEF EmitError, Emit, Goto, Snapshot, Exited
<1>14. CASE WriteError
  BY <1>14, SMTT(30) DEF WriteError, Write, Goto, Exited, NoEvent
<1>15. CASE ForgetRejected
  BY <1>15, SMTT(30) DEF ForgetRejected, Goto
<1>16. CASE EmitReport
  BY <1>16, SMTT(30) DEF EmitReport, Emit, Goto, Snapshot, Exited
<1>17. CASE WriteReport
  BY <1>17, SMTT(30) DEF WriteReport, Write, Goto, Exited, NoEvent
<1>18. CASE Refuse
  BY <1>18, SMTT(30) DEF Refuse, Goto, Release, Exited
<1>19. CASE Admit
  BY <1>19, SMTT(30) DEF Admit, Goto, Exited
<1>20. ASSUME NEW t \in Threads, Label(t) PROVE SessionInv'
  BY <1>20, SMTT(30) DEF Label, SourceOf, Exited
<1>21. ASSUME NEW t \in Threads, Claim(t) PROVE SessionInv'
  BY <1>21, SMTT(30) DEF Claim, Goto, SourceOf, Exited
<1>22. ASSUME NEW t \in Threads, EmitLoading(t) PROVE SessionInv'
  BY <1>22, SMTT(30) DEF EmitLoading, Emit, Goto, Snapshot, Exited
<1>23. ASSUME NEW t \in Threads, WriteLoading(t) PROVE SessionInv'
  BY <1>23, SMTT(30) DEF WriteLoading, Write, Goto, Exited, NoEvent
<1>24. ASSUME NEW t \in Threads, Launch(t) PROVE SessionInv'
  BY <1>24, SMTT(30) DEF Launch, Goto, Exited
<1>25. ASSUME NEW t \in Threads, EndCommand(t) PROVE SessionInv'
  BY <1>25, SMTT(30) DEF EndCommand, Goto, Release, Exited
<1>26. ASSUME NEW g \in Generations, SeekVoice(g) PROVE SessionInv'
  BY <1>26, SMTT(30) DEF SeekVoice, Exited
<1>27. ASSUME NEW g \in Generations, VoiceLoaded(g) PROVE SessionInv'
  BY <1>27, SMTT(30) DEF VoiceLoaded, EndLoad, Exited
<1>28. ASSUME NEW g \in Generations, VoiceMissing(g) PROVE SessionInv'
  BY <1>28, SMTT(30) DEF VoiceMissing, EndLoad, Exited
<1>29. ASSUME NEW g \in Generations, VoiceFailed(g) PROVE SessionInv'
  BY <1>29, SMTT(30) DEF VoiceFailed, EndLoad, Exited
<1>30. ASSUME NEW g \in Generations, Register(g) PROVE SessionInv'
  BY <1>30, SMTT(30) DEF Register, Active, Exited
<1>31. ASSUME NEW g \in Generations, EmitSpeaking(g) PROVE SessionInv'
  BY <1>31, SMTT(30) DEF EmitSpeaking, Step, EmitGeneration, unchangedByEmit, Active, Snapshot, Exited
<1>32. ASSUME NEW g \in Generations, NextChunk(g) PROVE SessionInv'
  BY <1>32, SMTT(30) DEF NextChunk, Active, Exited
<1>33. ASSUME NEW g \in Generations, TakeSession(g) PROVE SessionInv'
  BY <1>33, SMTT(30) DEF TakeSession, Active, Exited
<1>34. ASSUME NEW g \in Generations, Infer(g) PROVE SessionInv'
  <2>1. CASE Active(g)
    BY <1>34, <2>1, SessionMove DEF Infer
  <2>2. CASE ~Active(g)
    BY <1>34, <2>2, SessionLeave DEF Infer
  <2> QED
    BY <2>1, <2>2
<1>35. ASSUME NEW g \in Generations, InferNothing(g) PROVE SessionInv'
  BY <1>35, SMTT(30) DEF InferNothing, Active, Exited
<1>36. ASSUME NEW g \in Generations, InferFails(g) PROVE SessionInv'
  BY <1>36, SMTT(30) DEF InferFails, Raise, Exited
<1>37. ASSUME NEW g \in Generations, StartWrite(g) PROVE SessionInv'
  BY <1>37, SMTT(30) DEF StartWrite, Exited
<1>38. ASSUME NEW g \in Generations, StartWriteFails(g) PROVE SessionInv'
  BY <1>38, SMTT(30) DEF StartWriteFails, Raise, Exited
<1>39. ASSUME NEW g \in Generations, EndWrite(g) PROVE SessionInv'
  BY <1>39, SMTT(30) DEF EndWrite, Step, Exited
<1>40. ASSUME NEW g \in Generations, EndWriteFails(g) PROVE SessionInv'
  BY <1>40, SMTT(30) DEF EndWriteFails, Raise, Exited
<1>41. ASSUME NEW g \in Generations, AfterWrite(g) PROVE SessionInv'
  <2>1. stage[g] = "wrote" /\ voice' = voice
    BY <1>41 DEF AfterWrite
  <2>2. \/ stage' = [stage EXCEPT ![g] = "infer"] /\ synthesisLock' = synthesisLock
        \/ stage' = [stage EXCEPT ![g] = "chunk"]
    BY <1>41 DEF AfterWrite
  <2>3. \A h \in Generations : h # g => stage[h] \notin SessionStages
    BY <2>1
  <2>4. \A h \in Generations : stage'[h] \in SessionStages => synthesisLock' = h
    <3>1. CASE stage' = [stage EXCEPT ![g] = "infer"] /\ synthesisLock' = synthesisLock
      BY <3>1, <2>1
    <3>2. CASE stage' = [stage EXCEPT ![g] = "chunk"]
      BY <3>2, <2>1, <2>3
    <3> QED BY <2>2, <3>1, <3>2
  <2>5. \A h \in Generations : stage'[h] = "load" => stage[h] = "load"
    BY <2>1, <2>2
  <2> QED
    BY <2>1, <2>4, <2>5
<1>42. ASSUME NEW g \in Generations, Fail(g) PROVE SessionInv'
  BY <1>42, SMTT(30) DEF Fail, Step, EmitGeneration, unchangedByEmit, Active, Snapshot, Exited
<1>43. ASSUME NEW g \in Generations, Finalize(g) PROVE SessionInv'
  BY <1>43, SMTT(30) DEF Finalize, Exited
<1>44. ASSUME NEW g \in Generations, Drain(g) PROVE SessionInv'
  BY <1>44, SMTT(30) DEF Drain, Step, Exited
<1>45. ASSUME NEW g \in Generations, Unhook(g) PROVE SessionInv'
  BY <1>45, SMTT(30) DEF Unhook, Step, Exited
<1>46. ASSUME NEW g \in Generations, Retire(g) PROVE SessionInv'
  BY <1>46, SMTT(30) DEF Retire, Step, Exited
<1>47. ASSUME NEW g \in Generations, Advertise(g) PROVE SessionInv'
  BY <1>47, SMTT(30) DEF Advertise, Step, EmitGeneration, EndThread, unchangedByEmit, Active, Snapshot, Exited
<1>48. ASSUME NEW g \in Generations, Forget(g) PROVE SessionInv'
  BY <1>48, SMTT(30) DEF Forget, Step, EndThread, Exited
<1>49. ASSUME NEW g \in Generations, PlayerDies(g) PROVE SessionInv'
  BY <1>49, SMTT(30) DEF PlayerDies
<1>50. CASE UNCHANGED vars
  BY <1>50 DEF vars
<1> HIDE DEF TypeOK, SessionInv, SessionStages, vars, shared, locks, command, speaker, history,
        Generations, Threads
<1> QED
  BY <1>1, <1>2, <1>3, <1>4, <1>5, <1>6, <1>7, <1>8, <1>9, <1>10,
     <1>11, <1>12, <1>13, <1>14, <1>15, <1>16, <1>17, <1>18, <1>19, <1>20,
     <1>21, <1>22, <1>23, <1>24, <1>25, <1>26, <1>27, <1>28, <1>29, <1>30,
     <1>31, <1>32, <1>33, <1>34, <1>35, <1>36, <1>37, <1>38, <1>39, <1>40,
     <1>41, <1>42, <1>43, <1>44, <1>45, <1>46, <1>47, <1>48, <1>49, <1>50
  DEF Next, MainStep, CommandStep, SpeakStep


(* The process ends with no player it still owns. *)
THEOREM NoOrphan == Spec => []NoOrphanPlayer
<1>1. Init => ExitInv
  BY DEF Init, ExitInv, Ends, Threads
<1>2. IInv => TypeOK /\ RoomInv
  BY DEF IInv, TypeInv
<1>3. IInv /\ ExitInv => NoOrphanPlayer
  BY DEF IInv, SinkInv, ExitInv, NoOrphanPlayer, Audible, Exited, Generations
<1> QED
  BY <1>1, <1>2, <1>3, ExitStep, InvHolds, PTL DEF Spec

(* One thread at most is inside the voice session, and one loads it. *)
THEOREM SessionSafe == Spec => []VoiceUsedByOne
<1>1. Init => SessionInv
  BY DEF Init, SessionInv, SessionStages
<1>2. IInv => TypeOK
  BY DEF IInv, TypeInv
<1>3. SessionInv => VoiceUsedByOne
  BY DEF SessionInv, VoiceUsedByOne
<1> QED
  BY <1>1, <1>2, <1>3, SessionStep, InvHolds, PTL DEF Spec

(* Every action of the worker is a step of Playback, or none.                 *)
LEMMA PlaybackStep == IInv /\ [Next]_vars => [P!Next]_(P!pvars)
<1> SUFFICES ASSUME IInv, [Next]_vars
             PROVE  [P!Next]_(P!pvars)
  OBVIOUS
<1> USE BoundsAssumption
    DEF IInv, TypeInv, TextInv, SinkInv, ThreadInv, TypeOK, LockInv, Generations, Threads, Phase, Sounding, Audible,
        MainHolds, AgentHolds, vars, shared, locks, command, speaker, history
<1>1. ASSUME NEW o \in CommandOps, NEW r \in Requested, BeginCommand(o, r) PROVE [P!Next]_(P!pvars)
  BY <1>1, SMTT(30) DEF P!pvars, BeginCommand, FirstStep, Allots, Reserve, CommandOps
<1>2. CASE BeginUndecodable
  BY <1>2, SMTT(30) DEF P!pvars, BeginUndecodable, Goto
<1>3. CASE BeginExit
  BY <1>3, SMTT(30) DEF P!pvars, BeginExit
<1>4. CASE BeginAnnounce
  BY <1>4, SMTT(30) DEF P!pvars, BeginAnnounce, Exited, Reserve
<1>5. CASE Condemn
  BY <1>5, SMTT(30) DEF P!pvars, Condemn, Goto
<1>6. CASE Invalidate
  BY <1>6, SMTT(30) DEF P!pvars, P!Next, P!Cancel, P!End, Invalidate, Goto
<1>7. CASE Silence
  <2>1. text = 0 /\ sink = 0 /\ UNCHANGED <<text, accepted>> /\ at["main"] = "silence"
        /\ at'["main"] # "silence"
    BY <1>7 DEF Silence, Canceled
  <2>2. \A g \in Generations : player'[g] # "playing"
    BY <1>7, <2>1 DEF Silence
  <2>3. Phase' = "closed" /\ Sounding' = 0
    BY <2>1, <2>2
  <2>4. CASE victim["main"] = 0
    <3>1. Phase = "closed" /\ Sounding = 0
      BY <2>1, <2>4
    <3> QED BY <2>1, <2>3, <3>1 DEF P!pvars
  <2>5. CASE victim["main"] # 0
    BY <2>1, <2>3, <2>5 DEF P!Next, P!Cut
  <2> QED BY <2>4, <2>5
<1>8. CASE Detach
  BY <1>8, SMTT(30) DEF P!pvars, Detach, Release
<1>9. CASE Unload
  BY <1>9, SMTT(30) DEF P!pvars, Unload
<1>10. CASE Exit
  BY <1>10, SMTT(30) DEF P!pvars, Exit, Goto
<1>11. CASE EmitIdle
  BY <1>11, SMTT(30) DEF P!pvars, EmitIdle, Emit, Goto, Snapshot, Exited
<1>12. CASE WriteIdle
  BY <1>12, SMTT(30) DEF P!pvars, WriteIdle, Write, Goto, Exited, NoEvent
<1>13. CASE EmitError
  BY <1>13, SMTT(30) DEF P!pvars, EmitError, Emit, Goto, Snapshot, Exited
<1>14. CASE WriteError
  BY <1>14, SMTT(30) DEF P!pvars, WriteError, Write, Goto, Exited, NoEvent
<1>15. CASE ForgetRejected
  BY <1>15, SMTT(30) DEF P!pvars, ForgetRejected, Goto
<1>16. CASE EmitReport
  BY <1>16, SMTT(30) DEF P!pvars, EmitReport, Emit, Goto, Snapshot, Exited
<1>17. CASE WriteReport
  BY <1>17, SMTT(30) DEF P!pvars, WriteReport, Write, Goto, Exited, NoEvent
<1>18. CASE Refuse
  BY <1>18, SMTT(30) DEF P!pvars, Refuse, Goto, Release, Exited
<1>19. CASE Admit
  BY <1>19, SMTT(30) DEF P!pvars, Admit, Goto, Exited
<1>20. ASSUME NEW t \in Threads, Label(t) PROVE [P!Next]_(P!pvars)
  BY <1>20, SMTT(30) DEF P!pvars, Label, SourceOf, Exited
<1>21. ASSUME NEW t \in Threads, Claim(t) PROVE [P!Next]_(P!pvars)
  <2>1. text = 0 /\ sink = 0 /\ at["main"] # "silence" /\ at[t] = "claim"
    BY <1>21 DEF Claim, Goto, Canceled
  <2>2. \A g \in Generations : player[g] # "playing"
    BY <2>1
  <2>3. Phase = "closed" /\ Sounding = 0
    BY <2>1, <2>2
  <2>4. /\ text' = generation + 1 /\ accepted' = generation + 1
        /\ player' = player /\ generation + 1 # 0
    BY <1>21 DEF Claim
  <2>5. Phase' = "open" /\ Sounding' = 0
    BY <2>2, <2>4
  <2>6. accepted' \in {n \in Nat : n > accepted}
    BY <2>4
  <2> QED
    BY <2>3, <2>5, <2>6 DEF P!Next, P!Accept
<1>22. ASSUME NEW t \in Threads, EmitLoading(t) PROVE [P!Next]_(P!pvars)
  BY <1>22, SMTT(30) DEF P!pvars, EmitLoading, Emit, Goto, Snapshot, Exited
<1>23. ASSUME NEW t \in Threads, WriteLoading(t) PROVE [P!Next]_(P!pvars)
  BY <1>23, SMTT(30) DEF P!pvars, WriteLoading, Write, Goto, Exited, NoEvent
<1>24. ASSUME NEW t \in Threads, Launch(t) PROVE [P!Next]_(P!pvars)
  BY <1>24, SMTT(30) DEF P!pvars, Launch, Goto, Exited
<1>25. ASSUME NEW t \in Threads, EndCommand(t) PROVE [P!Next]_(P!pvars)
  BY <1>25, SMTT(30) DEF P!pvars, EndCommand, Goto, Release, Exited
<1>26. ASSUME NEW g \in Generations, SeekVoice(g) PROVE [P!Next]_(P!pvars)
  BY <1>26, SMTT(30) DEF P!pvars, SeekVoice, Exited
<1>27. ASSUME NEW g \in Generations, VoiceLoaded(g) PROVE [P!Next]_(P!pvars)
  BY <1>27, SMTT(30) DEF P!pvars, VoiceLoaded, EndLoad, Exited
<1>28. ASSUME NEW g \in Generations, VoiceMissing(g) PROVE [P!Next]_(P!pvars)
  BY <1>28, SMTT(30) DEF P!pvars, VoiceMissing, EndLoad, Exited
<1>29. ASSUME NEW g \in Generations, VoiceFailed(g) PROVE [P!Next]_(P!pvars)
  BY <1>29, SMTT(30) DEF P!pvars, VoiceFailed, EndLoad, Exited
<1>30. ASSUME NEW g \in Generations, Register(g) PROVE [P!Next]_(P!pvars)
  <2>1. /\ stage[g] = "register" /\ UNCHANGED <<text, accepted, at, victim>>
        /\ \/ player' = player
           \/ Active(g) /\ player' = [player EXCEPT ![g] = "open"]
    BY <1>30, Zenon DEF Register
  <2>2. ASSUME Active(g) PROVE player[g] # "playing"
    <3>a. stage[g] \in RunningStages /\ stage[g] \notin SinkStages
      BY <2>1 DEF RunningStages, Stages, SinkStages
    <3>b. g = generation /\ text = g /\ g # 0 /\ sink # g
      BY <2>2, <3>a DEF Active
    <3>c. at["main"] # "silence"
      BY <3>b DEF Canceled
    <3> QED BY <3>b, <3>c
  <2>3. \A h \in Generations : Audible(h)' <=> Audible(h)
    BY <2>1, <2>2, SMTT(30)
  <2>4. Phase' = Phase /\ Sounding' = Sounding
    BY <2>1, <2>3
  <2> QED
    BY <2>1, <2>4 DEF P!pvars
<1>31. ASSUME NEW g \in Generations, EmitSpeaking(g) PROVE [P!Next]_(P!pvars)
  BY <1>31, SMTT(30) DEF P!pvars, EmitSpeaking, Step, EmitGeneration, unchangedByEmit, Active, Snapshot, Exited
<1>32. ASSUME NEW g \in Generations, NextChunk(g) PROVE [P!Next]_(P!pvars)
  BY <1>32, SMTT(30) DEF P!pvars, NextChunk, Active, Exited
<1>33. ASSUME NEW g \in Generations, TakeSession(g) PROVE [P!Next]_(P!pvars)
  BY <1>33, SMTT(30) DEF P!pvars, TakeSession, Active, Exited
<1>34. ASSUME NEW g \in Generations, Infer(g) PROVE [P!Next]_(P!pvars)
  BY <1>34, SMTT(30) DEF P!pvars, Infer, Active, Exited
<1>35. ASSUME NEW g \in Generations, InferNothing(g) PROVE [P!Next]_(P!pvars)
  BY <1>35, SMTT(30) DEF P!pvars, InferNothing, Active, Exited
<1>36. ASSUME NEW g \in Generations, InferFails(g) PROVE [P!Next]_(P!pvars)
  BY <1>36, SMTT(30) DEF P!pvars, InferFails, Raise, Exited
<1>37. ASSUME NEW g \in Generations, StartWrite(g) PROVE [P!Next]_(P!pvars)
  BY <1>37, SMTT(30) DEF P!pvars, P!Next, P!Sound, StartWrite, Exited
<1>38. ASSUME NEW g \in Generations, StartWriteFails(g) PROVE [P!Next]_(P!pvars)
  BY <1>38, SMTT(30) DEF P!pvars, StartWriteFails, Raise, Exited
<1>39. ASSUME NEW g \in Generations, EndWrite(g) PROVE [P!Next]_(P!pvars)
  BY <1>39, SMTT(30) DEF P!pvars, EndWrite, Step, Exited
<1>40. ASSUME NEW g \in Generations, EndWriteFails(g) PROVE [P!Next]_(P!pvars)
  BY <1>40, SMTT(30) DEF P!pvars, EndWriteFails, Raise, Exited
<1>41. ASSUME NEW g \in Generations, AfterWrite(g) PROVE [P!Next]_(P!pvars)
  BY <1>41, SMTT(30) DEF P!pvars, AfterWrite, EmitGeneration, Active, Snapshot, Exited
<1>42. ASSUME NEW g \in Generations, Fail(g) PROVE [P!Next]_(P!pvars)
  BY <1>42, SMTT(30) DEF P!pvars, Fail, Step, EmitGeneration, unchangedByEmit, Active, Snapshot, Exited
<1>43. ASSUME NEW g \in Generations, Finalize(g) PROVE [P!Next]_(P!pvars)
  BY <1>43, SMTT(30) DEF P!pvars, Finalize, Exited
<1>44. ASSUME NEW g \in Generations, Drain(g) PROVE [P!Next]_(P!pvars)
  BY <1>44, SMTT(30) DEF P!pvars, P!Next, P!Quiet, Drain, Step, Exited
<1>45. ASSUME NEW g \in Generations, Unhook(g) PROVE [P!Next]_(P!pvars)
  BY <1>45, SMTT(30) DEF P!pvars, Unhook, Step, Exited
<1>46. ASSUME NEW g \in Generations, Retire(g) PROVE [P!Next]_(P!pvars)
  <2>1. /\ stage[g] = "retire" /\ UNCHANGED <<accepted, at, victim, player>>
        /\ text' = IF g = generation THEN 0 ELSE text
    BY <1>46 DEF Retire, Step, command
  <2>2. Sounding' = Sounding
    BY <2>1
  <2>3. CASE g = generation
    <3>a. stage[g] \in RunningStages /\ stage[g] \notin SinkStages
      BY <2>1 DEF RunningStages, Stages, SinkStages
    <3>b. text = g /\ accepted = g /\ g # 0
      BY <2>3, <3>a
    <3>1. text = g /\ accepted = g /\ at["main"] # "silence" /\ sink # g
      BY <3>a, <3>b DEF Canceled
    <3>2. Phase = "open" /\ Sounding = 0 /\ Phase' = "closed"
      BY <2>1, <2>3, <3>1
    <3> QED BY <2>1, <2>2, <3>2 DEF P!Next, P!End
  <2>4. CASE g # generation
    <3>1. Phase' = Phase
      BY <2>1, <2>4
    <3> QED BY <2>1, <2>2, <3>1 DEF P!pvars
  <2> QED BY <2>3, <2>4
<1>47. ASSUME NEW g \in Generations, Advertise(g) PROVE [P!Next]_(P!pvars)
  BY <1>47, SMTT(30) DEF P!pvars, Advertise, Step, EmitGeneration, EndThread, unchangedByEmit, Active, Snapshot, Exited
<1>48. ASSUME NEW g \in Generations, Forget(g) PROVE [P!Next]_(P!pvars)
  BY <1>48, SMTT(30) DEF P!pvars, Forget, Step, EndThread, Exited
<1>49. ASSUME NEW g \in Generations, PlayerDies(g) PROVE [P!Next]_(P!pvars)
  BY <1>49, SMTT(30) DEF P!pvars, P!Next, P!Quiet, PlayerDies
<1>50. CASE UNCHANGED vars
  <2>1. UNCHANGED <<text, accepted, at, victim, player>>
    BY <1>50
  <2>2. Phase' = Phase /\ Sounding' = Sounding
    BY <2>1
  <2> QED BY <2>1, <2>2 DEF P!pvars
<1> HIDE DEF IInv, TypeInv, TextInv, SinkInv, ThreadInv, TypeOK, LockInv, Generations, Threads, Phase, Sounding, Audible,
        MainHolds, AgentHolds, vars, shared, locks, command, speaker, history
<1> QED
  BY <1>1, <1>2, <1>3, <1>4, <1>5, <1>6, <1>7, <1>8, <1>9, <1>10,
     <1>11, <1>12, <1>13, <1>14, <1>15, <1>16, <1>17, <1>18, <1>19, <1>20,
     <1>21, <1>22, <1>23, <1>24, <1>25, <1>26, <1>27, <1>28, <1>29, <1>30,
     <1>31, <1>32, <1>33, <1>34, <1>35, <1>36, <1>37, <1>38, <1>39, <1>40,
     <1>41, <1>42, <1>43, <1>44, <1>45, <1>46, <1>47, <1>48, <1>49, <1>50
  DEF Next, MainStep, CommandStep, SpeakStep

(* Threads, locks and generations implement Playback: reads are accepted    *)
(* in silence only, and a canceled read is cut. *)
THEOREM PlaybackRefined == Spec => ImplementsPlayback
<1>1. Init => P!Init
  BY DEF Init, P!Init, Phase, Sounding, Threads, Generations
<1> QED
  BY <1>1, PlaybackStep, InvHolds, PTL DEF Spec, ImplementsPlayback, P!Spec

-----------------------------------------------------------------------------
(* Events: what is on stdout, and whose it is. *)

Names(g) == /\ request = owner[g].request
            /\ owner[g].source = "selection" => source = "selection"

(* From the claim of a read on, the shared metadata are its own.  A        *)
(* selection labels them in a generation without a thread; an announcement *)
(* after the last read has retired, and what the end of that thread may    *)
(* still clear is a request id that the announcement does not have.        *)
NameInv ==
  /\ asked["agent"] = NoRequest
  /\ at["main"] \in Canceled => accepted < generation
  /\ \A t \in Threads :
       /\ at[t] = "claim" => request = asked[t] /\ (t = "main" => source = "selection")
       /\ at[t] \in Launching => Names(generation)
  /\ at["agent"] \in {"label", "claim"} =>
       \A g \in Generations :
         g = generation => /\ stage[g] \notin RunningStages
                           /\ ~(stage[g] = "advertise" /\ status \in BusyStatuses)
  /\ EventsNameTheirRead

(* A request id is that of one read: the command that carries it is the    *)
(* first.                                                                  *)
AskedInv ==
  /\ \A t \in Threads : op[t] \notin {"speak", "misfit"} => asked[t] = NoRequest
  /\ at["main"] \in {"ready", "condemn", "unload", "ending", "closing", "exited"} =>
       op["main"] \notin {"speak", "misfit"}
  /\ \A g, h \in Generations :
       owner[g].request = owner[h].request => g = h \/ owner[g].request = NoRequest
  /\ at["main"] \in Canceled \union {"invalidate"} =>
       asked["main"] = NoRequest \/ \A g \in Generations : owner[g].request # asked["main"]

IsSettled(r, o, s) == r # NoRequest /\ \E h \in Generations : h < s /\ o[h].request = r

(* The shared request is over only between the idle of a stop and the end  *)
(* of that stop.                                                           *)
SettledInv ==
  /\ settled <= generation
  /\ \A t \in Threads : ticket[t] <= generation
  /\ at["main"] \in {"silence", "idleEvent", "writeIdle", "detach"} =>
       ticket["main"] = generation
  /\ IsSettled(request, owner, settled) => at["main"] = "detach"

(* An event that waits to be written is not outrun: only the first of the  *)
(* worker and that of a line that is no JSON are written without the lock. *)
ReportInv ==
  /\ at["main"] \in {"report", "writeReport"} =>
       IF op["main"] = "hello" THEN request = NoRequest
       ELSE commandLock = "main" \/ op["main"] = "undecodable"
  /\ at["main"] = "writeReport" =>
       /\ op["main"] = "hello" => pending["main"].request = NoRequest
       /\ op["main"] = "undecodable" => pending["main"].status = "error"
       /\ pending["main"].status \in BusyStatuses =>
            ~IsSettled(pending["main"].request, owner, settled)
  /\ at["main"] = "writeIdle" => pending["main"].status = "idle"
  /\ at["main"] = "writeError" => pending["main"].status = "error"
  /\ \A t \in Threads :
       at[t] = "writeLoading" => ~IsSettled(pending[t].request, owner, settled)

EventInv == NameInv /\ AskedInv /\ SettledInv /\ ReportInv

(* What the invariant of the read says of locks, locals and stages.        *)
LEMMA ReadFacts ==
  ASSUME IInv
  PROVE  /\ generation \in Nat /\ accepted \in Nat /\ accepted <= generation /\ settled \in Nat
         /\ \A t \in Threads : ticket[t] \in Nat
         /\ at \in [Threads -> CommandSteps] /\ asked \in [Threads -> Requested]
         /\ op \in [Threads -> CommandOps \union {"hello", "exit", "none"}]
         /\ ticket \in [Threads -> 0..MaxGeneration]
         /\ pending \in [Threads -> Events] /\ owner \in [Generations -> Owners]
         /\ stage \in [Generations -> Stages]
         /\ at["main"] \in MainHolds => commandLock = "main"
         /\ at["agent"] \in AgentHolds => commandLock = "agent"
         /\ at["agent"] \in AgentHolds \union {"ready"}
         /\ at["main"] \in {"idleEvent", "writeIdle"} => op["main"] = "stop"
         /\ at["main"] = "condemn" => op["main"] \in Ends
         /\ at["main"] \in {"label", "claim"} => op["main"] \notin Ends \union {"stop"}
         /\ at["main"] = "claim" => op["main"] # "misfit"
         /\ \A t \in Threads : at[t] \in Launching =>
              /\ generation \in Generations /\ generation = ticket[t]
              /\ stage[generation] = "unborn"
         /\ \A t \in Threads : at[t] = "claim" => generation + 1 \in Generations
         /\ \A g \in Generations : stage[g] # "unborn" => g <= accepted
         /\ \A g \in Generations : g = generation /\ stage[g] \in RunningStages => thread = g
<1>1. /\ TypeOK /\ LockInv /\ RoomInv /\ TextInv /\ ThreadInv
      /\ MaxGeneration \in Nat
  BY BoundsAssumption DEF IInv, TypeInv
<1>2. /\ generation \in Nat /\ accepted \in Nat /\ settled \in Nat
      /\ \A t \in Threads : ticket[t] \in Nat
  BY <1>1 DEF TypeOK
<1>3. \A t \in Threads : at[t] \in Launching =>
        /\ generation \in Generations /\ generation = ticket[t]
        /\ stage[generation] = "unborn"
  BY <1>1 DEF TypeOK, TextInv, Generations
<1>4. /\ at["main"] \in MainHolds => commandLock = "main"
      /\ \A t \in Threads : at[t] = "claim" => generation + 1 \in Generations
  BY <1>1, <1>2 DEF LockInv, RoomInv, Generations, Threads
<1>5. \A g \in Generations : /\ stage[g] # "unborn" => g <= accepted
                             /\ g = generation /\ stage[g] \in RunningStages => thread = g
  BY <1>1 DEF ThreadInv
<1>6. accepted <= generation
  BY <1>1 DEF TextInv
<1> QED
  BY <1>1, <1>2, <1>3, <1>4, <1>5, <1>6 DEF TypeOK, LockInv, RoomInv

(* What a step of the thread of a read, or the death of its player, may do *)
(* to the metadata and to stdout.                                          *)
Steps(g) ==
  /\ UNCHANGED <<generation, commandLock, at, op, asked, ticket, victim, pending, owner,
                 accepted, settled>>
  /\ \/ UNCHANGED <<request, source>>
     \/ stage[g] = "forget" /\ g = generation /\ request' = NoRequest /\ source' = "none"
  /\ \A h \in Generations :
       /\ stage'[h] \in RunningStages => stage[h] \in RunningStages
       /\ stage'[h] = "advertise" => stage[h] \in RunningStages \union {"advertise"}
  /\ status' \in BusyStatuses =>
       status \in BusyStatuses \/ (g = generation /\ stage[g] \in RunningStages)
  /\ shown' # shown =>
       /\ shown'.status = status' /\ shown'.request = request /\ g = generation
       /\ status' \in BusyStatuses => stage[g] \in RunningStages

LEMMA SpeakFrame ==
  ASSUME IInv, NEW g \in Generations, SpeakStep(g) \/ PlayerDies(g)
  PROVE  Steps(g)
<1> USE DEF Steps, RunningStages, Stages, BusyStatuses, shared, locks, command, speaker, history
<1>1. /\ stage \in [Generations -> Stages]
      /\ stage[g] = "fail" => outcome[g] \in {"error", "setup-required"}
  BY DEF IInv, TypeInv, TypeOK, LocalInv
<1>2. CASE SeekVoice(g)
  BY <1>1, <1>2 DEF SeekVoice
<1>3. CASE VoiceLoaded(g) \/ VoiceMissing(g) \/ VoiceFailed(g)
  <2>1. PICK there \in {"register", "fail"} :
          /\ stage[g] = "load"
          /\ stage' = [h \in Generations |-> CASE h = g -> there
                                               [] h # g /\ stage[h] = "asleep" -> "enter"
                                               [] OTHER -> stage[h]]
          /\ UNCHANGED <<status, generation, source, request, commandLock, command, history>>
    BY <1>3 DEF VoiceLoaded, VoiceMissing, VoiceFailed, EndLoad
  <2>2. \A h \in Generations :
          stage'[h] = stage[h] \/ (stage'[h] \in {"register", "fail", "enter"}
                                   /\ stage[h] \in {"load", "asleep"})
    BY <2>1
  <2> QED BY <2>1, <2>2
<1>4. CASE Register(g)
  BY <1>1, <1>4 DEF Register
<1>5. CASE EmitSpeaking(g)
  BY <1>1, <1>5 DEF EmitSpeaking, Step, EmitGeneration, unchangedByEmit, Active, Snapshot
<1>6. CASE NextChunk(g)
  BY <1>1, <1>6 DEF NextChunk
<1>7. CASE TakeSession(g)
  BY <1>1, <1>7 DEF TakeSession
<1>8. CASE Infer(g) \/ InferNothing(g) \/ InferFails(g)
  BY <1>1, <1>8 DEF Infer, InferNothing, InferFails, Raise
<1>9. CASE StartWrite(g) \/ StartWriteFails(g)
  BY <1>1, <1>9 DEF StartWrite, StartWriteFails, Raise
<1>10. CASE EndWrite(g) \/ EndWriteFails(g)
  BY <1>1, <1>10 DEF EndWrite, EndWriteFails, Raise, Step
<1>11. CASE AfterWrite(g)
  BY <1>1, <1>11 DEF AfterWrite, EmitGeneration, Active, Snapshot
<1>12. CASE Fail(g)
  BY <1>1, <1>12 DEF Fail, Step, EmitGeneration, unchangedByEmit, Active, Snapshot
<1>13. CASE Finalize(g) \/ Drain(g) \/ Unhook(g)
  BY <1>1, <1>13 DEF Finalize, Drain, Unhook, Step
<1>14. CASE Retire(g)
  BY <1>1, <1>14 DEF Retire, Step
<1>15. CASE Advertise(g)
  BY <1>1, <1>15 DEF Advertise, Step, EmitGeneration, unchangedByEmit, Active, Snapshot
<1>16. CASE Forget(g)
  BY <1>1, <1>16 DEF Forget, Step
<1>17. CASE PlayerDies(g)
  BY <1>1, <1>17 DEF PlayerDies
<1> QED
  BY <1>2, <1>3, <1>4, <1>5, <1>6, <1>7, <1>8, <1>9, <1>10, <1>11, <1>12, <1>13, <1>14, <1>15,
     <1>16, <1>17 DEF SpeakStep

(* The metadata are those of the read that they name.                      *)
LEMMA NameStep == IInv /\ NameInv /\ [Next]_vars => NameInv'
<1> SUFFICES ASSUME IInv, NameInv, [Next]_vars
             PROVE  NameInv'
  OBVIOUS
<1> USE DEF Threads, shared, locks, command, speaker, history
<1>a. /\ generation \in Nat /\ accepted \in Nat /\ accepted <= generation
      /\ at \in [Threads -> CommandSteps] /\ asked \in [Threads -> Requested]
      /\ owner \in [Generations -> Owners] /\ stage \in [Generations -> Stages]
      /\ at["main"] \in MainHolds => commandLock = "main"
      /\ at["agent"] \in AgentHolds => commandLock = "agent"
      /\ at["agent"] \in AgentHolds \union {"ready"}
      /\ \A t \in Threads : at[t] \in Launching =>
           generation \in Generations /\ generation = ticket[t] /\ stage[generation] = "unborn"
      /\ \A t \in Threads : at[t] = "claim" => generation + 1 \in Generations
      /\ \A g \in Generations : stage[g] # "unborn" => g <= accepted
      /\ \A g \in Generations : g = generation /\ stage[g] \in RunningStages => thread = g
  BY ReadFacts
<1>b. "unborn" \notin RunningStages
  BY DEF RunningStages
<1>1. ASSUME NEW o \in CommandOps, NEW r \in Requested, BeginCommand(o, r) PROVE NameInv'
  BY <1>1, <1>a DEF BeginCommand, FirstStep, NameInv, EventsNameTheirRead, Names, MainHolds,
     AgentHolds, Canceled, Launching
<1>2. CASE BeginUndecodable \/ BeginExit \/ BeginAnnounce
  BY <1>2, <1>a DEF BeginUndecodable, BeginExit, BeginAnnounce, Goto, NameInv,
     EventsNameTheirRead, Names, Canceled, Launching
<1>3. CASE Condemn \/ Exit \/ WriteReport \/ WriteIdle \/ WriteError
  BY <1>3, <1>a DEF Condemn, Exit, WriteReport, WriteIdle, WriteError, Write, Goto, NameInv,
     EventsNameTheirRead, Names, Canceled, Launching
<1>4. CASE Unload \/ Silence
  BY <1>4, <1>a DEF Unload, Silence, NameInv, EventsNameTheirRead, Names, Canceled, Launching
<1>5. CASE Invalidate
  BY <1>5, <1>a, <1>b DEF Invalidate, Goto, NameInv, EventsNameTheirRead, Names, Canceled,
     Launching, MainHolds, AgentHolds
<1>6. CASE Detach \/ ForgetRejected
  BY <1>6, <1>a, <1>b DEF Detach, ForgetRejected, Goto, NameInv, EventsNameTheirRead, Names,
     Canceled, Launching, MainHolds, AgentHolds
<1>7. CASE EmitIdle \/ EmitError \/ EmitReport
  BY <1>7, <1>a DEF EmitIdle, EmitError, EmitReport, Emit, Goto, NameInv,
     EventsNameTheirRead, Names, Canceled, Launching, BusyStatuses
<1>8. CASE Refuse \/ Admit
  <2>1. CASE Refuse
    BY <1>a, <2>1 DEF Refuse, Goto, NameInv, EventsNameTheirRead, Names, Canceled, Launching
  <2>2. CASE Admit
    <3>1. status \notin BusyStatuses /\ at' = [at EXCEPT !["agent"] = "label"]
          /\ (thread = 0 \/ stage[thread] \in {"unborn", "done"})
          /\ UNCHANGED <<status, generation, request, source, asked, stage, owner, accepted>>
      BY <2>2 DEF Admit, Goto, Busy, Alive
    <3>2. \A g \in Generations : g = generation => stage[g] \notin RunningStages
      BY <1>a, <3>1 DEF RunningStages, Generations
    <3> QED BY <1>a, <3>1, <3>2 DEF NameInv, EventsNameTheirRead, Names, Canceled, Launching
  <2> QED BY <1>8, <2>1, <2>2
<1>9. ASSUME NEW t \in Threads, Label(t) PROVE NameInv'
  BY <1>9, <1>a, <1>b DEF Label, SourceOf, NameInv, EventsNameTheirRead, Names, Canceled,
     Launching, MainHolds, AgentHolds
<1>10. ASSUME NEW t \in Threads, Claim(t) PROVE NameInv'
  <2>1. /\ at[t] = "claim" /\ at' = [at EXCEPT ![t] = "loadingEvent"]
        /\ generation' = generation + 1 /\ accepted' = generation + 1
        /\ owner' = [owner EXCEPT ![generation + 1] =
                       [request |-> asked[t], source |-> SourceOf(t)]]
        /\ UNCHANGED <<status, request, source, asked, stage>>
    BY <1>10 DEF Claim, Goto
  <2>2. /\ generation + 1 \in Generations /\ stage[generation + 1] = "unborn"
        /\ \A u \in Threads \ {t} : at[u] \notin Canceled \union Launching \union {"label", "claim"}
    BY <1>a, <2>1 DEF MainHolds, AgentHolds, Canceled, Launching, Generations
  <2>3. /\ owner'[generation'].request = request
        /\ owner'[generation'].source = "selection" => source = "selection"
    BY <1>a, <2>1, <2>2 DEF NameInv, SourceOf
  <2>4. \A u \in Threads : /\ at'[u] \notin Canceled \union {"label", "claim"}
                           /\ at'[u] \in Launching => u = t
    BY <1>a, <2>1, <2>2 DEF Canceled
  <2>5. EventsNameTheirRead'
    BY <1>b, <2>1, <2>2 DEF EventsNameTheirRead
  <2> QED BY <2>1, <2>3, <2>4, <2>5 DEF NameInv, Names, Canceled
<1>11. ASSUME NEW t \in Threads, EmitLoading(t) PROVE NameInv'
  BY <1>11, <1>a, <1>b DEF EmitLoading, Emit, Goto, NameInv, EventsNameTheirRead, Names,
     Canceled, Launching, MainHolds, AgentHolds
<1>12. ASSUME NEW t \in Threads, WriteLoading(t) PROVE NameInv'
  BY <1>12, <1>a, <1>b DEF WriteLoading, Write, Goto, NameInv, EventsNameTheirRead, Names,
     Canceled, Launching, MainHolds, AgentHolds
<1>13. ASSUME NEW t \in Threads, Launch(t) PROVE NameInv'
  BY <1>13, <1>a, <1>b DEF Launch, Goto, NameInv, EventsNameTheirRead, Names,
     Canceled, Launching, MainHolds, AgentHolds
<1>14. ASSUME NEW t \in Threads, EndCommand(t) PROVE NameInv'
  BY <1>14, <1>a DEF EndCommand, Goto, NameInv, EventsNameTheirRead, Names, Canceled, Launching
<1>15. ASSUME NEW g \in Generations, SpeakStep(g) \/ PlayerDies(g) PROVE NameInv'
  <2>1. Steps(g)
    BY <1>15, SpeakFrame
  <2>2. /\ \A t \in Threads : at[t] \in Launching => stage[generation] = "unborn"
        /\ at["main"] = "claim" => stage[g] = "unborn" \/ g # generation
    BY <1>a DEF NameInv, Canceled
  <2> QED BY <1>a, <1>b, <2>1, <2>2 DEF Steps, NameInv, EventsNameTheirRead, Names,
          Canceled, Launching, RunningStages, Stages, BusyStatuses
<1>16. CASE UNCHANGED vars
  BY <1>16 DEF vars, NameInv, EventsNameTheirRead, Names
<1> QED
  BY <1>1, <1>2, <1>3, <1>4, <1>5, <1>6, <1>7, <1>8, <1>9, <1>10, <1>11, <1>12, <1>13, <1>14,
     <1>15, <1>16 DEF Next, MainStep, CommandStep

(* No two reads have a request id in common.                               *)
LEMMA AskedStep == IInv /\ NameInv /\ AskedInv /\ [Next]_vars => AskedInv'
<1> SUFFICES ASSUME IInv, NameInv, AskedInv, [Next]_vars
             PROVE  AskedInv'
  OBVIOUS
<1> USE DEF Threads, shared, locks, command, speaker, history
<1>a. /\ at \in [Threads -> CommandSteps] /\ asked \in [Threads -> Requested]
      /\ op \in [Threads -> CommandOps \union {"hello", "exit", "none"}]
      /\ owner \in [Generations -> Owners]
      /\ at["main"] \in MainHolds => commandLock = "main"
      /\ at["agent"] \in AgentHolds => commandLock = "agent"
      /\ at["main"] \in {"idleEvent", "writeIdle"} => op["main"] = "stop"
      /\ at["main"] = "condemn" => op["main"] \in Ends
      /\ asked["agent"] = NoRequest
  BY ReadFacts DEF NameInv
<1>1. ASSUME NEW o \in CommandOps, NEW r \in Requested, BeginCommand(o, r) PROVE AskedInv'
  <2>1. /\ at["main"] = "ready" /\ at' = [at EXCEPT !["main"] = FirstStep(o)]
        /\ op' = [op EXCEPT !["main"] = o] /\ asked' = [asked EXCEPT !["main"] = r]
        /\ owner' = owner
        /\ IF o \in {"speak", "misfit"} THEN \A g \in Generations : owner[g].request # r
                                        ELSE r = NoRequest
    BY <1>1 DEF BeginCommand
  <2>2. FirstStep(o) \notin {"ready", "unload", "ending", "closing", "exited"} \union Canceled
        /\ (FirstStep(o) = "condemn" => o = "shutdown")
    BY DEF FirstStep, Canceled
  <2>3. /\ op'["main"] = o /\ asked'["main"] = r /\ at'["main"] = FirstStep(o)
        /\ op'["agent"] = op["agent"] /\ asked'["agent"] = asked["agent"]
    BY <1>a, <2>1
  <2> QED BY <2>1, <2>2, <2>3 DEF AskedInv
<1>2. CASE BeginUndecodable
  BY <1>2, <1>a DEF BeginUndecodable, Goto, AskedInv, Canceled
<1>3. CASE BeginExit
  BY <1>3, <1>a DEF BeginExit, AskedInv, Canceled
<1>4. CASE BeginAnnounce
  BY <1>4, <1>a DEF BeginAnnounce, AskedInv, Canceled
<1>5. CASE Condemn \/ Exit \/ WriteReport \/ WriteIdle \/ WriteError
  BY <1>5, <1>a DEF Condemn, Exit, WriteReport, WriteIdle, WriteError, Write, Goto, AskedInv,
     Canceled
<1>6. CASE Unload \/ Silence
  BY <1>6, <1>a DEF Unload, Silence, AskedInv, Canceled
<1>7. CASE Invalidate
  BY <1>7, <1>a DEF Invalidate, Goto, AskedInv, Canceled
<1>8. CASE Detach \/ ForgetRejected
  BY <1>8, <1>a DEF Detach, ForgetRejected, Goto, AskedInv, Canceled
<1>9. CASE EmitIdle \/ EmitError \/ EmitReport
  BY <1>9, <1>a DEF EmitIdle, EmitError, EmitReport, Emit, Goto, AskedInv, Canceled
<1>10. CASE Refuse \/ Admit
  BY <1>10, <1>a DEF Refuse, Admit, Goto, AskedInv, Canceled
<1>11. ASSUME NEW t \in Threads, Label(t) PROVE AskedInv'
  BY <1>11, <1>a DEF Label, AskedInv, Canceled
<1>12. ASSUME NEW t \in Threads, Claim(t) PROVE AskedInv'
  <2>1. /\ at[t] = "claim" /\ at' = [at EXCEPT ![t] = "loadingEvent"]
        /\ owner' = [owner EXCEPT ![generation + 1] =
                       [request |-> asked[t], source |-> SourceOf(t)]]
        /\ UNCHANGED <<op, asked>>
    BY <1>12 DEF Claim, Goto
  <2>2. /\ at["main"] \in Canceled \union {"invalidate"} => t = "main"
        /\ at'["main"] \notin {"ready", "condemn", "unload", "ending", "closing", "exited"}
             \/ at'["main"] = at["main"]
    BY <1>a, <2>1 DEF MainHolds, AgentHolds, Canceled
  <2>3. at'["main"] \notin Canceled \union {"invalidate"}
    BY <1>a, <2>1, <2>2 DEF Canceled
  <2>4. asked[t] = NoRequest \/ \A g \in Generations : owner[g].request # asked[t]
    BY <1>a, <2>1 DEF AskedInv, Canceled
  <2>5. \A g \in Generations :
          owner'[g].request = owner[g].request \/ (g = generation + 1 /\ owner'[g].request = asked[t])
    BY <1>a, <2>1
  <2>6. \A g, h \in Generations :
          owner'[g].request = owner'[h].request => g = h \/ owner'[g].request = NoRequest
    BY <2>4, <2>5 DEF AskedInv
  <2> QED BY <2>1, <2>2, <2>3, <2>6 DEF AskedInv
<1>13. ASSUME NEW t \in Threads, EmitLoading(t) PROVE AskedInv'
  BY <1>13, <1>a DEF EmitLoading, Emit, Goto, AskedInv, Canceled
<1>14. ASSUME NEW t \in Threads, WriteLoading(t) PROVE AskedInv'
  BY <1>14, <1>a DEF WriteLoading, Write, Goto, AskedInv, Canceled
<1>15. ASSUME NEW t \in Threads, Launch(t) PROVE AskedInv'
  BY <1>15, <1>a DEF Launch, Goto, AskedInv, Canceled
<1>16. ASSUME NEW t \in Threads, EndCommand(t) PROVE AskedInv'
  BY <1>16, <1>a DEF EndCommand, Goto, AskedInv, Canceled
<1>17. ASSUME NEW g \in Generations, SpeakStep(g) \/ PlayerDies(g) PROVE AskedInv'
  <2>1. UNCHANGED <<at, op, asked, owner>>
    BY <1>17, SpeakFrame DEF Steps
  <2> QED BY <2>1 DEF AskedInv
<1>18. CASE UNCHANGED vars
  BY <1>18 DEF vars, AskedInv
<1> QED
  BY <1>1, <1>2, <1>3, <1>4, <1>5, <1>6, <1>7, <1>8, <1>9, <1>10, <1>11, <1>12, <1>13, <1>14,
     <1>15, <1>16, <1>17, <1>18 DEF Next, MainStep, CommandStep

(* Only the idle of a stop and the loading of a read settle anything, and  *)
(* the metadata are not those of what they settle for longer than the stop *)
(* takes.                                                                  *)
LEMMA SettledStep == IInv /\ NameInv /\ AskedInv /\ SettledInv /\ [Next]_vars => SettledInv'
<1> SUFFICES ASSUME IInv, NameInv, AskedInv, SettledInv, [Next]_vars
             PROVE  SettledInv'
  OBVIOUS
<1> USE DEF Threads, shared, locks, command, speaker, history
<1>a. /\ at \in [Threads -> CommandSteps] /\ asked \in [Threads -> Requested]
      /\ op \in [Threads -> CommandOps \union {"hello", "exit", "none"}]
      /\ ticket \in [Threads -> 0..MaxGeneration] /\ \A t \in Threads : ticket[t] \in Nat
      /\ owner \in [Generations -> Owners] /\ Generations \subseteq Nat
      /\ generation \in Nat /\ settled \in Nat
      /\ at["main"] \in MainHolds => commandLock = "main"
      /\ at["agent"] \in AgentHolds => commandLock = "agent"
      /\ asked["agent"] = NoRequest
      /\ settled <= generation /\ \A t \in Threads : ticket[t] <= generation
  BY ReadFacts DEF NameInv, Generations, SettledInv
<1>1. ASSUME NEW o \in CommandOps, NEW r \in Requested, BeginCommand(o, r) PROVE SettledInv'
  BY <1>1, <1>a DEF BeginCommand, FirstStep, SettledInv
<1>2. CASE BeginUndecodable \/ BeginExit \/ BeginAnnounce
  BY <1>2, <1>a DEF BeginUndecodable, BeginExit, BeginAnnounce, Goto, SettledInv
<1>3. CASE Condemn \/ Exit \/ WriteReport \/ WriteError \/ Unload
  BY <1>3, <1>a DEF Condemn, Exit, WriteReport, WriteError, Unload, Write, Goto, SettledInv
<1>4. CASE WriteIdle
  BY <1>4, <1>a DEF WriteIdle, Write, Goto, SettledInv
<1>5. CASE Silence
  BY <1>5, <1>a DEF Silence, SettledInv
<1>6. CASE Invalidate
  BY <1>6, <1>a DEF Invalidate, Goto, SettledInv
<1>7. CASE Detach
  BY <1>7, <1>a DEF Detach, SettledInv, IsSettled
<1>8. CASE ForgetRejected
  BY <1>8, <1>a DEF ForgetRejected, Goto, SettledInv, IsSettled
<1>9. CASE EmitIdle \/ EmitError \/ EmitReport
  BY <1>9, <1>a DEF EmitIdle, EmitError, EmitReport, Emit, Goto, SettledInv
<1>10. CASE Refuse \/ Admit
  BY <1>10, <1>a DEF Refuse, Admit, Goto, SettledInv
<1>11. ASSUME NEW t \in Threads, Label(t) PROVE SettledInv'
  <2>1. /\ at[t] = "label" /\ request' = asked[t]
        /\ at' = [at EXCEPT ![t] = IF op[t] = "misfit" THEN "errorEvent" ELSE "claim"]
        /\ UNCHANGED <<generation, ticket, owner, settled>>
    BY <1>11 DEF Label
  <2>2. ~IsSettled(asked[t], owner, settled)
    BY <1>a, <2>1 DEF AskedInv, IsSettled, Canceled
  <2> QED BY <1>a, <2>1, <2>2 DEF SettledInv
<1>12. ASSUME NEW t \in Threads, Claim(t) PROVE SettledInv'
  <2>1. /\ at[t] = "claim" /\ at' = [at EXCEPT ![t] = "loadingEvent"]
        /\ owner' = [owner EXCEPT ![generation + 1] =
                       [request |-> asked[t], source |-> SourceOf(t)]]
        /\ generation' = generation + 1 /\ ticket' = [ticket EXCEPT ![t] = generation + 1]
        /\ UNCHANGED <<request, settled>>
    BY <1>12 DEF Claim, Goto
  <2>2. IsSettled(request, owner, settled)' => IsSettled(request, owner, settled)
    BY <1>a, <2>1 DEF IsSettled
  <2>3. at["main"] = "detach" => t # "agent"
    BY <1>a, <2>1 DEF MainHolds, AgentHolds
  <2>4. at'["main"] \notin {"silence", "idleEvent", "writeIdle", "detach"}
    BY <1>a, <2>1 DEF MainHolds, AgentHolds
  <2>5. ~IsSettled(request, owner, settled)
    BY <1>a, <2>1, <2>3 DEF SettledInv
  <2> QED BY <1>a, <2>1, <2>2, <2>4, <2>5 DEF SettledInv
<1>13. ASSUME NEW t \in Threads, EmitLoading(t) PROVE SettledInv'
  BY <1>13, <1>a DEF EmitLoading, Emit, Goto, SettledInv
<1>14. ASSUME NEW t \in Threads, WriteLoading(t) PROVE SettledInv'
  <2>1. /\ at[t] = "writeLoading" /\ at' = [at EXCEPT ![t] = "launch"]
        /\ settled' = ticket[t]
        /\ UNCHANGED <<generation, ticket, owner, request>>
    BY <1>14 DEF WriteLoading, Write, Goto
  <2>2. generation \in Generations /\ generation = ticket[t]
    BY <2>1, ReadFacts DEF Launching
  <2>3. request = owner[generation].request
    BY <2>1 DEF NameInv, Names, Launching
  <2>4. ~IsSettled(request, owner, settled)'
    <3>1. \A h \in Generations : h < generation => owner[h].request # request \/ request = NoRequest
      BY <1>a, <2>2, <2>3 DEF AskedInv
    <3> QED BY <1>a, <2>1, <2>2, <3>1 DEF IsSettled
  <2> QED BY <1>a, <2>1, <2>2, <2>4 DEF SettledInv
<1>15. ASSUME NEW t \in Threads, Launch(t) PROVE SettledInv'
  BY <1>15, <1>a DEF Launch, Goto, SettledInv
<1>16. ASSUME NEW t \in Threads, EndCommand(t) PROVE SettledInv'
  BY <1>16, <1>a DEF EndCommand, Goto, SettledInv
<1>17. ASSUME NEW g \in Generations, SpeakStep(g) \/ PlayerDies(g) PROVE SettledInv'
  <2>1. UNCHANGED <<generation, at, ticket, owner, settled>> /\ request' \in {request, NoRequest}
    BY <1>17, SpeakFrame DEF Steps
  <2> QED BY <2>1 DEF SettledInv, IsSettled
<1>18. CASE UNCHANGED vars
  BY <1>18 DEF vars, SettledInv
<1> QED
  BY <1>1, <1>2, <1>3, <1>4, <1>5, <1>6, <1>7, <1>8, <1>9, <1>10, <1>11, <1>12, <1>13, <1>14,
     <1>15, <1>16, <1>17, <1>18 DEF Next, MainStep, CommandStep

(* What waits to be written stays news until it is written.                *)
LEMMA ReportStep ==
  IInv /\ NameInv /\ SettledInv /\ ReportInv /\ [Next]_vars => ReportInv'
<1> SUFFICES ASSUME IInv, NameInv, SettledInv, ReportInv, [Next]_vars
             PROVE  ReportInv'
  OBVIOUS
<1> USE DEF Threads, shared, locks, command, speaker, history
<1>a. /\ at \in [Threads -> CommandSteps]
      /\ op \in [Threads -> CommandOps \union {"hello", "exit", "none"}]
      /\ pending \in [Threads -> Events]
      /\ owner \in [Generations -> Owners] /\ Generations \subseteq Nat
      /\ generation \in Nat /\ settled \in Nat /\ settled <= generation
      /\ at["main"] \in MainHolds => commandLock = "main"
      /\ at["agent"] \in AgentHolds => commandLock = "agent"
      /\ at["agent"] \in AgentHolds \union {"ready"}
      /\ asked["agent"] = NoRequest
      /\ IsSettled(request, owner, settled) => at["main"] = "detach"
  BY ReadFacts DEF NameInv, Generations, SettledInv
<1>1. ASSUME NEW o \in CommandOps, NEW r \in Requested, BeginCommand(o, r) PROVE ReportInv'
  <2>1. /\ at["main"] = "ready" /\ at' = [at EXCEPT !["main"] = FirstStep(o)]
        /\ op' = [op EXCEPT !["main"] = o] /\ commandLock' = "main"
        /\ UNCHANGED <<request, owner, settled, pending>>
    BY <1>1 DEF BeginCommand
  <2>2. FirstStep(o) \in {"condemn", "invalidate", "report"} /\ o # "hello"
    BY DEF FirstStep, CommandOps
  <2> QED BY <1>a, <2>1, <2>2 DEF ReportInv
<1>2. CASE BeginUndecodable
  BY <1>2, <1>a DEF BeginUndecodable, Goto, ReportInv
<1>3. CASE BeginExit \/ BeginAnnounce
  BY <1>3, <1>a DEF BeginExit, BeginAnnounce, ReportInv
<1>4. CASE Condemn \/ Exit \/ Unload \/ Silence \/ Invalidate \/ Detach \/ ForgetRejected
  BY <1>4, <1>a DEF Condemn, Exit, Unload, Silence, Invalidate, Detach, ForgetRejected, Goto,
     ReportInv
<1>5. CASE WriteReport \/ WriteError
  BY <1>5, <1>a DEF WriteReport, WriteError, Write, Goto, ReportInv
<1>6. CASE WriteIdle
  <2>1. /\ at["main"] = "writeIdle" /\ at' = [at EXCEPT !["main"] = "detach"]
        /\ pending' = [pending EXCEPT !["main"] = NoEvent]
    BY <1>6 DEF WriteIdle, Write, Goto
  <2>2. at["agent"] # "writeLoading"
    BY <1>a, <2>1 DEF MainHolds, AgentHolds
  <2> QED BY <1>a, <2>1, <2>2 DEF ReportInv
<1>7. CASE EmitIdle \/ EmitError
  BY <1>7, <1>a DEF EmitIdle, EmitError, Emit, Goto, Snapshot, ReportInv
<1>8. CASE EmitReport
  <2>1. /\ at["main"] = "report" /\ at' = [at EXCEPT !["main"] = "writeReport"]
        /\ pending' = [pending EXCEPT !["main"] =
             Snapshot(IF op["main"] \in {"invalid", "undecodable"} THEN "error" ELSE status)]
        /\ UNCHANGED <<request, op, owner, settled, commandLock>>
    BY <1>8 DEF EmitReport, Emit, Goto
  <2>2. /\ pending'["main"].request = request
        /\ op["main"] = "undecodable" => pending'["main"].status = "error"
    BY <1>a, <2>1 DEF Snapshot
  <2>3. ~IsSettled(request, owner, settled)
    BY <1>a, <2>1
  <2> QED BY <1>a, <2>1, <2>2, <2>3 DEF ReportInv
<1>9. CASE Refuse \/ Admit
  BY <1>9, <1>a DEF Refuse, Admit, Goto, Release, ReportInv, AgentHolds
<1>10. ASSUME NEW t \in Threads, Label(t) PROVE ReportInv'
  <2>1. /\ at[t] = "label" /\ request' = asked[t]
        /\ at' = [at EXCEPT ![t] = IF op[t] = "misfit" THEN "errorEvent" ELSE "claim"]
        /\ UNCHANGED <<op, owner, settled, pending, commandLock>>
    BY <1>10 DEF Label
  <2>2. t = "agent" => request' = NoRequest
    BY <1>a, <2>1
  <2> QED BY <1>a, <2>1, <2>2 DEF ReportInv
<1>11. ASSUME NEW t \in Threads, Claim(t) PROVE ReportInv'
  <2>1. /\ at[t] = "claim" /\ at' = [at EXCEPT ![t] = "loadingEvent"]
        /\ owner' = [owner EXCEPT ![generation + 1] =
                       [request |-> asked[t], source |-> SourceOf(t)]]
        /\ UNCHANGED <<request, op, pending, settled, commandLock>>
    BY <1>11 DEF Claim, Goto
  <2>2. \A r : IsSettled(r, owner', settled) => IsSettled(r, owner, settled)
    BY <1>a, <2>1 DEF IsSettled
  <2> QED BY <1>a, <2>1, <2>2 DEF ReportInv
<1>12. ASSUME NEW t \in Threads, EmitLoading(t) PROVE ReportInv'
  <2>1. /\ at[t] = "loadingEvent" /\ at' = [at EXCEPT ![t] = "writeLoading"]
        /\ pending' = [pending EXCEPT ![t] = Snapshot("loading")]
        /\ UNCHANGED <<request, op, owner, settled, commandLock>>
    BY <1>12 DEF EmitLoading, Emit, Goto
  <2>2. pending'[t].request = request
    BY <1>a, <2>1 DEF Snapshot
  <2>3. ~IsSettled(request, owner, settled)
    BY <1>a, <2>1 DEF MainHolds, AgentHolds
  <2> QED BY <1>a, <2>1, <2>2, <2>3 DEF ReportInv
<1>13. ASSUME NEW t \in Threads, WriteLoading(t) PROVE ReportInv'
  <2>1. /\ at[t] = "writeLoading" /\ at' = [at EXCEPT ![t] = "launch"]
        /\ pending' = [pending EXCEPT ![t] = NoEvent]
        /\ UNCHANGED <<request, op, owner, commandLock>>
    BY <1>13 DEF WriteLoading, Write, Goto
  <2>2. \A u \in Threads \ {t} : at[u] # "writeLoading"
    BY <1>a, <2>1 DEF MainHolds, AgentHolds
  <2>3. CASE t = "main"
    BY <1>a, <2>1, <2>2, <2>3 DEF ReportInv
  <2>4. CASE t = "agent"
    <3>1. commandLock = "agent" /\ at'["main"] = at["main"] /\ pending'["main"] = pending["main"]
      BY <1>a, <2>1, <2>4 DEF AgentHolds
    <3>2. at["main"] = "writeReport" =>
            \/ op["main"] = "hello" /\ pending["main"].request = NoRequest
            \/ op["main"] = "undecodable" /\ pending["main"].status = "error"
      BY <3>1 DEF ReportInv
    <3>3. at["main"] = "writeReport" /\ pending["main"].status \in BusyStatuses
            => ~IsSettled(pending["main"].request, owner, settled')
      BY <3>2 DEF IsSettled, BusyStatuses
    <3> QED BY <1>a, <2>1, <2>2, <2>4, <3>1, <3>3 DEF ReportInv
  <2> QED BY <2>3, <2>4
<1>14. ASSUME NEW t \in Threads, Launch(t) \/ EndCommand(t) PROVE ReportInv'
  BY <1>14, <1>a DEF Launch, EndCommand, Goto, Release, ReportInv, AgentHolds
<1>15. ASSUME NEW g \in Generations, SpeakStep(g) \/ PlayerDies(g) PROVE ReportInv'
  <2>1. /\ UNCHANGED <<commandLock, at, op, pending, owner, settled>>
        /\ request' \in {request, NoRequest}
    BY <1>15, SpeakFrame DEF Steps
  <2> QED BY <2>1 DEF ReportInv
<1>16. CASE UNCHANGED vars
  BY <1>16 DEF vars, ReportInv
<1> QED
  BY <1>1, <1>2, <1>3, <1>4, <1>5, <1>6, <1>7, <1>8, <1>9, <1>10, <1>11, <1>12, <1>13, <1>14,
     <1>15, <1>16 DEF Next, MainStep, CommandStep

LEMMA EventInit == Init => EventInv
<1> SUFFICES ASSUME Init PROVE EventInv
  OBVIOUS
<1> USE DEF Init, Threads
<1>1. NameInv
  BY DEF NameInv, EventsNameTheirRead, RunningStages, Canceled, Launching
<1>2. AskedInv
  BY DEF AskedInv, Canceled, Nobody
<1>3. SettledInv /\ ReportInv
  BY DEF SettledInv, ReportInv, IsSettled
<1> QED
  BY <1>1, <1>2, <1>3 DEF EventInv

LEMMA EventHolds == Spec => [](IInv /\ EventInv)
<1>1. IInv /\ EventInv /\ [Next]_vars => IInv' /\ EventInv'
  BY InvStep, NameStep, AskedStep, SettledStep, ReportStep DEF EventInv
<1> QED
  BY <1>1, InvInit, EventInit, PTL DEF Spec

(* While a read runs, every event written for it is correlated with it,    *)
(* whatever canceled threads and announcements do to the shared metadata   *)
(* (_read_selection_locked, _speak's finally block, handle_agent_request). *)
THEOREM NamesSafe == Spec => []EventsNameTheirRead
<1>1. EventInv => EventsNameTheirRead
  BY DEF EventInv, NameInv
<1> QED
  BY <1>1, EventHolds, PTL

(* Once the idle of a stop, or the loading of a later read, is on stdout,  *)
(* no event shows an earlier request loading or speaking again (_emit,     *)
(* _emit_generation, _stop_locked).                                        *)
THEOREM SettledSafe == Spec => SettledStaysQuiet
<1>1. IInv /\ EventInv /\ [Next]_vars => [BusyIsUnsettled]_vars
  <2> SUFFICES ASSUME IInv, EventInv, [Next]_vars,
                      shown' # shown, shown'.status \in BusyStatuses
               PROVE  ~IsSettled(shown'.request, owner, settled)
    BY DEF BusyIsUnsettled, SettledRequests, IsSettled
  <2> USE DEF EventInv, Threads, shared, locks, command, speaker, history
  <2>1. ASSUME NEW t \in Threads, WriteLoading(t)
        PROVE  ~IsSettled(shown'.request, owner, settled)
    BY <2>1 DEF WriteLoading, Write, Goto, ReportInv
  <2>2. CASE WriteReport
    BY <2>2 DEF WriteReport, Write, Goto, ReportInv
  <2>3. CASE WriteIdle \/ WriteError
    BY <2>3 DEF WriteIdle, WriteError, Write, Goto, ReportInv, BusyStatuses
  <2>4. ASSUME NEW g \in Generations, SpeakStep(g) \/ PlayerDies(g)
        PROVE  ~IsSettled(shown'.request, owner, settled)
    <3>1. /\ shown'.request = request /\ g = generation /\ stage[g] \in RunningStages
      BY <2>4, SpeakFrame DEF Steps
    <3>2. at["main"] # "detach"
      BY <3>1, ReadFacts DEF NameInv, Canceled, RunningStages
    <3> QED BY <3>1, <3>2 DEF SettledInv
  <2>5. CASE UNCHANGED shown
    BY <2>5
  <2>6. CASE \/ \E o \in CommandOps, r \in Requested : BeginCommand(o, r)
             \/ BeginUndecodable \/ BeginExit \/ BeginAnnounce \/ Refuse \/ Admit
             \/ Condemn \/ Invalidate \/ Silence \/ Detach \/ Unload \/ Exit
             \/ EmitIdle \/ EmitError \/ ForgetRejected \/ EmitReport
    BY <2>5, <2>6 DEF BeginCommand, BeginUndecodable, BeginExit, BeginAnnounce, Refuse, Admit,
       Condemn, Invalidate, Silence, Detach, Unload, Exit, EmitIdle, EmitError, ForgetRejected,
       EmitReport, Emit
  <2>7. ASSUME NEW t \in Threads,
               Label(t) \/ Claim(t) \/ EmitLoading(t) \/ Launch(t) \/ EndCommand(t)
        PROVE  ~IsSettled(shown'.request, owner, settled)
    BY <2>5, <2>7 DEF Label, Claim, EmitLoading, Emit, Launch, EndCommand
  <2>8. CASE UNCHANGED vars
    BY <2>8 DEF vars
  <2> QED
    BY <2>1, <2>2, <2>3, <2>4, <2>6, <2>7, <2>8 DEF Next, MainStep, CommandStep
<1> QED
  BY <1>1, EventHolds, PTL DEF Spec, SettledStaysQuiet
=============================================================================
