--------------------------- MODULE SettingsProofs ---------------------------
(***************************************************************************)
(* Theorems about Settings, for any settings, any number of helpers,       *)
(* changes, restarts and losses of power.  That no half file is found      *)
(* holds also where a helper outlives the shell; the order of versions     *)
(* and what a user finds again are about helpers that do not.              *)
(***************************************************************************)
EXTENDS Settings, TLAPS

(***************************************************************************)
(* The file is whole.                                                      *)
(***************************************************************************)
Types ==
  /\ speed \in Speeds /\ choice \in Choices
  /\ reading \in {"running", "read", "applied"} /\ readText \in Contents
  /\ pending \in Payloads \union {NoPayload} /\ writePayload \in Payloads \union {NoPayload}
  /\ writer \in Helpers \union {NoHelper} /\ later \in BOOLEAN
  /\ at \in [Helpers -> Steps]
  /\ job \in [Helpers -> Payloads \union {NoPayload}]
  /\ stage \in [Helpers -> Contents] /\ synced \in [Helpers -> BOOLEAN]
  /\ file \in Contents /\ durable \in Contents /\ loose \subseteq Contents
  /\ worker \in Speeds \union {Off} /\ stdin \in Seq(Speeds) /\ stdout \in Seq(Speeds)
  /\ changes \in Nat /\ restarts \in Nat
  /\ asked \in [speed : Speeds, choice : Choices]
  /\ early \in BOOLEAN /\ behind \in BOOLEAN /\ failed \in BOOLEAN

(* The payload of the service is that of the helper that is being started. *)
HandoverInv == writePayload # NoPayload <=> \E h \in Helpers : writer = h /\ at[h] = "starting"

(* A helper past its input has a payload; what it replaces the file by is  *)
(* that payload, and on the disk.                                          *)
StageInv ==
  \A h \in Helpers :
    /\ at[h] \notin {"off", "starting", "done"} => job[h] \in Payloads
    /\ at[h] \in {"sync", "replace"} => stage[h] = job[h]
    /\ at[h] = "replace" => synced[h]

WholeInv == Types /\ HandoverInv /\ StageInv /\ FileIsWhole

(***************************************************************************)
(* Versions, where no helper outlives the shell.                           *)
(***************************************************************************)

(* The helper of the queue is the only one.                                *)
SoleInv ==
  /\ \A h \in Helpers : at[h] # "off" <=> writer = h
  /\ \A h \in Helpers : at[h] \in {"off", "starting"} => job[h] = NoPayload

(* The helper has not yet replaced the file.                               *)
InFlight(h) == at[h] \in {"prepare", "write", "sync", "replace"}

(* Versions grow from the disk to the file, to the payload on its way, to  *)
(* the one that waits, to the last change.                                 *)
VersionInv ==
  /\ VersionOf(durable) <= VersionOf(file) /\ VersionOf(file) <= changes
  /\ \A f \in loose : VersionOf(durable) <= VersionOf(f) /\ VersionOf(f) <= VersionOf(file)
  /\ \A h \in Helpers : InFlight(h) => VersionOf(file) < job[h].n /\ job[h].n <= changes
  /\ writePayload \in Payloads => VersionOf(file) < writePayload.n /\ writePayload.n <= changes
  /\ pending \in Payloads =>
       /\ VersionOf(file) < pending.n /\ pending.n <= changes
       /\ \A h \in Helpers : InFlight(h) => job[h].n < pending.n
       /\ writePayload \in Payloads => writePayload.n < pending.n

(***************************************************************************)
(* What the user has set.                                                  *)
(***************************************************************************)

(* The disk has the file for sure, but between replace and flush, or when  *)
(* a write has failed.                                                     *)
SettledInv ==
  /\ loose = {} => durable = file
  /\ ~failed /\ (\A h \in Helpers : at[h] # "flush") => loose = {}
  /\ \A h \in Helpers : at[h] = "clean" => failed

(* The properties of the service are those that the user has set, once the *)
(* file has been applied, but for the speed of a worker; before, they are  *)
(* the defaults and nothing is written.                                    *)
AppliedInv ==
  ~early =>
    /\ reading = "applied" => choice = asked.choice
    /\ reading = "read" => ContentOf(readText) = asked
    /\ reading # "applied" =>
         /\ choice = DefaultChoice /\ ContentOf(file) = asked
         /\ pending = NoPayload /\ writePayload = NoPayload /\ writer = NoHelper

(* The newest payload has what the user has set.                           *)
NewestInv ==
  ~early /\ ~behind =>
    /\ pending \in Payloads => ContentOf(pending) = asked
    /\ pending = NoPayload /\ writePayload \in Payloads => ContentOf(writePayload) = asked
    /\ pending = NoPayload =>
         \A h \in Helpers : InFlight(h) => ContentOf(job[h]) = asked
    /\ /\ pending = NoPayload /\ writePayload = NoPayload /\ ~failed
       /\ \A h \in Helpers : ~InFlight(h)
       => ContentOf(file) = asked

(* What a payload is, and that no mark is one. *)
LEMMA PayloadFacts ==
  /\ \A p \in Payloads : /\ p.n \in Nat /\ VersionOf(p) = p.n
                         /\ p.speed \in Speeds /\ p.choice \in Choices
                         /\ ContentOf(p) = [speed |-> p.speed, choice |-> p.choice]
  /\ NoPayload \notin Payloads /\ NoFile \notin Payloads /\ Half \notin Payloads
  /\ NoFile # Half /\ NoHelper \notin Helpers
  /\ VersionOf(NoFile) = 0
  /\ \A f \in Contents : f # Half => VersionOf(f) \in Nat
  /\ \A f \in Contents : ContentOf(f) \in [speed : Speeds, choice : Choices]
  /\ Payloads \subseteq Contents /\ NoFile \in Contents /\ Half \in Contents
BY MarksAssumption, NamesAssumption, DefaultsAssumption
   DEF Payloads, VersionOf, ContentOf, Contents, Defaults

(* A pipe that takes another speed has speeds only. *)
LEMMA AppendType == \A q \in Seq(Speeds), s \in Speeds : Append(q, s) \in Seq(Speeds)
OBVIOUS

(* A payload that is started goes to a helper that was off, or has to      *)
(* wait.                                                                   *)
LEMMA StartWriteCases ==
  ASSUME Types, NEW p \in Payloads, StartWrite(p)
  PROVE  \/ writer # NoHelper /\ pending' = p /\ UNCHANGED <<writePayload, writer, at>>
         \/ /\ writer = NoHelper /\ writePayload' = p /\ pending' = NoPayload
            /\ \E h \in Helpers : /\ at[h] = "off" /\ writer' = h
                                  /\ at' = [at EXCEPT ![h] = "starting"]
BY PayloadFacts DEF StartWrite, Types

(* A change has the next version, and all settings of the service.         *)
LEMMA ChangeCases ==
  ASSUME Types, NEW v \in [speed : Speeds, choice : Choices], Change(v)
  PROVE  /\ Payload(v) \in Payloads /\ Payload(v).n = changes + 1 /\ ContentOf(Payload(v)) = v
         /\ speed' = v.speed /\ choice' = v.choice /\ changes' = changes + 1
         /\ early' = (early \/ reading # "applied")
         /\ UNCHANGED <<reading, readText, later, job, stage, synced, file, durable, loose,
                        restarts, failed>>
         /\ \/ /\ writer # NoHelper /\ pending' = Payload(v)
               /\ UNCHANGED <<writePayload, writer, at>>
            \/ /\ writer = NoHelper /\ writePayload' = Payload(v) /\ pending' = NoPayload
               /\ \E h \in Helpers : /\ at[h] = "off" /\ writer' = h
                                     /\ at' = [at EXCEPT ![h] = "starting"]
<1>1. changes' = changes + 1 /\ changes' \in Nat
  BY DEF Change, Types
<1>2. Payload(v) \in Payloads
  BY <1>1 DEF Payload, Payloads
<1>3. Payload(v).n = changes + 1 /\ ContentOf(Payload(v)) = v
  BY <1>1, <1>2, PayloadFacts DEF Payload
<1>4. StartWrite(Payload(v))
  BY DEF Change
<1> QED
  BY <1>1, <1>2, <1>3, <1>4, StartWriteCases DEF Change, disk

(***************************************************************************)
(* No half file.                                                           *)
(***************************************************************************)

(* The invariant holds at the start. *)
LEMMA WholeInit == Init => WholeInv
<1> SUFFICES ASSUME Init PROVE WholeInv
  OBVIOUS
<1>1. file \in Contents /\ file # Half
  BY PayloadFacts DEF Init, Contents, Payloads
<1>2. asked \in [speed : Speeds, choice : Choices]
  BY <1>1, PayloadFacts DEF Init
<1> QED
  <2>1. stdin \in Seq(Speeds) /\ stdout \in Seq(Speeds) /\ changes \in Nat /\ restarts \in Nat
    BY DEF Init
  <2>2. Types
    BY <1>1, <1>2, <2>1, PayloadFacts, DefaultsAssumption DEF Init, Types, Steps
  <2>3. HandoverInv /\ StageInv /\ FileIsWhole
    BY <1>1, PayloadFacts DEF Init, HandoverInv, StageInv, FileIsWhole
  <2> QED
    BY <2>2, <2>3 DEF WholeInv

(* A step of a helper keeps the invariant. *)
LEMMA WholeHelperStep ==
  ASSUME WholeInv, NEW h \in Helpers, Write(h) \/ Killed(h)
  PROVE  WholeInv'
<1> USE PayloadFacts DEF WholeInv, unchangedByHelper, service, queue, helper, disk, speaker,
   history
<1>1. CASE Started(h)
  <2>1. Types'
    BY <1>1 DEF Started, Types, HandoverInv, StageInv, Steps
  <2>2. HandoverInv'
    BY <1>1 DEF Started, Types, HandoverInv
  <2>3. StageInv' /\ FileIsWhole'
    BY <1>1 DEF Started, Types, HandoverInv, StageInv, FileIsWhole
  <2> QED
    BY <2>1, <2>2, <2>3
<1>2. CASE Refused(h)
  <2>1. Types'
    BY <1>2 DEF Refused, Finish, Proceed, Types, HandoverInv, StageInv, Steps
  <2>2. HandoverInv'
    BY <1>2 DEF Refused, Finish, Proceed, Types, HandoverInv
  <2>3. StageInv' /\ FileIsWhole'
    BY <1>2 DEF Refused, Finish, Proceed, Types, HandoverInv, StageInv, FileIsWhole
  <2> QED
    BY <2>1, <2>2, <2>3
<1>3. CASE CreateStage(h)
  <2>1. Types'
    BY <1>3 DEF CreateStage, Proceed, Types, HandoverInv, StageInv, Steps
  <2>2. HandoverInv'
    BY <1>3 DEF CreateStage, Proceed, Types, HandoverInv
  <2>3. StageInv' /\ FileIsWhole'
    BY <1>3 DEF CreateStage, Proceed, Types, HandoverInv, StageInv, FileIsWhole
  <2> QED
    BY <2>1, <2>2, <2>3
<1>4. CASE WriteStage(h)
  <2>1. Types'
    <3>1. job[h] \in Contents
      BY <1>4 DEF WriteStage, StageInv
    <3>2. /\ stage' = [stage EXCEPT ![h] = job[h]] /\ at' = [at EXCEPT ![h] = "sync"]
          /\ UNCHANGED <<service, queue, job, speaker, history, synced, disk>>
      BY <1>4 DEF WriteStage, Proceed
    <3> QED
      BY <3>1, <3>2 DEF Types, Steps
  <2>2. HandoverInv'
    BY <1>4 DEF WriteStage, Proceed, Types, HandoverInv
  <2>3. StageInv' /\ FileIsWhole'
    BY <1>4 DEF WriteStage, Proceed, Types, HandoverInv, StageInv, FileIsWhole
  <2> QED
    BY <2>1, <2>2, <2>3
<1>5. CASE SyncStage(h)
  <2>1. Types'
    BY <1>5 DEF SyncStage, Proceed, Types, HandoverInv, StageInv, Steps
  <2>2. HandoverInv'
    BY <1>5 DEF SyncStage, Proceed, Types, HandoverInv
  <2>3. StageInv' /\ FileIsWhole'
    BY <1>5 DEF SyncStage, Proceed, Types, HandoverInv, StageInv, FileIsWhole
  <2> QED
    BY <2>1, <2>2, <2>3
<1>6. CASE Replace(h)
  <2>1. Types'
    <3>1. /\ stage' = [stage EXCEPT ![h] = NoFile] /\ at' = [at EXCEPT ![h] = "flush"]
          /\ UNCHANGED <<service, queue, job, speaker, changes, restarts, asked, early, behind,
                         synced, durable>>
          /\ failed' = FALSE
      BY <1>6 DEF Replace, Proceed
    <3>2. file' \in Contents /\ loose' \subseteq Contents
      BY <1>6 DEF Replace, Types
    <3> QED
      BY <3>1, <3>2 DEF Types, Steps
  <2>2. HandoverInv'
    BY <1>6 DEF Replace, Proceed, Types, HandoverInv
  <2>3. StageInv' /\ FileIsWhole'
    BY <1>6 DEF Replace, Proceed, Types, HandoverInv, StageInv, FileIsWhole
  <2> QED
    BY <2>1, <2>2, <2>3
<1>7. CASE Flush(h)
  <2>1. Types'
    BY <1>7 DEF Flush, Finish, Proceed, Types, HandoverInv, StageInv, Steps
  <2>2. HandoverInv'
    BY <1>7 DEF Flush, Finish, Proceed, Types, HandoverInv
  <2>3. StageInv' /\ FileIsWhole'
    BY <1>7 DEF Flush, Finish, Proceed, Types, HandoverInv, StageInv, FileIsWhole
  <2> QED
    BY <2>1, <2>2, <2>3
<1>8. CASE Fails(h)
  <2>1. Types'
    BY <1>8 DEF Fails, Proceed, Types, HandoverInv, StageInv, Steps
  <2>2. HandoverInv'
    BY <1>8 DEF Fails, Proceed, Types, HandoverInv
  <2>3. StageInv' /\ FileIsWhole'
    BY <1>8 DEF Fails, Proceed, Types, HandoverInv, StageInv, FileIsWhole
  <2> QED
    BY <2>1, <2>2, <2>3
<1>9. CASE CleanUp(h)
  <2>1. Types'
    BY <1>9 DEF CleanUp, Finish, Proceed, Types, HandoverInv, StageInv, Steps
  <2>2. HandoverInv'
    BY <1>9 DEF CleanUp, Finish, Proceed, Types, HandoverInv
  <2>3. StageInv' /\ FileIsWhole'
    BY <1>9 DEF CleanUp, Finish, Proceed, Types, HandoverInv, StageInv, FileIsWhole
  <2> QED
    BY <2>1, <2>2, <2>3
<1>10. CASE Killed(h)
  <2>1. Types'
    BY <1>10 DEF Killed, Finish, Proceed, Types, HandoverInv, StageInv, Steps
  <2>2. HandoverInv'
    BY <1>10 DEF Killed, Finish, Proceed, Types, HandoverInv
  <2>3. StageInv' /\ FileIsWhole'
    BY <1>10 DEF Killed, Finish, Proceed, Types, HandoverInv, StageInv, FileIsWhole
  <2> QED
    BY <2>1, <2>2, <2>3
<1>11. CASE Exited(h)
  <2>1. Types'
    BY <1>11 DEF Exited, Types, HandoverInv, StageInv, Steps
  <2>2. HandoverInv'
    BY <1>11 DEF Exited, Types, HandoverInv
  <2>3. StageInv' /\ FileIsWhole'
    BY <1>11 DEF Exited, Types, HandoverInv, StageInv, FileIsWhole
  <2> QED
    BY <2>1, <2>2, <2>3
<1> QED
  BY <1>1, <1>2, <1>3, <1>4, <1>5, <1>6, <1>7, <1>8, <1>9, <1>10, <1>11 DEF Write

(* A change, whoever makes it, keeps the invariant. *)
LEMMA WholeChange ==
  ASSUME WholeInv, SetSpeed \/ SetChoice
  PROVE  WholeInv'
<1> USE PayloadFacts DEF WholeInv
<1>1. PICK v \in [speed : Speeds, choice : Choices] : Change(v)
  BY DEF SetSpeed, SetChoice, Types
<1>2. /\ asked' \in [speed : Speeds, choice : Choices] /\ behind' \in BOOLEAN
      /\ UNCHANGED <<worker, stdout>> /\ stdin' \in Seq(Speeds)
  <2>1. CASE SetSpeed
    <3>1. PICK s \in Speeds :
            /\ asked' = [asked EXCEPT !.speed = s]
            /\ stdin' = stdin \/ stdin' = Append(stdin, s)
            /\ behind' = FALSE /\ UNCHANGED <<worker, stdout>>
      BY <2>1 DEF SetSpeed
    <3>2. asked' \in [speed : Speeds, choice : Choices]
      BY <3>1 DEF Types
    <3>3. stdin' \in Seq(Speeds)
      <4>1. stdin \in Seq(Speeds)
        BY DEF Types
      <4> QED
        BY <3>1, <4>1, AppendType
    <3> QED
      BY <3>1, <3>2, <3>3
  <2>2. CASE SetChoice
    BY <2>2 DEF SetChoice, Types, speaker
  <2> QED
    BY <2>1, <2>2
<1>3. HandoverInv'
  BY <1>1, ChangeCases DEF Types, HandoverInv
<1>5. early' \in BOOLEAN
  BY <1>1, ChangeCases DEF Types
<1>6. Types'
  BY <1>1, <1>2, <1>5, ChangeCases DEF Types, Steps
<1>4. StageInv' /\ FileIsWhole'
  BY <1>1, ChangeCases DEF Types, StageInv, FileIsWhole
<1> QED
  BY <1>3, <1>4, <1>6

(* So do the deferred start, the read at startup, the worker, restarts and *)
(* losses of power.                                                        *)
LEMMA WholeOtherStep ==
  ASSUME WholeInv,
         \/ CallLater \/ ReadSettings \/ ApplySettings
         \/ WorkerStarts \/ WorkerTakesSpeed \/ WorkerReports \/ HandleWorkerLine \/ WorkerEnds
         \/ Restart \/ PowerLoss \/ UNCHANGED vars
  PROVE  WholeInv'
<1> USE PayloadFacts, DefaultsAssumption
    DEF WholeInv, vars, service, queue, helper, disk, speaker, history
<1>1. CASE CallLater
  <2>1. CASE pending = NoPayload
    BY <1>1, <2>1 DEF CallLater, StartWrite, Types, HandoverInv, StageInv, FileIsWhole
  <2>2. CASE pending # NoPayload
    <3>1. pending \in Payloads /\ StartWrite(pending) /\ later' = FALSE
      BY <1>1, <2>2 DEF CallLater, Types
    <3>2. UNCHANGED <<service, job, stage, synced, disk, speaker, history>>
      BY <1>1 DEF CallLater
    <3>3. HandoverInv'
      BY <3>1, <3>2, StartWriteCases DEF Types, HandoverInv
    <3>5. /\ writer' \in Helpers \union {NoHelper} /\ at' \in [Helpers -> Steps]
          /\ pending' \in Payloads \union {NoPayload}
          /\ writePayload' \in Payloads \union {NoPayload}
      BY <3>1, StartWriteCases DEF Types, Steps
    <3>6. Types'
      BY <3>1, <3>2, <3>5 DEF Types
    <3>4. StageInv' /\ FileIsWhole'
      BY <3>1, <3>2, StartWriteCases DEF Types, StageInv, FileIsWhole
    <3> QED
      BY <3>3, <3>4, <3>6
  <2> QED
    BY <2>1, <2>2
<1>2. CASE ReadSettings \/ ApplySettings
  <2>1. UNCHANGED <<queue, helper, disk, speaker, changes, restarts, asked, behind, failed>>
    BY <1>2 DEF ReadSettings, ApplySettings, unchangedByReader
  <2>2. /\ reading' \in {"running", "read", "applied"} /\ readText' \in Contents
        /\ speed' \in Speeds /\ choice' \in Choices
    BY <1>2 DEF ReadSettings, ApplySettings, Types
  <2>3. early' \in BOOLEAN
    BY <1>2 DEF ReadSettings, ApplySettings, Types
  <2> QED
    BY <2>1, <2>2, <2>3 DEF Types, HandoverInv, StageInv, FileIsWhole
<1>3. CASE WorkerStarts \/ WorkerTakesSpeed \/ WorkerReports \/ HandleWorkerLine \/ WorkerEnds
  <2>1. UNCHANGED <<choice, reading, readText, queue, helper, disk, history>>
    BY <1>3 DEF WorkerStarts, WorkerTakesSpeed, WorkerReports, HandleWorkerLine, WorkerEnds,
       unchangedByWorker
  <2>2. /\ speed' \in Speeds /\ worker' \in Speeds \union {Off}
        /\ stdin' \in Seq(Speeds) /\ stdout' \in Seq(Speeds)
    <3>1. CASE WorkerStarts
      BY <3>1 DEF WorkerStarts, Types
    <3>2. CASE WorkerTakesSpeed
      <4>1. Head(stdin) \in Speeds /\ Tail(stdin) \in Seq(Speeds)
        BY <3>2 DEF WorkerTakesSpeed, Types
      <4> QED
        BY <3>2, <4>1, AppendType DEF WorkerTakesSpeed, Types
    <3>3. CASE WorkerReports
      <4>1. worker \in Speeds
        BY <3>3 DEF WorkerReports, Types
      <4> QED
        BY <3>3, <4>1, AppendType DEF WorkerReports, Types
    <3>4. CASE HandleWorkerLine
      BY <3>4 DEF HandleWorkerLine, Types
    <3>5. CASE WorkerEnds
      BY <3>5 DEF WorkerEnds, Types
    <3> QED
      BY <1>3, <3>1, <3>2, <3>3, <3>4, <3>5
  <2> QED
    BY <2>1, <2>2 DEF Types, HandoverInv, StageInv, FileIsWhole
<1>4. CASE Restart
  <2>1. Anew(file) /\ UNCHANGED <<disk, synced>>
    BY <1>4 DEF Restart, HelpersEnd
  <2>2. /\ at' \in [Helpers -> Steps]
        /\ \A h \in Helpers : at'[h] \in {at[h], "off"} \ {"starting"}
        /\ job' \in [Helpers -> Payloads \union {NoPayload}] /\ stage' \in [Helpers -> Contents]
        /\ \A h \in Helpers : at'[h] # "off" => job'[h] = job[h] /\ stage'[h] = stage[h]
    BY <1>4 DEF Restart, HelpersEnd, Types, Steps
  <2>3. asked' \in [speed : Speeds, choice : Choices]
    BY <2>1 DEF Anew, Types
  <2>4. failed' \in BOOLEAN /\ early' \in BOOLEAN /\ behind' \in BOOLEAN
    BY <1>4 DEF Restart, Anew
  <2>5. Types'
    <3>1. stdin' \in Seq(Speeds) /\ stdout' \in Seq(Speeds) /\ restarts' \in Nat
      BY <2>1 DEF Anew, Types
    <3> QED
      BY <2>1, <2>2, <2>3, <2>4, <3>1 DEF Anew, Types
  <2>6. HandoverInv' /\ StageInv' /\ FileIsWhole'
    BY <2>1, <2>2 DEF Anew, HandoverInv, StageInv, FileIsWhole
  <2> QED
    BY <2>5, <2>6
<1>5. CASE PowerLoss
  <2>1. PICK found \in loose \union {durable} :
           /\ Anew(found) /\ HelpersEnd(Helpers)
           /\ file' = found /\ durable' = found /\ loose' = {} /\ failed' = FALSE
    BY <1>5 DEF PowerLoss
  <2>2. found \in Contents /\ found # Half /\ asked' \in [speed : Speeds, choice : Choices]
    BY <2>1 DEF Types, FileIsWhole, Anew
  <2>3. Types'
    <3>1. stdin' \in Seq(Speeds) /\ stdout' \in Seq(Speeds) /\ restarts' \in Nat
      BY <2>1 DEF Anew, Types
    <3>2. /\ at' \in [Helpers -> Steps] /\ job' \in [Helpers -> Payloads \union {NoPayload}]
          /\ stage' \in [Helpers -> Contents] /\ synced' \in [Helpers -> BOOLEAN]
      BY <2>1 DEF HelpersEnd, Types, Steps
    <3> QED
      BY <2>1, <2>2, <3>1, <3>2 DEF Anew, Types
  <2>4. HandoverInv' /\ StageInv' /\ FileIsWhole'
    BY <2>1, <2>2 DEF Anew, HelpersEnd, HandoverInv, StageInv, FileIsWhole
  <2> QED
    BY <2>3, <2>4
<1>6. CASE UNCHANGED vars
  BY <1>6 DEF Types, HandoverInv, StageInv, FileIsWhole
<1> QED
  BY <1>1, <1>2, <1>3, <1>4, <1>5, <1>6

(* Every step keeps the invariant. *)
LEMMA WholeStep == WholeInv /\ [Next]_vars => WholeInv'
BY WholeHelperStep, WholeChange, WholeOtherStep DEF Next

(* The invariant holds in every state of every behaviour. *)
LEMMA WholeSafe == Spec => []WholeInv
BY WholeInit, WholeStep, PTL DEF Spec

(* Nobody finds half a file, whenever a helper dies and whenever power is  *)
(* lost, and also where a helper outlives the shell (write_settings).      *)
THEOREM FileWhole == Spec => []FileIsWhole
<1>1. WholeInv => FileIsWhole
  BY DEF WholeInv
<1> QED
  BY <1>1, WholeSafe, PTL

(***************************************************************************)
(* The order of the versions and what the user has set, where no helper    *)
(* outlives the shell.                                                     *)
(***************************************************************************)
SavedInv == WholeInv /\ SoleInv /\ VersionInv /\ SettledInv /\ AppliedInv /\ NewestInv

(* The invariant holds at the start, and the register has version zero. *)
LEMMA SavedInit == Init => SavedInv /\ Register!Init
<1> SUFFICES ASSUME Init PROVE SavedInv /\ Register!Init
  OBVIOUS
<1>1. WholeInv
  BY WholeInit
<1>2. VersionOf(file) = 0
  BY PayloadFacts DEF Init, Payloads, VersionOf
<1>3. SoleInv /\ VersionInv /\ SettledInv /\ AppliedInv /\ NewestInv
  BY <1>2, PayloadFacts DEF Init, SoleInv, VersionInv, SettledInv, AppliedInv, NewestInv,
     InFlight,
     ContentOf, Defaults
<1> QED
  BY <1>1, <1>2, <1>3 DEF SavedInv, Init, Register!Init

(* What a step of the system is to the register.                           *)
Shown == [Register!Next]_(Register!vars)

(* A change is asked of the register, and the newest payload has it. *)
LEMMA SavedChange ==
  ASSUME SavedInv, SetSpeed \/ SetChoice
  PROVE  SavedInv' /\ Shown
<1> USE PayloadFacts DEF SavedInv
<1>1. WholeInv'
  BY WholeChange
<1>2. PICK v \in [speed : Speeds, choice : Choices] :
        /\ Change(v)
        /\ \/ \E s \in Speeds : /\ v = [speed |-> s, choice |-> choice]
                                /\ asked' = [asked EXCEPT !.speed = s]
           \/ \E c \in Choices : /\ v = [speed |-> speed, choice |-> c]
                                 /\ asked' = [asked EXCEPT !.choice = c]
                                 /\ behind' = (speed # asked.speed)
  BY DEF SetSpeed, SetChoice, WholeInv, Types
<1> DEFINE p == Payload(v)
<1>3. /\ p \in Payloads /\ p.n = changes + 1 /\ ContentOf(p) = v
      /\ choice' = v.choice /\ changes' = changes + 1
      /\ early' = (early \/ reading # "applied")
      /\ UNCHANGED <<reading, readText, job, stage, synced, file, durable, loose, failed>>
      /\ \/ /\ writer # NoHelper /\ pending' = p
            /\ UNCHANGED <<writePayload, writer, at>>
         \/ /\ writer = NoHelper /\ writePayload' = p /\ pending' = NoPayload
            /\ \E h \in Helpers : /\ at[h] = "off" /\ writer' = h
                                  /\ at' = [at EXCEPT ![h] = "starting"]
  BY <1>2, ChangeCases DEF WholeInv
<1> HIDE DEF p
<1>4. changes \in Nat /\ at \in [Helpers -> Steps] /\ asked \in [speed : Speeds, choice : Choices]
      /\ job \in [Helpers -> Payloads \union {NoPayload}]
  BY DEF WholeInv, Types
<1>5. SoleInv' /\ SettledInv'
  BY <1>3, <1>4 DEF SoleInv, SettledInv
<1>6. VersionInv'
  <2>1. /\ VersionOf(file) \in Nat /\ pending \in Payloads \union {NoPayload}
        /\ writePayload \in Payloads \union {NoPayload}
        /\ \A h \in Helpers : InFlight(h) => job[h] \in Payloads
    BY DEF WholeInv, Types, FileIsWhole, StageInv, InFlight
  <2>2. CASE writer # NoHelper
    BY <1>3, <1>4, <2>1, <2>2 DEF VersionInv, InFlight
  <2>3. CASE writer = NoHelper
    <3>1. \A h \in Helpers : ~InFlight(h) /\ ~InFlight(h)'
      BY <1>3, <1>4, <2>3 DEF SoleInv, InFlight
    <3> QED
      BY <1>3, <1>4, <2>1, <2>3, <3>1 DEF VersionInv
  <2> QED
    BY <2>2, <2>3
<1>7. ~early' => choice = asked.choice
  BY <1>3 DEF AppliedInv
<1>8. ~early' /\ ~behind' => v = asked'
  BY <1>2, <1>4, <1>7
<1>9. ~early' => choice' = asked'.choice
  BY <1>2, <1>3, <1>4, <1>7
<1>10. AppliedInv'
  BY <1>3, <1>9 DEF AppliedInv
<1>11. NewestInv'
  BY <1>3, <1>4, <1>8 DEF NewestInv, InFlight, SoleInv, WholeInv
<1>12. Shown
  BY <1>3 DEF Shown, Register!Next, Register!Ask, Register!vars, VersionOf
<1> QED
  BY <1>1, <1>5, <1>6, <1>10, <1>11, <1>12

(* A step of the helper: replace stores, flush settles. *)
LEMMA SavedHelperStep ==
  ASSUME SavedInv, NEW h \in Helpers, Write(h) \/ Killed(h)
  PROVE  SavedInv' /\ Shown
<1> USE PayloadFacts DEF SavedInv, WholeInv, unchangedByHelper, service, queue, helper, disk,
   history
<1>1. WholeInv'
  BY WholeHelperStep
<1> USE DEF Types
<1>2. CASE Started(h)
  <2>1. SoleInv'
    BY <1>2 DEF Started, SoleInv, HandoverInv
  <2>2. VersionInv'
    BY <1>2 DEF Started, SoleInv, VersionInv, InFlight, HandoverInv
  <2>3. SettledInv'
    BY <1>2 DEF Started, SettledInv, SoleInv
  <2>4. AppliedInv'
    BY <1>2 DEF Started, AppliedInv, SoleInv
  <2>5. NewestInv'
    BY <1>2 DEF Started, NewestInv, SettledInv, SoleInv, InFlight, HandoverInv
  <2>6. Shown
    BY <1>2 DEF Started, SoleInv, Shown, InFlight, Register!Next, Register!vars
  <2> QED
    BY <1>1, <2>1, <2>2, <2>3, <2>4, <2>5, <2>6
<1>3. CASE Refused(h)
  <2>1. SoleInv'
    BY <1>3 DEF Refused, Finish, Proceed, SoleInv
  <2>2. VersionInv'
    BY <1>3 DEF Refused, Finish, Proceed, SoleInv, VersionInv, InFlight
  <2>3. SettledInv'
    BY <1>3 DEF Refused, Finish, Proceed, SettledInv, SoleInv
  <2>4. AppliedInv'
    BY <1>3 DEF Refused, Finish, Proceed, AppliedInv, SoleInv
  <2>5. NewestInv'
    BY <1>3 DEF Refused, Finish, Proceed, NewestInv, SettledInv, SoleInv, InFlight
  <2>6. Shown
    BY <1>3 DEF Refused, Finish, Proceed, SoleInv, Shown, InFlight, Register!Next, Register!vars
  <2> QED
    BY <1>1, <2>1, <2>2, <2>3, <2>4, <2>5, <2>6
<1>4. CASE CreateStage(h)
  <2>1. SoleInv'
    BY <1>4 DEF CreateStage, Proceed, SoleInv
  <2>2. VersionInv'
    BY <1>4 DEF CreateStage, Proceed, SoleInv, VersionInv, InFlight
  <2>3. SettledInv'
    BY <1>4 DEF CreateStage, Proceed, SettledInv, SoleInv
  <2>4. AppliedInv'
    BY <1>4 DEF CreateStage, Proceed, AppliedInv, SoleInv
  <2>5. NewestInv'
    BY <1>4 DEF CreateStage, Proceed, NewestInv, SettledInv, SoleInv, InFlight
  <2>6. Shown
    BY <1>4 DEF CreateStage, Proceed, SoleInv, Shown, InFlight, Register!Next, Register!vars
  <2> QED
    BY <1>1, <2>1, <2>2, <2>3, <2>4, <2>5, <2>6
<1>5. CASE WriteStage(h)
  <2>1. SoleInv'
    BY <1>5 DEF WriteStage, Proceed, SoleInv
  <2>2. VersionInv'
    BY <1>5 DEF WriteStage, Proceed, SoleInv, VersionInv, InFlight
  <2>3. SettledInv'
    BY <1>5 DEF WriteStage, Proceed, SettledInv, SoleInv
  <2>4. AppliedInv'
    BY <1>5 DEF WriteStage, Proceed, AppliedInv, SoleInv
  <2>5. NewestInv'
    BY <1>5 DEF WriteStage, Proceed, NewestInv, SettledInv, SoleInv, InFlight
  <2>6. Shown
    BY <1>5 DEF WriteStage, Proceed, SoleInv, Shown, InFlight, Register!Next, Register!vars
  <2> QED
    BY <1>1, <2>1, <2>2, <2>3, <2>4, <2>5, <2>6
<1>6. CASE SyncStage(h)
  <2>1. SoleInv'
    BY <1>6 DEF SyncStage, Proceed, SoleInv
  <2>2. VersionInv'
    BY <1>6 DEF SyncStage, Proceed, SoleInv, VersionInv, InFlight
  <2>3. SettledInv'
    BY <1>6 DEF SyncStage, Proceed, SettledInv, SoleInv
  <2>4. AppliedInv'
    BY <1>6 DEF SyncStage, Proceed, AppliedInv, SoleInv
  <2>5. NewestInv'
    BY <1>6 DEF SyncStage, Proceed, NewestInv, SettledInv, SoleInv, InFlight
  <2>6. Shown
    BY <1>6 DEF SyncStage, Proceed, SoleInv, Shown, InFlight, Register!Next, Register!vars
  <2> QED
    BY <1>1, <2>1, <2>2, <2>3, <2>4, <2>5, <2>6
<1>7. CASE Replace(h)
  <2>1. SoleInv'
    BY <1>7 DEF Replace, Proceed, SoleInv
  <2>2. VersionInv'
    <3>1. /\ job[h] \in Payloads /\ stage[h] = job[h] /\ synced[h] /\ InFlight(h)
          /\ writePayload = NoPayload
      BY <1>7 DEF Replace, SoleInv, StageInv, HandoverInv, InFlight
    <3>2. /\ file' = job[h] /\ loose' = loose \union {job[h]}
          /\ UNCHANGED <<durable, pending, writePayload, changes, job>>
          /\ \A g \in Helpers : ~InFlight(g)'
      BY <1>7, <3>1 DEF Replace, Proceed, SoleInv, InFlight
    <3>3. VersionOf(file) \in Nat /\ VersionOf(durable) \in Nat
      BY DEF FileIsWhole
    <3>4. /\ VersionOf(file)' = job[h].n /\ VersionOf(durable)' = VersionOf(durable)
          /\ VersionOf(file) < job[h].n /\ job[h].n <= changes
      BY <3>1, <3>2 DEF VersionInv
    <3>5. \A f \in loose' : VersionOf(durable) <= VersionOf(f) /\ VersionOf(f) <= job[h].n
      <4>1. \A f \in loose : VersionOf(f) \in Nat
        BY DEF FileIsWhole
      <4> QED
        BY <3>1, <3>2, <3>3, <3>4, <4>1 DEF VersionInv
    <3>6. pending \in Payloads => job[h].n < pending.n /\ pending.n <= changes
      BY <3>1 DEF VersionInv
    <3> QED
      BY <3>1, <3>2, <3>3, <3>4, <3>5, <3>6 DEF VersionInv
  <2>3. SettledInv'
    BY <1>7 DEF Replace, Proceed, SettledInv, SoleInv, FileIsWhole
  <2>4. AppliedInv'
    BY <1>7 DEF Replace, Proceed, AppliedInv, SoleInv
  <2>5. NewestInv'
    BY <1>7 DEF Replace, Proceed, NewestInv, SettledInv, SoleInv, InFlight, StageInv
  <2>6. Shown
    BY <1>7 DEF Replace, Proceed, SoleInv, Shown, InFlight, Register!Next, Register!vars,
       VersionInv, Register!Store, StageInv
  <2> QED
    BY <1>1, <2>1, <2>2, <2>3, <2>4, <2>5, <2>6
<1>8. CASE Flush(h)
  <2>1. SoleInv'
    BY <1>8 DEF Flush, Finish, Proceed, SoleInv
  <2>2. VersionInv'
    BY <1>8 DEF Flush, Finish, Proceed, SoleInv, VersionInv, InFlight, FileIsWhole
  <2>3. SettledInv'
    BY <1>8 DEF Flush, Finish, Proceed, SettledInv, SoleInv, FileIsWhole
  <2>4. AppliedInv'
    BY <1>8 DEF Flush, Finish, Proceed, AppliedInv, SoleInv
  <2>5. NewestInv'
    BY <1>8 DEF Flush, Finish, Proceed, NewestInv, SettledInv, SoleInv, InFlight
  <2>6. Shown
    BY <1>8 DEF Flush, Finish, Proceed, SoleInv, Shown, InFlight, Register!Next, Register!vars,
       Register!Settle, FileIsWhole
  <2> QED
    BY <1>1, <2>1, <2>2, <2>3, <2>4, <2>5, <2>6
<1>9. CASE Fails(h)
  <2>1. SoleInv'
    BY <1>9 DEF Fails, Proceed, SoleInv
  <2>2. VersionInv'
    BY <1>9 DEF Fails, Proceed, SoleInv, VersionInv, InFlight
  <2>3. SettledInv'
    BY <1>9 DEF Fails, Proceed, SettledInv, SoleInv
  <2>4. AppliedInv'
    BY <1>9 DEF Fails, Proceed, AppliedInv, SoleInv
  <2>5. NewestInv'
    BY <1>9 DEF Fails, Proceed, NewestInv, SettledInv, SoleInv, InFlight
  <2>6. Shown
    BY <1>9 DEF Fails, Proceed, SoleInv, Shown, InFlight, Register!Next, Register!vars
  <2> QED
    BY <1>1, <2>1, <2>2, <2>3, <2>4, <2>5, <2>6
<1>10. CASE CleanUp(h)
  <2>1. SoleInv'
    BY <1>10 DEF CleanUp, Finish, Proceed, SoleInv
  <2>2. VersionInv'
    BY <1>10 DEF CleanUp, Finish, Proceed, SoleInv, VersionInv, InFlight
  <2>3. SettledInv'
    BY <1>10 DEF CleanUp, Finish, Proceed, SettledInv, SoleInv
  <2>4. AppliedInv'
    BY <1>10 DEF CleanUp, Finish, Proceed, AppliedInv, SoleInv
  <2>5. NewestInv'
    BY <1>10 DEF CleanUp, Finish, Proceed, NewestInv, SettledInv, SoleInv, InFlight
  <2>6. Shown
    BY <1>10 DEF CleanUp, Finish, Proceed, SoleInv, Shown, InFlight, Register!Next, Register!vars
  <2> QED
    BY <1>1, <2>1, <2>2, <2>3, <2>4, <2>5, <2>6
<1>11. CASE Killed(h)
  <2>1. SoleInv'
    BY <1>11 DEF Killed, Finish, Proceed, SoleInv
  <2>2. VersionInv'
    BY <1>11 DEF Killed, Finish, Proceed, SoleInv, VersionInv, InFlight
  <2>3. SettledInv'
    BY <1>11 DEF Killed, Finish, Proceed, SettledInv, SoleInv
  <2>4. AppliedInv'
    BY <1>11 DEF Killed, Finish, Proceed, AppliedInv, SoleInv
  <2>5. NewestInv'
    BY <1>11 DEF Killed, Finish, Proceed, NewestInv, SettledInv, SoleInv, InFlight
  <2>6. Shown
    BY <1>11 DEF Killed, Finish, Proceed, SoleInv, Shown, InFlight, Register!Next, Register!vars
  <2> QED
    BY <1>1, <2>1, <2>2, <2>3, <2>4, <2>5, <2>6
<1>12. CASE Exited(h)
  <2>1. SoleInv'
    BY <1>12 DEF Exited, SoleInv
  <2>2. VersionInv'
    BY <1>12 DEF Exited, SoleInv, VersionInv, InFlight
  <2>3. SettledInv'
    BY <1>12 DEF Exited, SettledInv, SoleInv
  <2>4. AppliedInv'
    BY <1>12 DEF Exited, AppliedInv, SoleInv
  <2>5. NewestInv'
    BY <1>12 DEF Exited, NewestInv, SettledInv, SoleInv, InFlight
  <2>6. Shown
    BY <1>12 DEF Exited, SoleInv, Shown, InFlight, Register!Next, Register!vars
  <2> QED
    BY <1>1, <2>1, <2>2, <2>3, <2>4, <2>5, <2>6
<1> QED
  BY <1>2, <1>3, <1>4, <1>5, <1>6, <1>7, <1>8, <1>9, <1>10, <1>11, <1>12 DEF Write

(* No other step is seen of the register, but for a loss of power, after   *)
(* which it has what was settled or newer.                                 *)
LEMMA SavedOtherStep ==
  ASSUME Orphans = FALSE, SavedInv,
         \/ CallLater \/ ReadSettings \/ ApplySettings
         \/ WorkerStarts \/ WorkerTakesSpeed \/ WorkerReports \/ HandleWorkerLine \/ WorkerEnds
         \/ Restart \/ PowerLoss \/ UNCHANGED vars
  PROVE  SavedInv' /\ Shown
<1> USE PayloadFacts, DefaultsAssumption
    DEF SavedInv, vars, service, queue, helper, disk, speaker, history
<1>1. WholeInv'
  BY WholeOtherStep
<1>2. CASE CallLater
  <2>1. UNCHANGED <<service, job, stage, synced, disk, speaker, history>>
    BY <1>2 DEF CallLater
  <2>2. \/ UNCHANGED <<pending, writePayload, writer, at>>
        \/ /\ writer = NoHelper /\ pending \in Payloads /\ writePayload' = pending
           /\ pending' = NoPayload
           /\ \E h \in Helpers : /\ at[h] = "off" /\ writer' = h
                                 /\ at' = [at EXCEPT ![h] = "starting"]
    BY <1>2 DEF CallLater, StartWrite, WholeInv, Types
  <2>3. SoleInv' /\ SettledInv'
    BY <2>1, <2>2 DEF SoleInv, SettledInv, WholeInv, Types
  <2>4. VersionInv'
    BY <2>1, <2>2 DEF VersionInv, SoleInv, InFlight, WholeInv, Types
  <2>5. AppliedInv'
    BY <2>1, <2>2 DEF AppliedInv
  <2>6. NewestInv'
    <3>1. CASE UNCHANGED <<pending, writePayload, writer, at>>
      BY <2>1, <3>1 DEF NewestInv, InFlight
    <3>2. CASE writer = NoHelper /\ pending \in Payloads
                /\ writePayload' = pending /\ pending' = NoPayload
      <4>1. \A h \in Helpers : ~InFlight(h)'
        BY <2>2, <3>2 DEF SoleInv, InFlight, WholeInv, Types
      <4> QED
        BY <2>1, <3>2, <4>1 DEF NewestInv
    <3> QED
      BY <2>2, <3>1, <3>2
  <2>7. Shown
    BY <2>1 DEF Shown, Register!vars
  <2> QED
    BY <1>1, <2>3, <2>4, <2>5, <2>6, <2>7
<1>3. CASE ReadSettings \/ ApplySettings
  <2>1. UNCHANGED <<queue, helper, disk, speaker, changes, restarts, asked, behind, failed>>
    BY <1>3 DEF ReadSettings, ApplySettings, unchangedByReader
  <2>2. SoleInv' /\ VersionInv' /\ SettledInv'
    BY <2>1 DEF SoleInv, VersionInv, SettledInv, InFlight
  <2>3. early => early'
    BY <1>3 DEF ReadSettings, ApplySettings
  <2>4. AppliedInv'
    BY <1>3, <2>1 DEF ReadSettings, ApplySettings, AppliedInv, ContentOf, Defaults
  <2>5. NewestInv'
    BY <2>1, <2>3 DEF NewestInv, InFlight
  <2>6. Shown
    BY <2>1 DEF Shown, Register!vars
  <2> QED
    BY <1>1, <2>2, <2>4, <2>5, <2>6
<1>4. CASE \/ WorkerStarts \/ WorkerTakesSpeed \/ WorkerReports \/ HandleWorkerLine \/ WorkerEnds
           \/ UNCHANGED vars
  <2>1. UNCHANGED <<choice, reading, readText, queue, helper, disk, history>>
    BY <1>4 DEF WorkerStarts, WorkerTakesSpeed, WorkerReports, HandleWorkerLine, WorkerEnds,
       unchangedByWorker
  <2>2. SoleInv' /\ VersionInv' /\ SettledInv'
    BY <2>1 DEF SoleInv, VersionInv, SettledInv, InFlight
  <2>3. AppliedInv' /\ NewestInv'
    BY <2>1 DEF AppliedInv, NewestInv, InFlight
  <2>4. Shown
    BY <2>1 DEF Shown, Register!vars
  <2> QED
    BY <1>1, <2>2, <2>3, <2>4
<1>5. CASE Restart
  <2>1. Anew(file) /\ HelpersEnd(Helpers) /\ failed' = (loose # {}) /\ UNCHANGED disk
    <3>1. PICK H \in SUBSET Helpers : HelpersEnd(H) /\ Helpers \ H = {}
      BY <1>5 DEF Restart
    <3>2. H = Helpers
      BY <3>1
    <3> QED
      BY <1>5, <3>1, <3>2 DEF Restart
  <2>2. SoleInv' /\ SettledInv'
    BY <2>1 DEF Anew, HelpersEnd, SoleInv, SettledInv
  <2>3. VersionInv'
    BY <2>1 DEF Anew, HelpersEnd, VersionInv, InFlight
  <2>4. AppliedInv' /\ NewestInv'
    BY <2>1 DEF Anew, HelpersEnd, AppliedInv, NewestInv, InFlight
  <2>5. Shown
    BY <2>1 DEF Anew, Shown, Register!vars
  <2> QED
    BY <1>1, <2>2, <2>3, <2>4, <2>5
<1>6. CASE PowerLoss
  <2>1. PICK found \in loose \union {durable} :
           /\ Anew(found) /\ HelpersEnd(Helpers)
           /\ file' = found /\ durable' = found /\ loose' = {} /\ failed' = FALSE
    BY <1>6 DEF PowerLoss
  <2>2. found \in Contents /\ found # Half /\ file # Half /\ file \in Contents /\ changes \in Nat
        /\ durable # Half /\ durable \in Contents
    BY DEF WholeInv, Types, FileIsWhole
  <2>3. /\ VersionOf(found) \in Nat /\ VersionOf(file) \in Nat /\ VersionOf(durable) \in Nat
        /\ VersionOf(durable) <= VersionOf(found) /\ VersionOf(found) <= VersionOf(file)
        /\ VersionOf(found) <= changes
    BY <2>2 DEF VersionInv
  <2>4. SoleInv' /\ SettledInv'
    BY <2>1 DEF Anew, HelpersEnd, SoleInv, SettledInv
  <2>5. VersionInv'
    BY <2>1, <2>3 DEF Anew, HelpersEnd, VersionInv, InFlight
  <2>6. AppliedInv' /\ NewestInv'
    BY <2>1 DEF Anew, HelpersEnd, AppliedInv, NewestInv, InFlight
  <2>7. Shown
    BY <2>1, <2>3 DEF Anew, Shown, Register!vars, Register!Next, Register!LosePower
  <2> QED
    BY <1>1, <2>4, <2>5, <2>6, <2>7
<1> QED
  BY <1>2, <1>3, <1>4, <1>5, <1>6

(* The invariant is kept, and every step is one of the register or none.   *)
LEMMA SavedStep ==
  ASSUME Orphans = FALSE
  PROVE  SavedInv /\ [Next]_vars => SavedInv' /\ [Register!Next]_(Register!vars)
BY SavedChange, SavedHelperStep, SavedOtherStep DEF Next, Shown

(* The invariant holds in every state of every behaviour. *)
LEMMA SavedSafe ==
  ASSUME Orphans = FALSE
  PROVE  Spec => []SavedInv
<1>1. SavedInv /\ [Next]_vars => SavedInv'
  BY SavedStep
<1> QED
  BY <1>1, SavedInit, PTL DEF Spec

(* Nobody finds half a file, and at rest the file has what the user has    *)
(* set, but for a failed write, a change before the settings of the last   *)
(* session were applied, and a speed that only a worker had reported       *)
(* (startSettingsWrite, write_settings, applySettings).                    *)
THEOREM FileSafe ==
  ASSUME Orphans = FALSE
  PROVE  Spec => []FileInv
<1>1. SavedInv => FileInv
  <2> SUFFICES ASSUME SavedInv PROVE FileInv
    OBVIOUS
  <2>1. TypeOK
    BY DEF SavedInv, WholeInv, Types, HandoverInv, SoleInv, TypeOK
  <2>2. SavedIsAsked
    BY PayloadFacts DEF SavedInv, WholeInv, HandoverInv, SoleInv, SettledInv, NewestInv,
       InFlight, SavedIsAsked, AtRest
  <2> QED
    BY <2>1, <2>2 DEF SavedInv, WholeInv, FileInv
<1> QED
  BY <1>1, SavedSafe, PTL

(* The settings are a register whose last write wins, through failures,    *)
(* restarts and losses of power (startSettingsWrite, write_settings).      *)
THEOREM RegisterImplemented ==
  ASSUME Orphans = FALSE
  PROVE  Spec => ImplementsRegister
<1>1. SavedInv /\ [Next]_vars => [Register!Next]_(Register!vars)
  BY SavedStep
<1> QED
  BY <1>1, SavedInit, SavedSafe, PTL DEF Spec, ImplementsRegister, Register!Spec
=============================================================================
