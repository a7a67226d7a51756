---------------------------- MODULE VoiceManager ----------------------------
(***************************************************************************)
(* The voices: bin/manage-voices, which installs the three files of a      *)
(* voice and keeps the name of the selected one, and its client in         *)
(* Service.qml, which lists, installs and then selects, cancels, replaces  *)
(* a warm worker, and keeps a read that is asked for during a list.        *)
(*                                                                         *)
(* One event of the shell and one step of the manager are one action.  The *)
(* manager's end is two signals, streamFinished and exited, in either      *)
(* order, and other events may come between them.  "running" holds from    *)
(* its assignment to the exited signal.                                    *)
(*                                                                         *)
(* Abstracted: the capture and the worker below a read, which is one       *)
(* status; the catalog, which is fixed; symbolic links and other refusals, *)
(* which are failures; notices; the backend, which every voice supports.   *)
(***************************************************************************)
EXTENDS Naturals, Sequences

CONSTANTS Voices, Default,  \* the catalog and its default
          FileStates,       \* what may be there of a voice when the shell starts
          Reads,            \* "selection", "ocr": what users ask for
          None

Kinds == <<"model", "config", "card">>
FileKinds == {"model", "config", "card"}
Conditions == {"absent", "whole", "other"}   \* other: not what the catalog says

ASSUME VoicesAssumption == Default \in Voices /\ None \notin Voices
ASSUME ReadsAssumption == Reads \subseteq {"selection", "ocr"} /\ None \notin Reads
ASSUME FilesAssumption == FileStates \subseteq [FileKinds -> Conditions]

VARIABLES
  setupReady,               \* the stamp and the files were found
  setupProbeCompleted, probing,   \* and setupProbe runs
  status, worker, leaving,  \* the voice of the worker; it is being replaced
  voiceName, voiceCatalog,  \* the selected voice; those listed as installed
  pendingVoiceSelection,
  kept, later,              \* pendingReadAfterVoiceList; reads by Qt.callLater
  client,                   \* the other voiceManager fields
  process, owed,            \* the manager; its signals on their way
  stamp,                    \* setup has completed
  files, selectedFile,      \* on the disk
  litter,                   \* a stage was left behind
  \* history (with own, below): a mutation was not seen to its end; the voice
  \* has changed under a worker that was not idle; a manager died, or was
  \* canceled while it removed its stage
  unsure, overtaken, excused

setup == <<setupReady, setupProbeCompleted, probing>>
speech == <<status, worker, leaving>>
voice == <<voiceName, voiceCatalog, overtaken>>
reads == <<kept, later>>
disk == <<stamp, files, selectedFile, litter, excused>>
vars == <<setup, speech, voice, pendingVoiceSelection, reads, client, process,
          owed, disk, unsure>>

Mutations == {"install", "select"}
Operations == Mutations \union {"list"}
NoListing == [selected |-> None, installed |-> {}]
Listings == [selected : Voices \union {None}, installed : SUBSET Voices]
NoProcess == [pc |-> "none", operation |-> None, voice |-> None, kind |-> 1,
              stage |-> "absent", listing |-> NoListing, asked |-> FALSE]
Idle == [operation |-> None, voice |-> None, busy |-> FALSE, cancelPending |-> FALSE,
         streamFinished |-> FALSE, exited |-> FALSE, handled |-> FALSE,
         output |-> NoListing, ok |-> FALSE, own |-> TRUE]

Present(v) == \A k \in FileKinds : files[v][k] # "absent"
Complete(v) == \A k \in FileKinds : files[v][k] = "whole"

(* verified_installed *)
Verified(v) == \A k \in FileKinds : files[v][k] = "whole"

(* selected_id: the name that is kept, if it is that of an installed       *)
(* voice, or else the default, if it is installed.                         *)
SelectedId ==
  IF selectedFile \in Voices /\ Verified(selectedFile) THEN selectedFile
  ELSE IF Verified(Default) THEN Default ELSE None

(* metadata *)
Metadata == [selected |-> SelectedId, installed |-> {v \in Voices : Verified(v)}]

Init ==
  /\ setupReady = FALSE /\ setupProbeCompleted = FALSE /\ probing = TRUE
  /\ status = "setup-required"
  /\ worker = None /\ leaving = FALSE
  /\ voiceName = Default /\ voiceCatalog = None /\ pendingVoiceSelection = None
  /\ kept = None /\ later = {}
  /\ client = Idle /\ process = NoProcess /\ owed = {}
  /\ stamp \in BOOLEAN
  /\ files \in [Voices -> FileStates] /\ selectedFile \in Voices \union {None}
  /\ litter = FALSE
  /\ unsure = FALSE /\ overtaken = FALSE /\ excused = FALSE

(***************************************************************************)
(* The manager.                                                            *)
(***************************************************************************)
At(pc, operation) == process.pc = pc /\ process.operation = operation
Goto(pc) == process' = [process EXCEPT !.pc = pc]
ByManager == UNCHANGED <<setup, speech, voice, pendingVoiceSelection, reads,
                         client, stamp, unsure>>
Elsewhere == ByManager /\ UNCHANGED <<owed, files, selectedFile, litter, excused>>

Kind == Kinds[process.kind]
HasStage == process.pc \in {"fill", "staged", "discard"}

List ==
  /\ At("load", "list")
  /\ process' = [process EXCEPT !.pc = "succeed", !.listing = Metadata]
  /\ Elsewhere

(* install: from the next file on, the first that is not as it should be.  *)
VerifyFile ==
  /\ At("load", "install")
  /\ IF process.kind > Len(Kinds) THEN Goto("succeed")
     ELSE IF files[process.voice][Kind] = "whole"
       THEN process' = [process EXCEPT !.kind = @ + 1]
       ELSE \/ Goto("fill")
            \/ Goto("fail")    \* the server is not reached
  /\ Elsewhere

(* select *)
VerifyVoice ==
  /\ At("load", "select")
  /\ Goto(IF Verified(process.voice) THEN "fill" ELSE "fail")
  /\ Elsewhere

(* download_one and atomic_write: the stage is filled, and is what the     *)
(* catalog says it is, or goes.                                            *)
Fill ==
  /\ process.pc = "fill"
  /\ \E stage \in {"whole", "other"} :
       process' = [process EXCEPT !.stage = stage,
                                  !.pc = IF stage = "whole" THEN "staged" ELSE "discard"]
  /\ Elsewhere

ReplaceFile ==
  /\ At("staged", "install")
  /\ files' = [files EXCEPT ![process.voice][Kind] = process.stage]
  /\ Goto("replaced")
  /\ ByManager /\ UNCHANGED <<owed, selectedFile, litter, excused>>

ReplaceName ==
  /\ At("staged", "select")
  /\ selectedFile' = process.voice
  /\ Goto("replaced")
  /\ ByManager /\ UNCHANGED <<owed, files, litter, excused>>

(* The name has its file; after the chmod the next one, or the end.        *)
Replaced ==
  /\ process.pc = "replaced"
  /\ process' = IF process.operation = "select" THEN [process EXCEPT !.pc = "succeed"]
                ELSE [process EXCEPT !.pc = "load", !.kind = @ + 1]
  /\ Elsewhere

DiskFails ==
  /\ process.pc \in {"fill", "staged", "replaced"}
  /\ Goto("discard")
  /\ Elsewhere

Discard == process.pc = "discard" /\ Goto("fail") /\ Elsewhere

(* The process is gone: its output and its exit are on their way.          *)
Gone(ok) ==
  /\ process' = NoProcess
  /\ owed' = owed \union
       {[signal |-> "streamFinished", output |-> process.listing, ok |-> ok, own |-> TRUE],
        [signal |-> "exited", output |-> NoListing, ok |-> ok, own |-> TRUE]}

Emit ==
  /\ process.pc \in {"succeed", "fail"}
  /\ Gone(process.pc = "succeed")
  /\ ByManager /\ UNCHANGED <<files, selectedFile, litter, excused>>

(* cancel_signal, which raises wherever the manager is: what is staged is  *)
(* removed, unless that is what it was about to do.                        *)
Interrupt ==
  /\ process.asked
  /\ \/ /\ process.pc \in {"load", "fill", "staged", "replaced", "discard"}
        /\ process' = [process EXCEPT !.asked = FALSE,
             !.pc = IF @ \in {"load", "discard"} THEN "fail" ELSE "discard"]
        /\ litter' = (litter \/ process.pc = "discard")
        /\ excused' = (excused \/ process.pc = "discard")
        /\ UNCHANGED owed
     \/ process.pc \in {"succeed", "fail"} /\ Gone(FALSE) /\ UNCHANGED <<litter, excused>>
  /\ ByManager /\ UNCHANGED <<files, selectedFile>>

(* The manager is killed.                                                  *)
Die ==
  /\ process.pc # "none"
  /\ Gone(FALSE)
  /\ litter' = (litter \/ HasStage) /\ excused' = TRUE
  /\ ByManager /\ UNCHANGED <<files, selectedFile>>

Manager ==
  \/ List \/ VerifyFile \/ VerifyVoice \/ Fill \/ ReplaceFile \/ ReplaceName \/ Replaced
  \/ DiskFails \/ Discard \/ Emit \/ Interrupt

(***************************************************************************)
(* The client.  m is its fields as the event has set them, o the signals   *)
(* that are left.                                                          *)
(***************************************************************************)
Running(o) == process.pc # "none" \/ \E s \in o : s.signal = "exited"
Mutating == client.operation \in Mutations /\ (client.busy \/ client.cancelPending)
Active == status \in {"reading", "stopping"} \/ Mutating
VoiceActionsBusy == client.busy \/ client.cancelPending \/ leaving

(* All who ask have seen that setup is ready.                              *)
CanBegin(m, o) == ~m.busy /\ ~m.cancelPending /\ ~Running(o)

(* beginVoiceManager                                                       *)
Begin(operation, v, o) ==
  /\ client' = [Idle EXCEPT !.operation = operation, !.voice = v, !.busy = TRUE]
  /\ process' = [NoProcess EXCEPT !.pc = "load", !.operation = operation, !.voice = v]
  /\ owed' = {[s EXCEPT !.own = FALSE] : s \in o}

Rest(m, o) == client' = m /\ owed' = o /\ UNCHANGED process

RequestVoiceList(m, o) ==
  IF CanBegin(m, o) THEN Begin("list", None, o) ELSE Rest(m, o)

(* releaseReadAfterVoiceList                                               *)
Release == kept' = None /\ later' = later \union ({kept} \ {None})

(* setVoicePaths, and the replacement of a worker that is idle.            *)
ChangeVoice(v) ==
  /\ voiceName' = v
  /\ IF v = voiceName \/ worker = None THEN UNCHANGED <<leaving, overtaken>>
     ELSE IF status = "idle" THEN leaving' = TRUE /\ UNCHANGED overtaken
     ELSE overtaken' = TRUE /\ UNCHANGED leaving

(* applyVoiceList                                                          *)
ApplyVoiceList(listing) ==
  /\ voiceCatalog' = listing.installed
  /\ ChangeVoice(IF listing.selected \in listing.installed THEN listing.selected ELSE Default)

Handled(m) == [m EXCEPT !.handled = TRUE, !.busy = FALSE, !.output = NoListing,
                        !.operation = None, !.voice = None]

(* Mutation: only a list that succeeds releases the read. *)
FailAndKeep(m, o) ==
  /\ ~m.ok
  /\ Rest(Handled(m), o)
  /\ IF m.operation \in Mutations THEN pendingVoiceSelection' = None /\ unsure' = TRUE
                                  ELSE UNCHANGED <<pendingVoiceSelection, unsure>>
  /\ UNCHANGED <<reads, leaving, voice>>

Fail(m, o) ==
  /\ ~m.ok
  /\ Rest(Handled(m), o)
  /\ IF m.operation \in Mutations
       THEN pendingVoiceSelection' = None /\ unsure' = TRUE /\ UNCHANGED reads
       ELSE Release /\ UNCHANGED <<pendingVoiceSelection, unsure>>
  /\ UNCHANGED <<leaving, voice>>

Listed(m, o) ==
  /\ m.ok /\ m.operation = "list"
  /\ ApplyVoiceList(m.output)
  /\ Rest(Handled(m), o)
  /\ Release
  /\ unsure' = FALSE
  /\ UNCHANGED pendingVoiceSelection

(* Mutation: the select is asked for before the install is marked as over. *)
InstalledStillBusy(m, o) ==
  /\ m.ok /\ m.operation = "install"
  /\ IF pendingVoiceSelection = m.voice /\ CanBegin(m, o)
       THEN Begin("select", m.voice, o) /\ UNCHANGED pendingVoiceSelection
       ELSE pendingVoiceSelection' = None /\ RequestVoiceList(Handled(m), o)
  /\ UNCHANGED <<reads, leaving, voice, unsure>>

Installed(m, o) ==
  /\ m.ok /\ m.operation = "install"
  /\ IF pendingVoiceSelection = m.voice /\ CanBegin(Handled(m), o)
       THEN Begin("select", m.voice, o) /\ UNCHANGED pendingVoiceSelection
       ELSE pendingVoiceSelection' = None /\ RequestVoiceList(Handled(m), o)
  /\ UNCHANGED <<reads, leaving, voice, unsure>>

(* Mutation: the list that follows is to tell which voice it is. *)
SelectedUnnamed(m, o) ==
  /\ m.ok /\ m.operation = "select"
  /\ pendingVoiceSelection' = None
  /\ RequestVoiceList(Handled(m), o)
  /\ UNCHANGED <<reads, leaving, voice, unsure>>

Selected(m, o) ==
  /\ m.ok /\ m.operation = "select"
  /\ ChangeVoice(m.voice)
  /\ pendingVoiceSelection' = None
  /\ RequestVoiceList(Handled(m), o)
  /\ UNCHANGED <<reads, voiceCatalog, unsure>>

(* finishCancelledVoiceManager                                             *)
FinishCanceled(m, o) ==
  /\ Rest([m EXCEPT !.cancelPending = FALSE, !.output = NoListing, !.operation = None,
                    !.voice = None, !.ok = FALSE], o)
  /\ pendingVoiceSelection' = IF m.operation \in Mutations THEN None ELSE pendingVoiceSelection
  /\ UNCHANGED <<reads, leaving, voice, unsure>>

(* finishVoiceManager, or its like for a canceled one, after a signal.     *)
Settle(m, o) ==
  IF ~(m.exited /\ m.streamFinished) \/ ~(m.cancelPending \/ (m.busy /\ ~m.handled))
    THEN Rest(m, o) /\ UNCHANGED <<pendingVoiceSelection, reads, leaving, voice, unsure>>
  ELSE IF m.cancelPending THEN FinishCanceled(m, o)
  ELSE Fail(m, o) \/ Listed(m, o) \/ Installed(m, o) \/ Selected(m, o)

Deliver ==
  \E s \in owed :
    /\ LET m == [client EXCEPT !.own = @ /\ s.own]
       IN  Settle(IF s.signal = "exited" THEN [m EXCEPT !.exited = TRUE, !.ok = s.ok]
                  ELSE [m EXCEPT !.streamFinished = TRUE, !.output = s.output],
                  owed \ {s})
    /\ UNCHANGED <<setup, status, worker, disk>>

InstallVoice ==
  \E v \in Voices :
    /\ setupReady /\ ~Active /\ ~VoiceActionsBusy /\ status = "idle" /\ CanBegin(client, owed)
    /\ pendingVoiceSelection' = v
    /\ Begin("install", v, owed)
    /\ UNCHANGED <<setup, speech, voice, reads, disk, unsure>>

SelectVoice ==
  \E v \in Voices :
    /\ setupReady /\ ~Active /\ ~VoiceActionsBusy /\ status = "idle" /\ CanBegin(client, owed)
    /\ voiceCatalog # None /\ v \in voiceCatalog
    /\ Begin("select", v, owed)
    /\ UNCHANGED <<setup, speech, voice, pendingVoiceSelection, reads, disk, unsure>>

(* cancelVoiceManager                                                      *)
Cancel ==
  IF client.busy
    THEN /\ client' = [client EXCEPT !.busy = FALSE, !.handled = TRUE, !.output = NoListing,
                                     !.cancelPending = ~(client.exited /\ client.streamFinished)]
         /\ process' = [process EXCEPT !.asked = process.pc # "none"]
         /\ pendingVoiceSelection' = None
         /\ unsure' = (unsure \/ client.operation \in Mutations)
    ELSE UNCHANGED <<client, process, pendingVoiceSelection, unsure>>

Stop ==
  /\ status # "stopping"
  /\ Cancel
  /\ kept' = None
  /\ status' = IF worker # None THEN "stopping" ELSE IF setupReady THEN "idle" ELSE "setup-required"
  /\ UNCHANGED <<setup, worker, leaving, voice, later, owed, disk>>

(***************************************************************************)
(* Reads, and the worker below them.                                       *)
(***************************************************************************)

(* queueReadUntilReady                                                     *)
MustWait == ~setupProbeCompleted \/ (client.busy /\ client.operation = "list")

(* The guards of readSelection and readOcr.                                *)
Refused(read) ==
  \/ ~setupReady \/ status = "stopping" \/ leaving
  \/ read = "selection" /\ (client.busy \/ client.cancelPending)
  \/ read = "ocr" /\ Active

Ask(read) ==
  IF MustWait THEN kept' = read /\ UNCHANGED status
  ELSE UNCHANGED kept /\ status' = IF Refused(read) THEN status ELSE "reading"

ByUser == UNCHANGED <<setup, worker, leaving, voice, pendingVoiceSelection, client, process, owed,
                      disk, unsure>>

Read == \E read \in Reads : Ask(read) /\ UNCHANGED later /\ ByUser
Repeat == \E read \in later : Ask(read) /\ later' = later \ {read} /\ ByUser

ByWorker == UNCHANGED <<setup, voiceName, voiceCatalog, pendingVoiceSelection, reads, client,
                        process, owed, disk, unsure>>

WorkerStarts ==
  /\ status = "reading" /\ worker = None
  /\ worker' = voiceName /\ overtaken' = FALSE
  /\ UNCHANGED <<status, leaving>> /\ ByWorker

ReadEnds ==
  /\ status = "reading" /\ status' \in {"idle", "error"}
  /\ UNCHANGED <<worker, leaving, overtaken>> /\ ByWorker

(* An announcement to a worker that is warm.                               *)
Announce ==
  /\ worker # None /\ ~leaving /\ status \in {"idle", "error"}
  /\ status' = "reading"
  /\ UNCHANGED <<worker, leaving, overtaken>> /\ ByWorker

StopAcknowledged ==
  /\ status = "stopping" /\ status' = "idle"
  /\ UNCHANGED <<worker, leaving, overtaken>> /\ ByWorker

Evict ==
  /\ worker # None /\ ~leaving /\ status \in {"idle", "error"}
  /\ leaving' = TRUE
  /\ UNCHANGED <<status, worker, overtaken>> /\ ByWorker

(* The worker is gone, as it was asked to, or not.                         *)
WorkerEnds ==
  /\ worker # None
  /\ worker' = None /\ leaving' = FALSE
  /\ status' = IF leaving \/ status = "stopping" THEN "idle"
               ELSE IF status = "reading" THEN "error" ELSE status
  /\ UNCHANGED overtaken /\ ByWorker

(***************************************************************************)
(* Startup.                                                                *)
(***************************************************************************)

(* setupProbe, and applySetupProbe.                                        *)
ProbeEnds ==
  /\ probing /\ probing' = FALSE
  /\ setupProbeCompleted' = TRUE
  /\ setupReady' = (stamp /\ Present(voiceName))
  /\ IF setupReady'
       THEN /\ status' = IF status = "setup-required" THEN "idle" ELSE status
            /\ RequestVoiceList(client, owed)
            /\ IF client'.busy /\ client'.operation = "list" THEN UNCHANGED reads ELSE Release
       ELSE /\ status' = "setup-required" /\ kept' = None
            /\ UNCHANGED <<later, client, process, owed>>
  /\ UNCHANGED <<worker, leaving, voice, pendingVoiceSelection, disk, unsure>>

(* setupWatchTimer                                                         *)
WatchSetup ==
  /\ ~setupReady /\ probing' = TRUE
  /\ UNCHANGED <<setupReady, setupProbeCompleted, speech, voice, pendingVoiceSelection, reads,
                 client, process, owed, disk, unsure>>

WatchCatalog ==
  /\ setupReady /\ voiceCatalog = None /\ UNCHANGED setup
  /\ CanBegin(client, owed) /\ RequestVoiceList(client, owed)
  /\ UNCHANGED <<speech, voice, pendingVoiceSelection, reads, disk, unsure>>

(* bin/setup installs the default voice, and selects it unless the state   *)
(* has an installed one.                                                   *)
Setup ==
  /\ ~setupReady /\ ~(stamp /\ Complete(Default))
  /\ stamp' = TRUE
  /\ files' = [files EXCEPT ![Default] = [k \in FileKinds |-> "whole"]]
  /\ selectedFile' = IF selectedFile \in Voices /\ Complete(selectedFile) THEN selectedFile
                     ELSE Default
  /\ UNCHANGED <<setup, speech, voice, pendingVoiceSelection, reads, client, process, owed,
                 litter, excused, unsure>>

Next ==
  \/ Manager \/ Die \/ Deliver
  \/ InstallVoice \/ SelectVoice \/ Stop \/ Read \/ Repeat
  \/ WorkerStarts \/ ReadEnds \/ Announce \/ StopAcknowledged \/ Evict \/ WorkerEnds
  \/ ProbeEnds \/ WatchSetup \/ WatchCatalog \/ Setup

Spec == Init /\ [][Next]_vars

(* The manager's transfers are bounded in size and time, its signals, those *)
(* of the probe and what was put off are delivered.  Nothing is assumed of *)
(* users, of the worker, or of what the manager achieves.                  *)
FairSpec ==
  Spec /\ WF_vars(Manager) /\ WF_vars(Deliver) /\ WF_vars(ProbeEnds) /\ WF_vars(Repeat)

(***************************************************************************)
(* Properties.                                                             *)
(***************************************************************************)

(* Every variable has its type; a selection waits only for an operation on *)
(* that voice; an operation that is over owes nothing.                     *)
TypeOK ==
  /\ {setupReady, setupProbeCompleted, probing, leaving, stamp, litter} \subseteq BOOLEAN
  /\ {unsure, overtaken, excused} \subseteq BOOLEAN
  /\ status \in {"setup-required", "idle", "reading", "stopping", "error"}
  /\ worker \in Voices \union {None} /\ voiceName \in Voices
  /\ voiceCatalog \in (SUBSET Voices) \union {None}
  /\ kept \in Reads \union {None} /\ later \subseteq Reads
  /\ client.operation \in Operations \union {None} /\ client.output \in Listings
  /\ files \in [Voices -> [FileKinds -> Conditions]]
  /\ selectedFile \in Voices \union {None}
  /\ pendingVoiceSelection # None =>
       client.busy /\ client.operation \in Mutations /\ client.voice = pendingVoiceSelection
  /\ ~client.busy /\ ~client.cancelPending => process = NoProcess /\ owed = {}

(* A file gets its name only as the catalog describes it: whatever comes   *)
(* over the network, and whenever the manager dies or is canceled.         *)
FilesComeWhole ==
  [][\A v \in Voices, k \in FileKinds :
       files'[v][k] # files[v][k] => files'[v][k] = "whole"]_vars

(* The voice whose name is kept was installed, with all its files.         *)
SelectedIsComplete ==
  [][selectedFile' # selectedFile => Complete(selectedFile)']_vars

(* A stage is removed, also by a manager that is canceled: unless it is    *)
(* killed, or canceled in the act.                                         *)
StagesAreRemoved == litter => excused

(* What the client waits for, or has, of its operation comes from the      *)
(* process of that operation, and not from one that was canceled.          *)
ResultIsOwn == client.busy => client.own

(* A voice that was downloaded in order to be selected is selected, unless *)
(* the user or the manager gives up.                                       *)
PendingIsSelected ==
  [][pendingVoiceSelection # None /\ pendingVoiceSelection' = None =>
       \/ voiceName' = pendingVoiceSelection
       \/ client'.cancelPending
       \/ client'.exited /\ ~client'.ok]_vars

AtRest == setupReady /\ ~client.busy /\ ~client.cancelPending /\ voiceCatalog # None

(* The service has the voice that the next shell will find selected, once  *)
(* a list has been seen, unless an install or a select since then was      *)
(* canceled or has failed: its work on the disk may be done all the same.  *)
SameVoiceAtRest ==
  AtRest /\ ~unsure => voiceName = (IF SelectedId = None THEN Default ELSE SelectedId)

(* A worker that waits for a read has the selected voice or is on its way  *)
(* out, unless the voice has changed while it was not idle.                *)
WarmWorkerHasVoice ==
  worker # None /\ status = "idle" /\ ~leaving /\ ~overtaken => worker = voiceName

(* Whatever died or was canceled, service and disk fit together.           *)
VoicesInv ==
  TypeOK /\ StagesAreRemoved /\ ResultIsOwn /\ SameVoiceAtRest /\ WarmWorkerHasVoice

(* No step of an operation leaves half of what it is for.                  *)
StepsAreWhole == FilesComeWhole /\ SelectedIsComplete /\ PendingIsSelected

(* Every operation comes to an end, also one that was canceled.            *)
OperationsEnd ==
  client.busy \/ client.cancelPending ~> ~client.busy /\ ~client.cancelPending

(* A read that was kept does not wait for ever, whatever becomes of the    *)
(* probe and of the list.                                                  *)
KeptReadIsReleased == kept # None ~> kept = None

(* Nothing that the user waits for takes for ever.                         *)
WaitsEnd == OperationsEnd /\ KeptReadIsReleased

(***************************************************************************)
(* What the documentation says and the code does not keep: counterexamples *)
(* are in README.md.                                                       *)
(***************************************************************************)

(* "The selected voice is persisted" (README.md:72): the service and the   *)
(* disk agree at rest, also after an operation was canceled.               *)
SameVoice ==
  AtRest => voiceName = (IF SelectedId = None THEN Default ELSE SelectedId)

(* "A voice can be changed only while OmaYap is idle" (README.md:73).      *)
VoiceChangesAtIdle == [][voiceName' # voiceName => status # "reading"]_vars
=============================================================================
