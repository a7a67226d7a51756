------------------------- MODULE VoiceManagerProofs -------------------------
(***************************************************************************)
(* Theorems about VoiceManager, for any catalog, any files that the shell  *)
(* may find there, and whatever the users, the network, the disk and the   *)
(* worker do.                                                              *)
(***************************************************************************)
EXTENDS VoiceManager, TLAPS

(***************************************************************************)
(* The disk: f is files, n is selectedFile.                                *)
(***************************************************************************)
IsWhole(f, v) == \A k \in FileKinds : f[v][k] = "whole"
SelectedIn(f, n) ==
  IF n \in Voices /\ IsWhole(f, n) THEN n
  ELSE IF IsWhole(f, Default) THEN Default ELSE None
ListingOf(f, n) == [selected |-> SelectedIn(f, n), installed |-> {v \in Voices : IsWhole(f, v)}]
ShownOf(f, n) == IF SelectedIn(f, n) = None THEN Default ELSE SelectedIn(f, n)

(* These are what the manager sees of the disk.                            *)
LEMMA Seen ==
  /\ \A v : Verified(v) <=> IsWhole(files, v)
  /\ SelectedId = SelectedIn(files, selectedFile)
  /\ Metadata = ListingOf(files, selectedFile)
<1>1. \A v : Verified(v) <=> IsWhole(files, v)
  BY DEF Verified, IsWhole
<1>2. SelectedId = SelectedIn(files, selectedFile)
  BY <1>1 DEF SelectedId, SelectedIn
<1> QED
  BY <1>1, <1>2 DEF Metadata, ListingOf

(* What is listed is of the catalog, and what the client makes of it is    *)
(* what the next shell will find.                                          *)
LEMMA ListingShows ==
  ASSUME NEW f, NEW n
  PROVE  LET l == ListingOf(f, n) IN
         /\ l \in Listings
         /\ (IF l.selected \in l.installed THEN l.selected ELSE Default) = ShownOf(f, n)
         /\ ShownOf(f, n) \in Voices
<1>1. SelectedIn(f, n) \in Voices \union {None}
  BY VoicesAssumption DEF SelectedIn
<1>2. {v \in Voices : IsWhole(f, v)} \in SUBSET Voices
  OBVIOUS
<1>3. SelectedIn(f, n) # None => SelectedIn(f, n) \in {v \in Voices : IsWhole(f, v)}
  BY VoicesAssumption DEF SelectedIn
<1> QED
  BY <1>1, <1>2, <1>3, VoicesAssumption DEF ListingOf, Listings, ShownOf

(* A voice that is selected and whole is the one that will be found.       *)
LEMMA SelectedShows ==
  ASSUME NEW f, NEW v \in Voices, IsWhole(f, v)
  PROVE  ShownOf(f, v) = v
BY VoicesAssumption DEF ShownOf, SelectedIn

(***************************************************************************)
(* The inductive invariant.                                                *)
(***************************************************************************)
PCs == {"load", "fill", "staged", "replaced", "discard", "succeed", "fail"}
Clients == [operation : Operations \union {None}, voice : Voices \union {None},
            busy : BOOLEAN, cancelPending : BOOLEAN, streamFinished : BOOLEAN,
            exited : BOOLEAN, handled : BOOLEAN, output : Listings, ok : BOOLEAN, own : BOOLEAN]
Processes == [pc : PCs \union {"none"}, operation : Operations \union {None},
              voice : Voices \union {None}, kind : 1..4, stage : Conditions,
              listing : Listings, asked : BOOLEAN]
OwedSignals == [signal : {"streamFinished", "exited"}, output : Listings, ok : BOOLEAN,
                own : BOOLEAN]

ServiceTypes ==
  /\ setupReady \in BOOLEAN /\ setupProbeCompleted \in BOOLEAN /\ probing \in BOOLEAN
  /\ status \in {"setup-required", "idle", "reading", "stopping", "error"}
  /\ worker \in Voices \union {None} /\ leaving \in BOOLEAN /\ overtaken \in BOOLEAN
  /\ voiceName \in Voices /\ voiceCatalog \in (SUBSET Voices) \union {None}
  /\ kept \in Reads \union {None} /\ later \subseteq Reads
  /\ unsure \in BOOLEAN

DiskTypes ==
  /\ stamp \in BOOLEAN /\ litter \in BOOLEAN /\ excused \in BOOLEAN
  /\ files \in [Voices -> [FileKinds -> Conditions]]
  /\ selectedFile \in Voices \union {None}

ClientTypes ==
  /\ pendingVoiceSelection \in Voices \union {None}
  /\ client \in Clients /\ process \in Processes /\ owed \subseteq OwedSignals

(* An operation is under way, or canceled and not yet at its end.          *)
IsOpen(c) == c.busy \/ c.cancelPending

(* An operation has at any moment either its process or the signals of     *)
(* that process, each once: what has come is not owed, and what has come   *)
(* and is owed ends with the operation.                                    *)
OperationInv ==
  /\ client.own
  /\ client.busy => ~client.handled /\ ~client.cancelPending
  /\ IsOpen(client) => /\ setupReady /\ ~(client.exited /\ client.streamFinished)
                       /\ client.operation \in Operations
                       /\ client.operation \in Mutations => client.voice \in Voices
  /\ ~IsOpen(client) => process = NoProcess /\ owed = {}
  /\ process.pc = "none" => process = NoProcess
  /\ process.pc # "none" => /\ owed = {} /\ ~client.exited /\ ~client.streamFinished
                            /\ process.operation = client.operation
                            /\ process.voice = client.voice

SignalInv ==
  /\ \A s \in owed : /\ s.own
                     /\ s.signal = "exited" => ~client.exited
                     /\ s.signal = "streamFinished" => ~client.streamFinished
  /\ \A s, t \in owed : s.signal = t.signal => s = t

(* What is staged is what the catalog says; a voice is selected that is    *)
(* whole; what is listed is on the disk.                                   *)
ManagerInv ==
  process.pc # "none" =>
    /\ process.operation = "list" => process.pc \in {"load", "succeed", "fail"}
    /\ process.operation = "install" /\ process.pc \in {"fill", "staged", "replaced"} =>
         process.kind \in 1..3
    /\ process.pc = "staged" => process.stage = "whole"
    /\ process.operation = "select" /\ process.pc \in {"fill", "staged", "replaced", "succeed"} =>
         IsWhole(files, process.voice)
    /\ process.operation = "select" /\ process.pc \in {"replaced", "succeed"} =>
         selectedFile = process.voice
    /\ process.operation = "list" /\ process.pc = "succeed" =>
         process.listing = ListingOf(files, selectedFile)

(* An operation whose exit is that of a success has done on the disk what  *)
(* the client takes it for.                                                *)
Succeeds == \/ client.exited /\ client.ok
            \/ \E t \in owed : t.signal = "exited" /\ t.ok
ResultInv ==
  client.busy /\ Succeeds =>
    /\ client.operation = "list" =>
         /\ client.streamFinished => client.output = ListingOf(files, selectedFile)
         /\ \A s \in owed : s.signal = "streamFinished" =>
                              s.output = ListingOf(files, selectedFile)
    /\ client.operation = "select" =>
         selectedFile = client.voice /\ IsWhole(files, client.voice)

(* A selection waits for the install that it asked for, and for the select *)
(* that follows.                                                           *)
PendingInv ==
  /\ pendingVoiceSelection # None =>
       /\ client.busy /\ client.operation \in Mutations
       /\ client.voice = pendingVoiceSelection
  /\ client.busy /\ client.operation = "install" => pendingVoiceSelection = client.voice

(* From the first list on the service has the voice that the disk has, but *)
(* for a mutation under way or one whose end was not seen.                 *)
SyncInv ==
  /\ probing => ~setupReady
  /\ ~setupReady => voiceCatalog = None
  /\ client.cancelPending /\ client.operation \in Mutations => unsure
  /\ setupReady /\ voiceCatalog # None /\ ~unsure /\ ~Mutating =>
       voiceName = ShownOf(files, selectedFile)

(* A worker that stays has the selected voice, whatever its status.        *)
WarmInv == worker # None /\ ~leaving /\ ~overtaken => worker = voiceName

OperationsInv ==
  /\ ClientTypes /\ OperationInv /\ SignalInv /\ ManagerInv /\ ResultInv /\ PendingInv

VoiceManagerInv ==
  ServiceTypes /\ DiskTypes /\ OperationsInv /\ SyncInv /\ WarmInv /\ StagesAreRemoved

(***************************************************************************)
(* Steps of the users and the worker: the operation goes on as it was.     *)
(***************************************************************************)
LEMMA OperationKept ==
  ASSUME OperationsInv, UNCHANGED <<setupReady, client, process, owed, pendingVoiceSelection,
                                    files, selectedFile>>
  PROVE  OperationsInv'
BY DEF OperationsInv, ClientTypes, OperationInv, SignalInv, ManagerInv, ResultInv, Succeeds,
       PendingInv, IsOpen, Clients, Processes, OwedSignals, Listings, PCs, Operations,
       Mutations, NoProcess, NoListing, Conditions

LEMMA BesideKeeps ==
  ASSUME VoiceManagerInv,
         \/ Read \/ Repeat
         \/ WorkerStarts \/ ReadEnds \/ Announce \/ StopAcknowledged \/ Evict \/ WorkerEnds
         \/ WatchSetup \/ Setup
  PROVE  VoiceManagerInv'
<1> USE DEF VoiceManagerInv, setup, speech, voice, reads, disk
<1>1. CASE Read \/ Repeat
  <2>1. /\ ByUser /\ later' \subseteq later
        /\ \E read \in Reads : Ask(read)
    BY <1>1 DEF Read, Repeat, ServiceTypes
  <2>2. /\ kept' \in Reads \union {None}
        /\ status' \in {"setup-required", "idle", "reading", "stopping", "error"}
    BY <2>1 DEF Ask, ServiceTypes
  <2>3. /\ UNCHANGED <<setupReady, client, process, owed, pendingVoiceSelection, files,
                       selectedFile>>
        /\ UNCHANGED <<setupProbeCompleted, probing, worker, leaving, overtaken, voiceName,
                       voiceCatalog, stamp, litter, excused, unsure>>
    BY <2>1 DEF ByUser
  <2>4. ServiceTypes' /\ DiskTypes'
    BY <2>1, <2>2, <2>3 DEF ServiceTypes, DiskTypes, Conditions
  <2>5. SyncInv' /\ WarmInv' /\ StagesAreRemoved'
    BY <2>3 DEF SyncInv, WarmInv, StagesAreRemoved, Mutating, ShownOf, SelectedIn, IsWhole
  <2> QED BY <2>3, <2>4, <2>5, OperationKept
<1>2. CASE WorkerStarts \/ ReadEnds \/ Announce \/ StopAcknowledged \/ Evict \/ WorkerEnds
  <2>1. ByWorker
    BY <1>2 DEF WorkerStarts, ReadEnds, Announce, StopAcknowledged, Evict, WorkerEnds
  <2>2. /\ UNCHANGED <<setupReady, client, process, owed, pendingVoiceSelection, files,
                       selectedFile>>
        /\ UNCHANGED <<setupProbeCompleted, probing, voiceName, voiceCatalog, kept, later,
                       stamp, litter, excused, unsure>>
    BY <2>1 DEF ByWorker
  <2>3. /\ status' \in {"setup-required", "idle", "reading", "stopping", "error"}
        /\ worker' \in Voices \union {None} /\ leaving' \in BOOLEAN /\ overtaken' \in BOOLEAN
    BY <1>2 DEF WorkerStarts, ReadEnds, Announce, StopAcknowledged, Evict, WorkerEnds,
       ServiceTypes
  <2>4. ServiceTypes' /\ DiskTypes'
    BY <2>2, <2>3 DEF ServiceTypes, DiskTypes, Conditions
  <2>5. WarmInv'
    BY <1>2, <2>2 DEF WarmInv, WorkerStarts, ReadEnds, Announce, StopAcknowledged, Evict,
       WorkerEnds
  <2>6. SyncInv' /\ StagesAreRemoved'
    BY <2>2 DEF SyncInv, StagesAreRemoved, Mutating, ShownOf, SelectedIn, IsWhole
  <2> QED BY <2>2, <2>4, <2>5, <2>6, OperationKept
<1>3. CASE WatchSetup
  <2>1. /\ UNCHANGED <<setupReady, client, process, owed, pendingVoiceSelection, files,
                       selectedFile>>
        /\ UNCHANGED <<setupProbeCompleted, status, worker, leaving, overtaken, voiceName,
                       voiceCatalog, kept, later, stamp, litter, excused, unsure>>
        /\ ~setupReady /\ probing' = TRUE
    BY <1>3 DEF WatchSetup
  <2>2. ServiceTypes' /\ DiskTypes'
    BY <2>1 DEF ServiceTypes, DiskTypes, Conditions
  <2>3. SyncInv' /\ WarmInv' /\ StagesAreRemoved'
    BY <2>1 DEF SyncInv, WarmInv, StagesAreRemoved, Mutating, ShownOf, SelectedIn, IsWhole
  <2> QED BY <2>1, <2>2, <2>3, OperationKept
<1>4. CASE Setup
  <2>1. /\ UNCHANGED <<setupReady, client, process, owed, pendingVoiceSelection>>
        /\ UNCHANGED <<setupProbeCompleted, probing, status, worker, leaving, overtaken,
                       voiceName, voiceCatalog, kept, later, litter, excused, unsure>>
        /\ ~setupReady /\ stamp' = TRUE
        /\ files' = [files EXCEPT ![Default] = [k \in FileKinds |-> "whole"]]
        /\ selectedFile' \in Voices \union {None}
    BY <1>4, VoicesAssumption DEF Setup, DiskTypes
  <2>2. ServiceTypes'
    BY <2>1 DEF ServiceTypes
  <2>3. DiskTypes'
    <3>1. [k \in FileKinds |-> "whole"] \in [FileKinds -> Conditions]
      BY DEF Conditions
    <3>2. files' \in [Voices -> [FileKinds -> Conditions]]
      BY <2>1, <3>1 DEF DiskTypes
    <3> QED BY <2>1, <3>2 DEF DiskTypes, Conditions
  <2>4. ~IsOpen(client) /\ process.pc = "none"
    BY <2>1 DEF OperationsInv, OperationInv, NoProcess
  <2>5. OperationsInv'
    BY <2>1, <2>4
    DEF OperationsInv, ClientTypes, OperationInv, SignalInv, ManagerInv, ResultInv, Succeeds,
       PendingInv, IsOpen, Clients, Processes, OwedSignals, Listings, PCs, Operations,
       Mutations, NoProcess, NoListing, Conditions
  <2>6. SyncInv' /\ WarmInv' /\ StagesAreRemoved'
    BY <2>1 DEF SyncInv, WarmInv, StagesAreRemoved, Mutating
  <2> QED BY <2>2, <2>3, <2>5, <2>6
<1> QED BY <1>1, <1>2, <1>3, <1>4

(***************************************************************************)
(* Steps of the manager.                                                   *)
(***************************************************************************)

(* A step within an operation: nothing of the client's, and the disk only  *)
(* by a mutation.                                                          *)
LEMMA ManagerMoves ==
  ASSUME VoiceManagerInv, ByManager, process.pc # "none",
         process' \in Processes, process'.pc # "none",
         process'.operation = process.operation, process'.voice = process.voice,
         owed' = owed, ManagerInv', DiskTypes', StagesAreRemoved',
         UNCHANGED <<files, selectedFile>> \/ process.operation \in Mutations
  PROVE  VoiceManagerInv'
<1> USE DEF VoiceManagerInv, OperationsInv
<1>1. UNCHANGED <<setupReady, setupProbeCompleted, probing, status, worker, leaving, voiceName,
                  voiceCatalog, overtaken, pendingVoiceSelection, kept, later, client, stamp,
                  unsure>>
  BY DEF ByManager, setup, speech, voice, reads
<1>2. ServiceTypes' /\ WarmInv'
  BY <1>1 DEF ServiceTypes, WarmInv
<1>3. ClientTypes'
  BY <1>1 DEF ClientTypes, Clients, Processes, OwedSignals, Listings, PCs, Operations,
     Mutations, Conditions
<1>4. IsOpen(client) /\ process.operation = client.operation /\ owed = {} /\ ~client.exited
  BY DEF OperationInv, NoProcess
<1>5. OperationInv'
  BY <1>1, <1>4 DEF OperationInv, IsOpen, Operations, Mutations, NoProcess, NoListing
<1>6. SignalInv' /\ ResultInv' /\ PendingInv'
  BY <1>1, <1>4 DEF SignalInv, ResultInv, Succeeds, PendingInv, Mutations
<1>7. SyncInv'
  BY <1>1, <1>4 DEF SyncInv, Mutating, IsOpen, ShownOf, SelectedIn, IsWhole, Mutations
<1> QED BY <1>2, <1>3, <1>5, <1>6, <1>7

(* The manager is gone; a success is that of a manager that had succeeded. *)
LEMMA ManagerGoes ==
  ASSUME VoiceManagerInv, ByManager, process.pc # "none",
         NEW ok \in BOOLEAN, ok => process.pc = "succeed",
         Gone(ok), UNCHANGED <<files, selectedFile>>, DiskTypes', StagesAreRemoved'
  PROVE  VoiceManagerInv'
<1> USE DEF VoiceManagerInv, OperationsInv
<1> DEFINE stream == [signal |-> "streamFinished", output |-> process.listing, ok |-> ok,
                      own |-> TRUE]
           exit == [signal |-> "exited", output |-> NoListing, ok |-> ok, own |-> TRUE]
<1>1. UNCHANGED <<setupReady, setupProbeCompleted, probing, status, worker, leaving, voiceName,
                  voiceCatalog, overtaken, pendingVoiceSelection, kept, later, client, stamp,
                  unsure>>
  BY DEF ByManager, setup, speech, voice, reads
<1>2. /\ IsOpen(client) /\ owed = {} /\ ~client.exited /\ ~client.streamFinished
      /\ process.operation = client.operation /\ process.voice = client.voice
  BY DEF OperationInv, NoProcess
<1>3. process' = NoProcess /\ owed' = {stream, exit}
  BY <1>2 DEF Gone
<1>4. ServiceTypes' /\ WarmInv' /\ PendingInv'
  BY <1>1 DEF ServiceTypes, WarmInv, PendingInv, Mutations
<1>5. SyncInv'
  BY <1>1 DEF SyncInv, Mutating, ShownOf, SelectedIn, IsWhole, Mutations
<1>6. /\ stream.signal = "streamFinished" /\ stream.output = process.listing
      /\ stream.ok = ok /\ stream.own
      /\ exit.signal = "exited" /\ exit.ok = ok /\ exit.own
  OBVIOUS
<1>7. stream \in OwedSignals /\ exit \in OwedSignals /\ NoListing \in Listings
  <2>1. NoListing \in Listings
    BY DEF NoListing, Listings
  <2>2. process.listing \in Listings
    BY DEF ClientTypes, Processes
  <2> QED BY <2>1, <2>2 DEF OwedSignals
<1>8. NoProcess \in Processes
  BY <1>7 DEF NoProcess, Processes, Conditions
<1> HIDE DEF stream, exit
<1>9. ClientTypes'
  BY <1>1, <1>3, <1>7, <1>8 DEF ClientTypes, Clients, Processes, OwedSignals, Listings, PCs,
     Operations, Mutations, Conditions
<1>10. OperationInv' /\ ManagerInv'
  BY <1>1, <1>2, <1>3 DEF OperationInv, ManagerInv, IsOpen, Operations, Mutations, NoProcess,
     NoListing
<1>11. SignalInv'
  BY <1>1, <1>2, <1>3, <1>6 DEF SignalInv
<1>12. ResultInv'
  <2>1. Succeeds' => ok
    BY <1>1, <1>2, <1>3, <1>6 DEF Succeeds
  <2>2. CASE ok
    <3>1. /\ client.operation = "list" => stream.output = ListingOf(files, selectedFile)
          /\ client.operation = "select" =>
               selectedFile = client.voice /\ IsWhole(files, client.voice)
      BY <2>2, <1>2, <1>6 DEF ManagerInv
    <3>2. \A s \in owed' : s.signal = "streamFinished" => s = stream
      BY <1>3, <1>6
    <3> QED BY <1>1, <1>2, <3>1, <3>2 DEF ResultInv, ListingOf, SelectedIn, IsWhole
  <2> QED BY <2>1, <2>2 DEF ResultInv
<1> QED BY <1>4, <1>5, <1>9, <1>10, <1>11, <1>12

LEMMA ManagerKeeps ==
  ASSUME VoiceManagerInv, Manager \/ Die
  PROVE  VoiceManagerInv'
<1> USE DEF VoiceManagerInv, OperationsInv
<1>1. process \in Processes /\ DiskTypes /\ StagesAreRemoved /\ ManagerInv
  BY DEF ClientTypes
<1>2. ASSUME UNCHANGED <<stamp, files, selectedFile, litter, excused>>
      PROVE  DiskTypes' /\ StagesAreRemoved'
  BY <1>1, <1>2 DEF DiskTypes, StagesAreRemoved, Conditions
<1>3. ASSUME process.pc # "none"
      PROVE  process.operation \in Operations
  BY <1>3 DEF OperationInv, IsOpen, NoProcess
<1>4. CASE List
  <2>1. /\ process.pc = "load" /\ process.operation = "list"
        /\ process' = [process EXCEPT !.pc = "succeed", !.listing = Metadata]
        /\ ByManager /\ UNCHANGED <<owed, stamp, files, selectedFile, litter, excused>>
    BY <1>4 DEF List, At, Elsewhere, ByManager
  <2>2. /\ process' \in Processes /\ process'.pc = "succeed" /\ process'.operation = "list"
        /\ process'.voice = process.voice /\ process'.listing = ListingOf(files, selectedFile)
    <3>1. Metadata \in Listings /\ Metadata = ListingOf(files, selectedFile)
      BY Seen, ListingShows
    <3> QED BY <1>1, <2>1, <3>1 DEF Processes, PCs
  <2>3. ManagerInv'
    BY <2>1, <2>2 DEF ManagerInv, ListingOf, SelectedIn, IsWhole
  <2> QED BY <1>2, <2>1, <2>2, <2>3, ManagerMoves
<1>5. CASE VerifyFile
  <2>1. /\ process.pc = "load" /\ process.operation = "install"
        /\ ByManager /\ UNCHANGED <<owed, stamp, files, selectedFile, litter, excused>>
    BY <1>5 DEF VerifyFile, At, Elsewhere, ByManager
  <2>2. process.kind \in 1..4 /\ Len(Kinds) = 3
    BY <1>1 DEF Processes, Kinds
  <2>3. \/ process' = [process EXCEPT !.pc = "succeed"]
        \/ process.kind <= 3 /\ process' = [process EXCEPT !.kind = process.kind + 1]
        \/ process.kind <= 3 /\ process' = [process EXCEPT !.pc = "fill"]
        \/ process' = [process EXCEPT !.pc = "fail"]
    BY <1>5, <2>2 DEF VerifyFile, Goto
  <2>4. /\ process' \in Processes /\ process'.pc # "none" /\ process'.operation = "install"
        /\ process'.voice = process.voice
        /\ process'.pc \in {"load", "fill", "succeed", "fail"}
        /\ process'.pc = "fill" => process'.kind \in 1..3
    BY <1>1, <2>1, <2>2, <2>3 DEF Processes, PCs
  <2>5. ManagerInv'
    BY <2>4 DEF ManagerInv
  <2> QED BY <1>2, <2>1, <2>4, <2>5, ManagerMoves
<1>6. CASE VerifyVoice
  <2>1. /\ process.pc = "load" /\ process.operation = "select"
        /\ process' = [process EXCEPT !.pc = IF Verified(process.voice) THEN "fill" ELSE "fail"]
        /\ ByManager /\ UNCHANGED <<owed, stamp, files, selectedFile, litter, excused>>
    BY <1>6 DEF VerifyVoice, At, Goto, Elsewhere, ByManager
  <2>2. /\ process' \in Processes /\ process'.operation = "select"
        /\ process'.voice = process.voice /\ process'.pc \in {"fill", "fail"}
        /\ process'.pc = "fill" => IsWhole(files, process.voice)
    BY <1>1, <2>1, Seen DEF Processes, PCs
  <2>3. ManagerInv'
    BY <2>1, <2>2 DEF ManagerInv, IsWhole
  <2> QED BY <1>2, <2>1, <2>2, <2>3, ManagerMoves
<1>7. CASE Fill
  <2>1. /\ process.pc = "fill"
        /\ ByManager /\ UNCHANGED <<owed, stamp, files, selectedFile, litter, excused>>
    BY <1>7 DEF Fill, Elsewhere, ByManager
  <2>2. PICK stage \in {"whole", "other"} :
          process' = [process EXCEPT !.stage = stage,
                                     !.pc = IF stage = "whole" THEN "staged" ELSE "discard"]
    BY <1>7 DEF Fill
  <2>3. /\ process' \in Processes /\ process'.operation = process.operation
        /\ process'.voice = process.voice /\ process'.kind = process.kind
        /\ process'.pc \in {"staged", "discard"}
        /\ process'.pc = "staged" => process'.stage = "whole"
    BY <1>1, <2>2 DEF Processes, PCs, Conditions
  <2>4. ManagerInv'
    BY <1>1, <2>1, <2>3 DEF ManagerInv, IsWhole
  <2> QED BY <1>2, <2>1, <2>3, <2>4, ManagerMoves
<1>8. CASE ReplaceFile
  <2>1. /\ process.pc = "staged" /\ process.operation = "install"
        /\ files' = [files EXCEPT ![process.voice][Kind] = process.stage]
        /\ process' = [process EXCEPT !.pc = "replaced"]
        /\ ByManager /\ UNCHANGED <<owed, stamp, selectedFile, litter, excused>>
    BY <1>8 DEF ReplaceFile, At, Goto, ByManager
  <2>2. /\ process' \in Processes /\ process'.operation = "install" /\ process'.pc = "replaced"
        /\ process'.voice = process.voice /\ process'.kind = process.kind
    BY <1>1, <2>1 DEF Processes, PCs
  <2>3. ManagerInv'
    BY <1>1, <2>1, <2>2 DEF ManagerInv
  <2>4. DiskTypes' /\ StagesAreRemoved'
    <3>1. files' \in [Voices -> [FileKinds -> Conditions]]
      BY <1>1, <2>1 DEF DiskTypes, Processes
    <3> QED BY <1>1, <2>1, <3>1 DEF DiskTypes, StagesAreRemoved, Conditions
  <2> QED BY <2>1, <2>2, <2>3, <2>4, ManagerMoves DEF Mutations
<1>9. CASE ReplaceName
  <2>1. /\ process.pc = "staged" /\ process.operation = "select"
        /\ selectedFile' = process.voice
        /\ process' = [process EXCEPT !.pc = "replaced"]
        /\ ByManager /\ UNCHANGED <<owed, stamp, files, litter, excused>>
    BY <1>9 DEF ReplaceName, At, Goto, ByManager
  <2>2. /\ process' \in Processes /\ process'.operation = "select" /\ process'.pc = "replaced"
        /\ process'.voice = process.voice
    BY <1>1, <2>1 DEF Processes, PCs
  <2>3. ManagerInv'
    BY <1>1, <2>1, <2>2 DEF ManagerInv, IsWhole
  <2>4. DiskTypes' /\ StagesAreRemoved'
    BY <1>1, <2>1 DEF DiskTypes, StagesAreRemoved, Conditions, Processes
  <2> QED BY <2>1, <2>2, <2>3, <2>4, ManagerMoves DEF Mutations
<1>10. CASE Replaced
  <2>1. /\ process.pc = "replaced"
        /\ ByManager /\ UNCHANGED <<owed, stamp, files, selectedFile, litter, excused>>
    BY <1>10 DEF Replaced, Elsewhere, ByManager
  <2>2. \/ process.operation = "select" /\ process' = [process EXCEPT !.pc = "succeed"]
        \/ /\ process.operation # "select"
           /\ process' = [process EXCEPT !.pc = "load", !.kind = process.kind + 1]
    BY <1>10 DEF Replaced
  <2>3. process.operation # "select" => process.operation = "install" /\ process.kind \in 1..3
    BY <1>1, <1>3, <2>1 DEF ManagerInv, Operations, Mutations
  <2>4. /\ process' \in Processes /\ process'.operation = process.operation
        /\ process'.voice = process.voice
        /\ process'.pc \in {"load", "succeed"}
        /\ process'.pc = "succeed" => process.operation = "select"
    <3>1. CASE process.operation = "select" /\ process' = [process EXCEPT !.pc = "succeed"]
      BY <1>1, <3>1 DEF Processes, PCs
    <3>2. CASE /\ process.operation # "select"
               /\ process' = [process EXCEPT !.pc = "load", !.kind = process.kind + 1]
      <4>1. process.kind + 1 \in 1..4
        BY <2>3, <3>2
      <4> QED BY <1>1, <3>2, <4>1 DEF Processes, PCs
    <3> QED BY <2>2, <3>1, <3>2
  <2>5. ManagerInv'
    BY <1>1, <2>1, <2>4 DEF ManagerInv, IsWhole
  <2> QED BY <1>2, <2>1, <2>4, <2>5, ManagerMoves
<1>11. CASE DiskFails \/ Discard
  <2>1. /\ process.pc \in {"fill", "staged", "replaced", "discard"}
        /\ \E pc \in {"discard", "fail"} :
             /\ process.pc # "discard" \/ pc = "fail"
             /\ pc = "discard" => process.pc # "discard"
             /\ process' = [process EXCEPT !.pc = pc]
        /\ ByManager /\ UNCHANGED <<owed, stamp, files, selectedFile, litter, excused>>
    BY <1>11 DEF DiskFails, Discard, Goto, Elsewhere, ByManager
  <2>2. /\ process' \in Processes /\ process'.operation = process.operation
        /\ process'.voice = process.voice /\ process'.pc \in {"discard", "fail"}
        /\ process.operation = "list" => process'.pc = "fail"
    BY <1>1, <2>1 DEF Processes, PCs, ManagerInv
  <2>3. ManagerInv'
    BY <2>2 DEF ManagerInv
  <2> QED BY <1>2, <2>1, <2>2, <2>3, ManagerMoves
<1>12. CASE Emit
  <2>1. /\ process.pc \in {"succeed", "fail"} /\ Gone(process.pc = "succeed")
        /\ ByManager /\ UNCHANGED <<stamp, files, selectedFile, litter, excused>>
    BY <1>12 DEF Emit, ByManager
  <2>2. (process.pc = "succeed") \in BOOLEAN
    OBVIOUS
  <2> QED BY <1>2, <2>1, <2>2, ManagerGoes
<1>13. CASE Interrupt
  <2>1. CASE /\ process.pc \in {"load", "fill", "staged", "replaced", "discard"}
             /\ process' = [process EXCEPT !.asked = FALSE,
                  !.pc = IF @ \in {"load", "discard"} THEN "fail" ELSE "discard"]
             /\ litter' = (litter \/ process.pc = "discard")
             /\ excused' = (excused \/ process.pc = "discard")
             /\ UNCHANGED owed
    <3>1. ByManager /\ UNCHANGED <<stamp, files, selectedFile>>
      BY <1>13 DEF Interrupt, ByManager
    <3>2. /\ process' \in Processes /\ process'.operation = process.operation
          /\ process'.voice = process.voice /\ process'.pc \in {"discard", "fail"}
          /\ process.operation = "list" => process'.pc = "fail"
      BY <1>1, <2>1 DEF Processes, PCs, ManagerInv
    <3>3. ManagerInv'
      BY <3>2 DEF ManagerInv
    <3>4. DiskTypes' /\ StagesAreRemoved'
      BY <1>1, <2>1, <3>1 DEF DiskTypes, StagesAreRemoved, Conditions
    <3> QED BY <2>1, <3>1, <3>2, <3>3, <3>4, ManagerMoves
  <2>2. CASE process.pc \in {"succeed", "fail"} /\ Gone(FALSE) /\ UNCHANGED <<litter, excused>>
    <3>1. ByManager /\ UNCHANGED <<stamp, files, selectedFile>>
      BY <1>13 DEF Interrupt, ByManager
    <3> QED BY <1>2, <2>2, <3>1, ManagerGoes
  <2> QED BY <1>13, <2>1, <2>2 DEF Interrupt
<1>14. CASE Die
  <2>1. /\ process.pc # "none" /\ Gone(FALSE) /\ ByManager
        /\ litter' = (litter \/ HasStage) /\ excused' = TRUE
        /\ UNCHANGED <<stamp, files, selectedFile>>
    BY <1>14 DEF Die, ByManager
  <2>2. DiskTypes' /\ StagesAreRemoved'
    <3>1. litter' \in BOOLEAN
      BY <1>1, <2>1 DEF DiskTypes, HasStage
    <3>2. excused' \in BOOLEAN /\ excused'
      BY <2>1
    <3> QED BY <1>1, <2>1, <3>1, <3>2 DEF DiskTypes, StagesAreRemoved, Conditions
  <2> QED BY <2>1, <2>2, ManagerGoes
<1> QED BY <1>4, <1>5, <1>6, <1>7, <1>8, <1>9, <1>10, <1>11, <1>12, <1>13, <1>14 DEF Manager

(***************************************************************************)
(* Steps of the client.                                                    *)
(***************************************************************************)

(* A selection that is no longer waited for was made, was canceled, or its *)
(* operation has failed.                                                   *)
PendingEnds ==
  pendingVoiceSelection # None /\ pendingVoiceSelection' = None =>
    \/ voiceName' = pendingVoiceSelection
    \/ client'.cancelPending
    \/ client'.exited /\ ~client'.ok

(* An operation begins.                                                    *)
LEMMA Begun ==
  ASSUME NEW op \in Operations, NEW v \in Voices \union {None}, op \in Mutations => v \in Voices,
         Begin(op, v, {}), setupReady' = TRUE,
         pendingVoiceSelection' \in Voices \union {None},
         pendingVoiceSelection' # None => op \in Mutations /\ v = pendingVoiceSelection',
         op = "install" => pendingVoiceSelection' = v
  PROVE  OperationsInv'
<1>1. /\ client' = [Idle EXCEPT !.operation = op, !.voice = v, !.busy = TRUE]
      /\ process' = [NoProcess EXCEPT !.pc = "load", !.operation = op, !.voice = v]
      /\ owed' = {}
  BY DEF Begin
<1>2. NoListing \in Listings
  BY DEF NoListing, Listings
<1>3. /\ client' \in Clients /\ client'.operation = op /\ client'.voice = v /\ client'.busy
      /\ ~client'.cancelPending /\ ~client'.streamFinished /\ ~client'.exited
      /\ ~client'.handled /\ client'.own
  BY <1>1, <1>2 DEF Idle, Clients
<1>4. /\ process' \in Processes /\ process'.pc = "load" /\ process'.operation = op
      /\ process'.voice = v
  <2>1. NoProcess \in Processes
    BY <1>2 DEF NoProcess, Processes, Conditions
  <2> QED BY <1>1, <2>1 DEF Processes, PCs
<1>5. ClientTypes'
  BY <1>1, <1>3, <1>4 DEF ClientTypes, Clients, Processes, OwedSignals, Listings, PCs,
     Operations, Mutations, Conditions
<1>6. OperationInv'
  BY <1>1, <1>3, <1>4 DEF OperationInv, IsOpen, Operations, Mutations, NoProcess, NoListing
<1>7. SignalInv' /\ ResultInv' /\ PendingInv' /\ ManagerInv'
  BY <1>1, <1>3, <1>4 DEF SignalInv, ResultInv, Succeeds, PendingInv, Mutations, ManagerInv
<1> QED BY <1>5, <1>6, <1>7 DEF OperationsInv

(* An operation is over.                                                   *)
LEMMA Over ==
  ASSUME client' \in Clients, client'.own, ~client'.busy, ~client'.cancelPending,
         process' = NoProcess, owed' = {}, pendingVoiceSelection' = None
  PROVE  OperationsInv'
<1>1. NoListing \in Listings
  BY DEF NoListing, Listings
<1>2. process' \in Processes /\ process'.pc = "none"
  BY <1>1 DEF NoProcess, Processes, Conditions
<1>3. ClientTypes'
  BY <1>2 DEF ClientTypes, Clients, Processes, OwedSignals, Listings, PCs,
     Operations, Mutations, Conditions
<1>4. OperationInv'
  BY <1>2 DEF OperationInv, IsOpen, NoProcess, NoListing
<1>5. SignalInv' /\ ResultInv' /\ PendingInv' /\ ManagerInv'
  BY <1>2 DEF SignalInv, ResultInv, PendingInv, ManagerInv
<1> QED BY <1>3, <1>4, <1>5 DEF OperationsInv

(* The voice changes: a worker that waits for a read has to go.            *)
LEMMA VoiceChanges ==
  ASSUME ServiceTypes, WarmInv, NEW v \in Voices, ChangeVoice(v), worker' = worker
  PROVE  /\ voiceName' = v /\ leaving' \in BOOLEAN /\ overtaken' \in BOOLEAN
         /\ WarmInv'
<1>1. CASE v = voiceName \/ worker = None
  BY <1>1 DEF ChangeVoice, ServiceTypes, WarmInv
<1>2. CASE ~(v = voiceName \/ worker = None)
  BY <1>2 DEF ChangeVoice, ServiceTypes, WarmInv
<1> QED BY <1>1, <1>2

(* Who may begin an operation finds nothing left of the one before.        *)
LEMMA Free ==
  ASSUME OperationsInv, ~IsOpen(client)
  PROVE  /\ process = NoProcess /\ owed = {} /\ CanBegin(client, owed)
         /\ pendingVoiceSelection = None
BY DEF OperationsInv, OperationInv, CanBegin, Running, IsOpen, NoProcess, PendingInv

(* The user begins an operation, or a list is asked for.                   *)
LEMMA BeginKeeps ==
  ASSUME VoiceManagerInv, InstallVoice \/ SelectVoice \/ WatchCatalog
  PROVE  VoiceManagerInv' /\ PendingEnds
<1> USE DEF VoiceManagerInv, setup, speech, voice, reads, disk
<1>1. ~IsOpen(client) /\ setupReady = TRUE /\ setupReady' = setupReady
  BY DEF InstallVoice, SelectVoice, WatchCatalog, CanBegin, IsOpen, ServiceTypes
<1>2. owed = {} /\ pendingVoiceSelection = None /\ CanBegin(client, owed)
  BY <1>1, Free
<1>3. UNCHANGED <<setupProbeCompleted, probing, status, worker, leaving, voiceName, voiceCatalog,
                  overtaken, kept, later, stamp, files, selectedFile, litter, excused, unsure>>
  BY DEF InstallVoice, SelectVoice, WatchCatalog
<1>4. ServiceTypes' /\ DiskTypes' /\ WarmInv' /\ StagesAreRemoved'
  BY <1>1, <1>3 DEF ServiceTypes, DiskTypes, WarmInv, StagesAreRemoved, Conditions
<1>5. \E op \in Operations, v \in Voices \union {None} :
        /\ op \in Mutations => v \in Voices
        /\ Begin(op, v, {})
        /\ pendingVoiceSelection' \in Voices \union {None}
        /\ pendingVoiceSelection' # None => op \in Mutations /\ v = pendingVoiceSelection'
        /\ op = "install" => pendingVoiceSelection' = v
  <2>1. CASE InstallVoice
    BY <1>2, <2>1 DEF InstallVoice, Operations, Mutations
  <2>2. CASE SelectVoice
    BY <1>2, <2>2 DEF SelectVoice, Operations, Mutations
  <2>3. CASE WatchCatalog
    BY <1>2, <2>3 DEF WatchCatalog, RequestVoiceList, Operations, Mutations
  <2> QED BY <2>1, <2>2, <2>3
<1>6. OperationsInv'
  BY <1>1, <1>5, Begun
<1>7. SyncInv'
  <2>1. client'.cancelPending = FALSE
    BY <1>5 DEF Begin, Idle
  <2>2. ~Mutating
    BY <1>1 DEF Mutating, IsOpen
  <2> QED BY <1>1, <1>3, <2>1, <2>2 DEF SyncInv, ShownOf, SelectedIn, IsWhole
<1> QED BY <1>2, <1>4, <1>6, <1>7 DEF PendingEnds

(* The probe ends, and the first list begins when setup is complete.       *)
LEMMA ProbeKeeps ==
  ASSUME VoiceManagerInv, ProbeEnds
  PROVE  VoiceManagerInv' /\ PendingEnds
<1> USE DEF VoiceManagerInv, setup, speech, voice, reads, disk
<1>1. /\ probing /\ ~setupReady /\ voiceCatalog = None /\ probing' = FALSE
      /\ setupProbeCompleted' = TRUE /\ setupReady' \in BOOLEAN
      /\ UNCHANGED <<worker, leaving, voiceName, voiceCatalog, overtaken, pendingVoiceSelection,
                     stamp, files, selectedFile, litter, excused, unsure>>
  BY DEF ProbeEnds, SyncInv, DiskTypes, Present
<1>2. ~IsOpen(client)
  BY <1>1 DEF OperationsInv, OperationInv
<1>3. owed = {} /\ pendingVoiceSelection = None /\ CanBegin(client, owed)
  BY <1>2, Free
<1>4. /\ status' \in {"setup-required", "idle", "reading", "stopping", "error"}
      /\ kept' \in Reads \union {None} /\ later' \subseteq Reads
  BY DEF ProbeEnds, ServiceTypes, Release
<1>5. ServiceTypes' /\ DiskTypes' /\ WarmInv' /\ StagesAreRemoved'
  BY <1>1, <1>4 DEF ServiceTypes, DiskTypes, WarmInv, StagesAreRemoved, Conditions
<1>6. CASE setupReady'
  <2>1. Begin("list", None, {}) /\ setupReady' = TRUE
    BY <1>1, <1>3, <1>6 DEF ProbeEnds, RequestVoiceList
  <2>2. OperationsInv'
    BY <1>1, <1>3, <2>1, Begun DEF Operations, Mutations
  <2>3. client'.cancelPending = FALSE
    BY <2>1 DEF Begin, Idle
  <2>4. SyncInv'
    BY <1>1, <1>6, <2>3 DEF SyncInv
  <2> QED BY <1>3, <1>5, <2>2, <2>4 DEF PendingEnds
<1>7. CASE ~setupReady'
  <2>1. UNCHANGED <<client, process, owed>> /\ setupReady' = setupReady
    BY <1>1, <1>7 DEF ProbeEnds, ServiceTypes
  <2>2. OperationsInv'
    BY <1>1, <2>1, OperationKept
  <2>3. SyncInv'
    BY <1>1, <1>2, <2>1, <1>7 DEF SyncInv, IsOpen
  <2> QED BY <1>3, <1>5, <2>2, <2>3 DEF PendingEnds
<1> QED BY <1>6, <1>7

(* A stop cancels the operation; what it owes is still to come.            *)
LEMMA StopKeeps ==
  ASSUME VoiceManagerInv, Stop
  PROVE  VoiceManagerInv' /\ PendingEnds
<1> USE DEF VoiceManagerInv, setup, speech, voice, reads, disk
<1>1. /\ UNCHANGED <<setupReady, setupProbeCompleted, probing, worker, leaving, voiceName,
                     voiceCatalog, overtaken, later, owed, stamp, files, selectedFile, litter,
                     excused>>
      /\ kept' = None
      /\ status' \in {"setup-required", "idle", "reading", "stopping", "error"}
  BY DEF Stop
<1>2. DiskTypes' /\ WarmInv' /\ StagesAreRemoved'
  BY <1>1 DEF DiskTypes, WarmInv, StagesAreRemoved, Conditions
<1>3. CASE ~client.busy
  <2>1. UNCHANGED <<client, process, pendingVoiceSelection, unsure>>
    BY <1>3 DEF Stop, Cancel
  <2>2. ServiceTypes'
    BY <1>1, <2>1 DEF ServiceTypes
  <2>3. OperationsInv'
    BY <1>1, <2>1, OperationKept
  <2>4. SyncInv'
    BY <1>1, <2>1 DEF SyncInv, Mutating, ShownOf, SelectedIn, IsWhole
  <2> QED BY <1>2, <2>1, <2>2, <2>3, <2>4 DEF PendingEnds
<1>4. CASE client.busy
  <2>1. /\ client' = [client EXCEPT !.busy = FALSE, !.handled = TRUE, !.output = NoListing,
                            !.cancelPending = ~(client.exited /\ client.streamFinished)]
        /\ process' = [process EXCEPT !.asked = process.pc # "none"]
        /\ pendingVoiceSelection' = None
        /\ unsure' = (unsure \/ client.operation \in Mutations)
    BY <1>4 DEF Stop, Cancel
  <2>2. client \in Clients /\ process \in Processes /\ owed \subseteq OwedSignals
    BY DEF OperationsInv, ClientTypes
  <2>3. /\ client' \in Clients /\ ~client'.busy /\ client'.own = client.own
        /\ client'.operation = client.operation /\ client'.voice = client.voice
        /\ client'.exited = client.exited /\ client'.streamFinished = client.streamFinished
    <3>1. NoListing \in Listings
      BY DEF NoListing, Listings
    <3>2. (~(client.exited /\ client.streamFinished)) \in BOOLEAN
      OBVIOUS
    <3> QED BY <2>1, <2>2, <3>1, <3>2 DEF Clients
  <2>4. client'.cancelPending
    BY <1>4, <2>1, <2>2 DEF OperationsInv, OperationInv, IsOpen, Clients
  <2>5. /\ process' \in Processes /\ process'.pc = process.pc
        /\ process'.operation = process.operation /\ process'.voice = process.voice
        /\ process'.kind = process.kind /\ process'.stage = process.stage
        /\ process'.listing = process.listing
    BY <2>1, <2>2 DEF Processes
  <2>6. process.pc = "none" => process' = NoProcess
    <3> SUFFICES ASSUME process.pc = "none" PROVE process' = NoProcess
      OBVIOUS
    <3>1. process = NoProcess
      BY DEF OperationsInv, OperationInv
    <3>2. process' = [NoProcess EXCEPT !.asked = FALSE]
      BY <2>1, <3>1 DEF NoProcess
    <3> QED BY <3>2 DEF NoProcess
  <2>7. ServiceTypes'
    <3>1. unsure' \in BOOLEAN
      BY <2>1 DEF ServiceTypes
    <3> QED BY <1>1, <3>1 DEF ServiceTypes
  <2>8. ClientTypes'
    BY <1>1, <2>1, <2>2, <2>3, <2>5 DEF ClientTypes, Clients, Processes, OwedSignals, Listings,
       PCs, Operations, Mutations, Conditions
  <2>9. OperationInv'
    BY <1>1, <1>4, <2>3, <2>4, <2>5, <2>6 DEF OperationsInv, OperationInv, IsOpen, Operations,
       Mutations, NoProcess, NoListing
  <2>10. SignalInv' /\ ResultInv' /\ PendingInv'
    BY <1>1, <2>1, <2>3 DEF OperationsInv, SignalInv, ResultInv, PendingInv
  <2>11. ManagerInv'
    BY <1>1, <2>5 DEF OperationsInv, ManagerInv, IsWhole, ListingOf, SelectedIn
  <2>12. SyncInv'
    BY <1>1, <2>1, <2>3, <2>4 DEF SyncInv, Mutating, ShownOf, SelectedIn, IsWhole, Mutations
  <2> QED BY <1>2, <2>4, <2>7, <2>8, <2>9, <2>10, <2>11, <2>12 DEF OperationsInv, PendingEnds
<1> QED BY <1>3, <1>4

(* A signal of the manager's process comes: the first of the two, or the   *)
(* one that ends the operation.                                            *)
LEMMA DeliverKeeps ==
  ASSUME VoiceManagerInv, Deliver
  PROVE  VoiceManagerInv' /\ PendingEnds
<1> USE DEF VoiceManagerInv, setup, speech, voice, reads, disk
<1>1. PICK s \in owed :
        Settle(IF s.signal = "exited"
                 THEN [[client EXCEPT !.own = @ /\ s.own] EXCEPT !.exited = TRUE, !.ok = s.ok]
                 ELSE [[client EXCEPT !.own = @ /\ s.own] EXCEPT !.streamFinished = TRUE,
                                                                 !.output = s.output],
               owed \ {s})
  BY DEF Deliver
<1>2. /\ UNCHANGED <<setupReady, setupProbeCompleted, probing, status, worker, stamp, files,
                     selectedFile, litter, excused>>
  BY DEF Deliver
<1>3. /\ client \in Clients /\ process \in Processes /\ owed \subseteq OwedSignals
      /\ s \in OwedSignals
      /\ pendingVoiceSelection \in Voices \union {None}
  BY DEF OperationsInv, ClientTypes
<1>4. /\ process = NoProcess /\ IsOpen(client) /\ s.own /\ client.own /\ setupReady = TRUE
      /\ client.operation \in Operations
      /\ client.operation \in Mutations => client.voice \in Voices
      /\ client.busy => ~client.handled /\ ~client.cancelPending
      /\ s.signal = "exited" => ~client.exited
      /\ s.signal = "streamFinished" => ~client.streamFinished
  BY <1>1 DEF OperationsInv, OperationInv, SignalInv, ServiceTypes
<1> DEFINE after ==
      IF s.signal = "exited"
        THEN [[client EXCEPT !.own = @ /\ s.own] EXCEPT !.exited = TRUE, !.ok = s.ok]
        ELSE [[client EXCEPT !.own = @ /\ s.own] EXCEPT !.streamFinished = TRUE,
                                                        !.output = s.output]
<1>a. Settle(after, owed \ {s})
  BY <1>1
<1> HIDE DEF after
<1>b. PICK m : m = after
  OBVIOUS
<1>5. m = IF s.signal = "exited"
            THEN [[client EXCEPT !.own = @ /\ s.own] EXCEPT !.exited = TRUE, !.ok = s.ok]
            ELSE [[client EXCEPT !.own = @ /\ s.own] EXCEPT !.streamFinished = TRUE,
                                                            !.output = s.output]
  BY <1>b DEF after
<1>6. /\ m \in Clients /\ m.own /\ m.operation = client.operation /\ m.voice = client.voice
      /\ m.busy = client.busy /\ m.cancelPending = client.cancelPending
      /\ m.handled = client.handled
  <2>1. CASE s.signal = "exited"
    BY <1>3, <1>4, <1>5, <2>1 DEF Clients, OwedSignals
  <2>2. CASE s.signal # "exited"
    BY <1>3, <1>4, <1>5, <2>2 DEF Clients, OwedSignals
  <2> QED BY <2>1, <2>2
<1>7. /\ s.signal = "exited" =>
           /\ m.exited /\ m.ok = s.ok /\ m.streamFinished = client.streamFinished
           /\ m.output = client.output
      /\ s.signal = "streamFinished" =>
           /\ m.streamFinished /\ m.output = s.output /\ m.exited = client.exited
           /\ m.ok = client.ok
      /\ s.signal \in {"exited", "streamFinished"}
  <2>1. CASE s.signal = "exited"
    BY <1>3, <1>5, <2>1 DEF Clients, OwedSignals
  <2>2. CASE s.signal = "streamFinished"
    BY <1>3, <1>5, <2>2 DEF Clients, OwedSignals
  <2> QED BY <1>3, <2>1, <2>2 DEF OwedSignals
<1>8. Settle(m, owed \ {s})
  BY <1>a, <1>b
<1>9. DiskTypes' /\ StagesAreRemoved'
  BY <1>2 DEF DiskTypes, StagesAreRemoved, Conditions
<1>10. \A t \in owed \ {s} : t.signal # s.signal
  BY DEF OperationsInv, SignalInv
<1>11. m.cancelPending \/ (m.busy /\ ~m.handled)
  BY <1>4, <1>6 DEF IsOpen
<1>12. CASE ~(m.exited /\ m.streamFinished)
  <2>1. /\ client' = m /\ owed' = owed \ {s} /\ process' = process
        /\ UNCHANGED <<pendingVoiceSelection, kept, later, leaving, voiceName, voiceCatalog,
                       overtaken, unsure>>
    BY <1>8, <1>12 DEF Settle, Rest
  <2>2. ServiceTypes' /\ WarmInv'
    BY <1>2, <2>1 DEF ServiceTypes, WarmInv
  <2>3. ClientTypes'
    BY <1>2, <1>3, <1>6, <2>1 DEF ClientTypes, Clients, Processes, OwedSignals, Listings,
       PCs, Operations, Mutations, Conditions
  <2>4. OperationInv' /\ PendingInv' /\ ManagerInv'
    <3>1. process.pc = "none"
      BY <1>4 DEF NoProcess
    <3> QED BY <1>2, <1>4, <1>6, <1>12, <2>1, <3>1 DEF OperationsInv, OperationInv, PendingInv,
            ManagerInv, IsOpen, Operations, Mutations, NoProcess, NoListing
  <2>5. SignalInv'
    BY <1>7, <1>10, <2>1 DEF OperationsInv, SignalInv
  <2>6. ResultInv'
    <3>1. Succeeds' => Succeeds
      BY <1>1, <1>7, <2>1 DEF Succeeds
    <3>2. CASE client.busy /\ Succeeds
      <4>1. /\ client.operation = "list" =>
                 /\ client.streamFinished => client.output = ListingOf(files, selectedFile)
                 /\ \A t \in owed : t.signal = "streamFinished" =>
                                      t.output = ListingOf(files, selectedFile)
            /\ client.operation = "select" =>
                 selectedFile = client.voice /\ IsWhole(files, client.voice)
        BY <3>2 DEF OperationsInv, ResultInv
      <4> QED BY <1>1, <1>2, <1>6, <1>7, <2>1, <4>1
              DEF ResultInv, ListingOf, SelectedIn, IsWhole
    <3> QED BY <1>6, <2>1, <3>1, <3>2 DEF ResultInv
  <2>7. SyncInv'
    BY <1>2, <1>6, <2>1 DEF SyncInv, Mutating, ShownOf, SelectedIn, IsWhole, Mutations
  <2> QED BY <1>9, <2>1, <2>2, <2>3, <2>4, <2>5, <2>6, <2>7 DEF OperationsInv, PendingEnds
<1>13. CASE m.exited /\ m.streamFinished
  <2>1. owed \ {s} = {}
    <3>1. \A t \in owed : t.signal \in {"exited", "streamFinished"}
      BY <1>3 DEF OwedSignals
    <3>2. \A t \in owed \ {s} : FALSE
      BY <1>7, <1>10, <1>13, <3>1 DEF OperationsInv, SignalInv
    <3> QED BY <3>2
  <2>2. /\ client.operation \in Mutations /\ client.cancelPending => unsure
        /\ probing => ~setupReady
        /\ setupReady /\ voiceCatalog # None /\ ~unsure /\ ~Mutating =>
             voiceName = ShownOf(files, selectedFile)
    BY DEF SyncInv
  <2>4. ShownOf(files, selectedFile)' = ShownOf(files, selectedFile)
    BY <1>2 DEF ShownOf, SelectedIn, IsWhole
  <2>5. CASE m.cancelPending
    <3>1. /\ client' = [m EXCEPT !.cancelPending = FALSE, !.output = NoListing,
                                 !.operation = None, !.voice = None, !.ok = FALSE]
          /\ owed' = {} /\ process' = NoProcess
          /\ pendingVoiceSelection' = IF m.operation \in Mutations THEN None
                                      ELSE pendingVoiceSelection
          /\ UNCHANGED <<kept, later, leaving, voiceName, voiceCatalog, overtaken, unsure>>
      BY <1>4, <1>8, <1>13, <2>1, <2>5 DEF Settle, FinishCanceled, Rest
    <3>2. pendingVoiceSelection = None /\ ~client.busy
      BY <1>4, <1>6, <2>5 DEF OperationsInv, PendingInv
    <3>3. /\ client' \in Clients /\ client'.own /\ ~client'.busy /\ ~client'.cancelPending
      <4>1. NoListing \in Listings
        BY DEF NoListing, Listings
      <4> QED BY <1>6, <3>1, <3>2, <4>1 DEF Clients
    <3>4. OperationsInv'
      BY <3>1, <3>2, <3>3, Over
    <3>5. ServiceTypes' /\ WarmInv'
      BY <1>2, <3>1 DEF ServiceTypes, WarmInv
    <3>6. SyncInv'
      BY <1>2, <1>6, <2>2, <2>4, <2>5, <3>1, <3>2, <3>3 DEF SyncInv, Mutating, Mutations
    <3> QED BY <1>9, <3>2, <3>4, <3>5, <3>6 DEF PendingEnds
  <2>6. CASE ~m.cancelPending
    <3>1. /\ m.busy /\ client.busy
          /\ Fail(m, {}) \/ Listed(m, {}) \/ Installed(m, {}) \/ Selected(m, {})
      BY <1>6, <1>8, <1>11, <1>13, <2>1, <2>6 DEF Settle
    <3>2. /\ Handled(m) \in Clients /\ Handled(m).own /\ ~Handled(m).busy
          /\ ~Handled(m).cancelPending
          /\ Handled(m).exited = m.exited /\ Handled(m).ok = m.ok
      <4>1. NoListing \in Listings
        BY DEF NoListing, Listings
      <4> QED BY <1>6, <2>6, <4>1 DEF Clients, Handled
    <3>3. CanBegin(Handled(m), {})
      BY <1>4, <3>2 DEF CanBegin, Running, NoProcess
    <3>4. /\ pendingVoiceSelection # None =>
               client.operation \in Mutations /\ client.voice = pendingVoiceSelection
          /\ client.operation = "install" => pendingVoiceSelection = client.voice
      BY <3>1 DEF OperationsInv, PendingInv
    <3>5. m.ok =>
            /\ client.operation = "list" => m.output = ListingOf(files, selectedFile)
            /\ client.operation = "select" =>
                 selectedFile = client.voice /\ IsWhole(files, client.voice)
      <4> SUFFICES ASSUME m.ok
                   PROVE  /\ client.operation = "list" =>
                               m.output = ListingOf(files, selectedFile)
                          /\ client.operation = "select" =>
                               selectedFile = client.voice /\ IsWhole(files, client.voice)
        OBVIOUS
      <4>1. Succeeds
        BY <1>1, <1>7, <1>13 DEF Succeeds
      <4> QED BY <1>1, <1>7, <1>13, <3>1, <4>1 DEF OperationsInv, ResultInv
    <3>6. CASE Fail(m, {})
      <4>1. /\ client' = Handled(m) /\ owed' = {} /\ process' = NoProcess /\ ~m.ok
            /\ UNCHANGED <<leaving, voiceName, voiceCatalog, overtaken>>
        BY <1>4, <3>6 DEF Fail, Rest
      <4>2. pendingVoiceSelection' = None
        BY <1>6, <3>4, <3>6 DEF Fail
      <4>3. /\ kept' \in Reads \union {None} /\ later' \subseteq Reads /\ unsure' \in BOOLEAN
            /\ client.operation \in Mutations => unsure' = TRUE
            /\ client.operation \notin Mutations => unsure' = unsure
        BY <1>6, <3>6 DEF Fail, Release, ServiceTypes
      <4>4. OperationsInv'
        BY <3>2, <4>1, <4>2, Over
      <4>5. ServiceTypes' /\ WarmInv'
        BY <1>2, <4>1, <4>3 DEF ServiceTypes, WarmInv
      <4>6. SyncInv'
        BY <1>2, <2>2, <2>4, <3>2, <4>1, <4>3 DEF SyncInv, Mutating
      <4>7. PendingEnds
        BY <1>13, <3>2, <4>1 DEF PendingEnds
      <4> QED BY <1>9, <4>4, <4>5, <4>6, <4>7
    <3>7. CASE Listed(m, {})
      <4>1. /\ client' = Handled(m) /\ owed' = {} /\ process' = NoProcess
            /\ m.operation = "list" /\ m.ok /\ unsure' = FALSE
            /\ UNCHANGED pendingVoiceSelection
            /\ ApplyVoiceList(m.output) /\ Release
        BY <1>4, <3>7 DEF Listed, Rest
      <4>2. m.output = ListingOf(files, selectedFile)
        BY <1>6, <3>5, <4>1
      <4>3. /\ voiceCatalog' = m.output.installed /\ m.output \in Listings
            /\ ChangeVoice(ShownOf(files, selectedFile))
            /\ ShownOf(files, selectedFile) \in Voices
        BY <4>1, <4>2, ListingShows DEF ApplyVoiceList
      <4>4. /\ voiceName' = ShownOf(files, selectedFile)
            /\ leaving' \in BOOLEAN /\ overtaken' \in BOOLEAN /\ WarmInv'
        BY <1>2, <4>3, VoiceChanges
      <4>5. pendingVoiceSelection' = None
        BY <1>6, <3>4, <4>1 DEF Mutations
      <4>6. OperationsInv'
        BY <3>2, <4>1, <4>5, Over
      <4>7. ServiceTypes'
        <5>1. kept' \in Reads \union {None} /\ later' \subseteq Reads
          BY <4>1 DEF Release, ServiceTypes
        <5>2. voiceCatalog' \in (SUBSET Voices) \union {None}
          BY <4>3 DEF Listings
        <5>3. unsure' \in BOOLEAN
          BY <4>1
        <5> QED BY <1>2, <4>3, <4>4, <5>1, <5>2, <5>3 DEF ServiceTypes
      <4>8. SyncInv'
        BY <1>2, <1>4, <2>2, <2>4, <3>2, <4>1, <4>4 DEF SyncInv
      <4>9. PendingEnds
        BY <3>4, <1>6, <4>1 DEF PendingEnds, Mutations
      <4> QED BY <1>9, <4>4, <4>6, <4>7, <4>8, <4>9
    <3>8. CASE Installed(m, {})
      <4>1. client.operation = "install" /\ pendingVoiceSelection = m.voice /\ m.voice \in Voices
        BY <1>4, <1>6, <3>4, <3>8 DEF Installed, Mutations
      <4>2. /\ Begin("select", m.voice, {})
            /\ UNCHANGED <<pendingVoiceSelection, kept, later, leaving, voiceName, voiceCatalog,
                           overtaken, unsure>>
        BY <3>3, <3>8, <4>1 DEF Installed
      <4>3. OperationsInv'
        BY <1>2, <1>4, <4>1, <4>2, Begun DEF Operations, Mutations
      <4>4. ServiceTypes' /\ WarmInv'
        BY <1>2, <4>2 DEF ServiceTypes, WarmInv
      <4>5. client'.busy /\ client'.operation = "select" /\ ~client'.cancelPending
        BY <4>2 DEF Begin, Idle
      <4>6. SyncInv'
        BY <1>2, <1>4, <2>2, <4>2, <4>5 DEF SyncInv, Mutating, Mutations
      <4>7. PendingEnds
        BY <4>2 DEF PendingEnds
      <4> QED BY <1>9, <4>3, <4>4, <4>6, <4>7
    <3>9. CASE Selected(m, {})
      <4>1. /\ m.ok /\ client.operation = "select" /\ m.voice \in Voices
            /\ ChangeVoice(m.voice) /\ pendingVoiceSelection' = None
            /\ Begin("list", None, {})
            /\ UNCHANGED <<kept, later, voiceCatalog, unsure>>
        BY <1>4, <1>6, <3>3, <3>9 DEF Selected, RequestVoiceList, Mutations
      <4>2. voiceName' = m.voice /\ leaving' \in BOOLEAN /\ overtaken' \in BOOLEAN /\ WarmInv'
        BY <1>2, <4>1, VoiceChanges
      <4>3. ShownOf(files, selectedFile) = m.voice
        BY <1>6, <3>5, <4>1, SelectedShows
      <4>4. OperationsInv'
        BY <1>2, <1>4, <4>1, Begun DEF Operations, Mutations
      <4>5. ServiceTypes'
        BY <1>2, <4>1, <4>2 DEF ServiceTypes
      <4>6. ~client'.cancelPending
        BY <4>1 DEF Begin, Idle
      <4>7. SyncInv'
        BY <1>2, <1>4, <2>2, <2>4, <4>1, <4>2, <4>3, <4>6 DEF SyncInv
      <4>8. PendingEnds
        BY <1>6, <3>4, <4>2 DEF PendingEnds
      <4> QED BY <1>9, <4>2, <4>4, <4>5, <4>7, <4>8
    <3> QED BY <3>1, <3>6, <3>7, <3>8, <3>9
  <2> QED BY <2>5, <2>6
<1> QED BY <1>12, <1>13

(***************************************************************************)
(* The theorems.                                                           *)
(***************************************************************************)
LEMMA VoiceManagerInit ==
  Init => VoiceManagerInv
<1> SUFFICES ASSUME Init PROVE VoiceManagerInv
  OBVIOUS
<1> USE DEF Init
<1>1. NoListing \in Listings
  BY DEF NoListing, Listings
<1>2. ServiceTypes
  <2>1. /\ setupReady \in BOOLEAN /\ setupProbeCompleted \in BOOLEAN /\ probing \in BOOLEAN
        /\ leaving \in BOOLEAN /\ overtaken \in BOOLEAN /\ unsure \in BOOLEAN
    OBVIOUS
  <2> QED BY <2>1, VoicesAssumption DEF ServiceTypes
<1>3. DiskTypes
  <2>1. stamp \in BOOLEAN /\ litter \in BOOLEAN /\ excused \in BOOLEAN
    OBVIOUS
  <2>2. files \in [Voices -> [FileKinds -> Conditions]]
    BY FilesAssumption
  <2> QED BY <2>1, <2>2 DEF DiskTypes
<1>4. client.busy = FALSE /\ client.cancelPending = FALSE /\ client.own = TRUE
  BY DEF Idle
<1>5. client \in Clients
  BY <1>1 DEF Idle, Clients
<1>6. OperationsInv
  <2>1. process \in Processes
    BY <1>1 DEF NoProcess, Processes, Conditions
  <2>2. ClientTypes
    BY <1>5, <2>1 DEF ClientTypes
  <2>3. OperationInv
    BY <1>4 DEF OperationInv, IsOpen, NoProcess
  <2>4. SignalInv /\ ManagerInv /\ ResultInv /\ PendingInv
    BY <1>4 DEF SignalInv, ManagerInv, ResultInv, PendingInv, NoProcess
  <2> QED BY <2>2, <2>3, <2>4 DEF OperationsInv
<1>7. SyncInv /\ WarmInv /\ StagesAreRemoved
  BY <1>4 DEF SyncInv, WarmInv, StagesAreRemoved
<1> QED
  BY <1>2, <1>3, <1>6, <1>7 DEF VoiceManagerInv

(* The invariant is kept, and no selection that is waited for is forgotten.*)
LEMMA VoiceManagerStep ==
  ASSUME VoiceManagerInv, [Next]_vars
  PROVE  VoiceManagerInv' /\ PendingEnds
<1>1. CASE Manager \/ Die
  <2>1. UNCHANGED pendingVoiceSelection
    BY <1>1 DEF Manager, Die, List, VerifyFile, VerifyVoice, Fill, ReplaceFile, ReplaceName,
       Replaced, DiskFails, Discard, Emit, Interrupt, Elsewhere, ByManager
  <2> QED BY <1>1, <2>1, ManagerKeeps DEF PendingEnds
<1>2. CASE \/ Read \/ Repeat
           \/ WorkerStarts \/ ReadEnds \/ Announce \/ StopAcknowledged \/ Evict \/ WorkerEnds
           \/ WatchSetup \/ Setup
  <2>1. UNCHANGED pendingVoiceSelection
    BY <1>2 DEF Read, Repeat, ByUser, WorkerStarts, ReadEnds, Announce, StopAcknowledged, Evict,
       WorkerEnds, ByWorker, WatchSetup, Setup
  <2> QED BY <1>2, <2>1, BesideKeeps DEF PendingEnds
<1>3. CASE InstallVoice \/ SelectVoice \/ WatchCatalog
  BY <1>3, BeginKeeps
<1>4. CASE Deliver
  BY <1>4, DeliverKeeps
<1>5. CASE Stop
  BY <1>5, StopKeeps
<1>6. CASE ProbeEnds
  BY <1>6, ProbeKeeps
<1>7. CASE UNCHANGED vars
  <2>1. /\ UNCHANGED <<setupReady, client, process, owed, pendingVoiceSelection, files,
                       selectedFile>>
        /\ UNCHANGED <<setupProbeCompleted, probing, status, worker, leaving, overtaken,
                       voiceName, voiceCatalog, kept, later, stamp, litter, excused, unsure>>
    BY <1>7 DEF vars, setup, speech, voice, reads, disk
  <2>2. ServiceTypes' /\ DiskTypes'
    BY <2>1 DEF VoiceManagerInv, ServiceTypes, DiskTypes, Conditions
  <2>3. SyncInv' /\ WarmInv' /\ StagesAreRemoved'
    BY <2>1 DEF VoiceManagerInv, SyncInv, WarmInv, StagesAreRemoved, Mutating, ShownOf,
       SelectedIn, IsWhole
  <2> QED BY <2>1, <2>2, <2>3, OperationKept DEF VoiceManagerInv, PendingEnds
<1> QED
  BY <1>1, <1>2, <1>3, <1>4, <1>5, <1>6, <1>7 DEF Next

(* Only the end of a download and setup touch the files of a voice, only   *)
(* the end of a select and setup the name of the selected one.             *)
LEMMA DiskStep ==
  ASSUME VoiceManagerInv, [Next]_vars
  PROVE  /\ \A v \in Voices, k \in FileKinds :
              files'[v][k] # files[v][k] => files'[v][k] = "whole"
         /\ selectedFile' # selectedFile => Complete(selectedFile)'
<1> USE DEF VoiceManagerInv
<1>1. CASE ReplaceFile
  <2>1. /\ process.pc = "staged" /\ selectedFile' = selectedFile
        /\ files' = [files EXCEPT ![process.voice][Kind] = process.stage]
    BY <1>1 DEF ReplaceFile, At
  <2>2. process.stage = "whole" /\ files \in [Voices -> [FileKinds -> Conditions]]
    BY <2>1 DEF OperationsInv, ManagerInv, DiskTypes
  <2> QED BY <2>1, <2>2
<1>2. CASE ReplaceName
  <2>1. /\ process.pc = "staged" /\ process.operation = "select" /\ files' = files
        /\ selectedFile' = process.voice
    BY <1>2 DEF ReplaceName, At
  <2> QED BY <2>1 DEF OperationsInv, ManagerInv, IsWhole, Complete
<1>3. CASE Setup
  <2>1. /\ files' = [files EXCEPT ![Default] = [k \in FileKinds |-> "whole"]]
        /\ selectedFile' = IF selectedFile \in Voices /\ Complete(selectedFile) THEN selectedFile
                           ELSE Default
    BY <1>3 DEF Setup
  <2>2. files \in [Voices -> [FileKinds -> Conditions]]
    BY DEF DiskTypes
  <2>3. \A k \in FileKinds : files'[Default][k] = "whole"
    BY <2>1, <2>2, VoicesAssumption
  <2>4. selectedFile' # selectedFile => Complete(selectedFile)'
    BY <2>1, <2>3 DEF Complete
  <2> QED BY <2>1, <2>2, <2>4
<1>4. CASE \/ List \/ VerifyFile \/ VerifyVoice \/ Fill \/ Replaced \/ DiskFails \/ Discard
           \/ Emit \/ Interrupt \/ Die
  BY <1>4 DEF List, VerifyFile, VerifyVoice, Fill, Replaced, DiskFails, Discard, Emit, Interrupt,
     Die, Elsewhere
<1>5. CASE \/ Read \/ Repeat
           \/ WorkerStarts \/ ReadEnds \/ Announce \/ StopAcknowledged \/ Evict \/ WorkerEnds
           \/ WatchSetup
  BY <1>5 DEF Read, Repeat, ByUser, WorkerStarts, ReadEnds, Announce, StopAcknowledged, Evict,
     WorkerEnds, ByWorker, WatchSetup, disk
<1>6. CASE InstallVoice \/ SelectVoice \/ WatchCatalog \/ Deliver \/ Stop \/ ProbeEnds
  BY <1>6 DEF InstallVoice, SelectVoice, WatchCatalog, Deliver, Stop, ProbeEnds, disk
<1>7. CASE UNCHANGED vars
  BY <1>7 DEF vars, disk
<1> QED
  BY <1>1, <1>2, <1>3, <1>4, <1>5, <1>6, <1>7 DEF Next, Manager

(* The invariant holds in every state of every behaviour: an operation has *)
(* its process or what that process owes, never those of another           *)
(* (beginVoiceManager, cancelVoiceManager, finishCancelledVoiceManager).   *)
THEOREM ManagedSafe == Spec => []VoiceManagerInv
<1>1. VoiceManagerInv /\ [Next]_vars => VoiceManagerInv'
  BY VoiceManagerStep
<1> QED
  BY <1>1, VoiceManagerInit, PTL DEF Spec

(* Whatever died or was canceled, service and disk fit together: stages    *)
(* are removed, a result is of the operation that waits for it, the        *)
(* service has at rest the voice that the next shell will find, and a warm *)
(* worker has that of the service (finishVoiceManager, applyVoiceList,     *)
(* setVoicePaths, bin/manage-voices).                                      *)
THEOREM VoicesSafe == Spec => []VoicesInv
<1>1. VoiceManagerInv => VoicesInv
  <2> SUFFICES ASSUME VoiceManagerInv PROVE VoicesInv
    OBVIOUS
  <2> USE DEF VoiceManagerInv, OperationsInv
  <2>1. TypeOK
    <3>1. client.operation \in Operations \union {None} /\ client.output \in Listings
      BY DEF ClientTypes, Clients
    <3>2. /\ {setupReady, setupProbeCompleted, probing, leaving, stamp, litter} \subseteq BOOLEAN
          /\ {unsure, overtaken, excused} \subseteq BOOLEAN
      BY DEF ServiceTypes, DiskTypes
    <3> QED BY <3>1, <3>2
            DEF TypeOK, ServiceTypes, DiskTypes, ClientTypes, PendingInv, OperationInv, IsOpen
  <2>2. SameVoiceAtRest
    BY Seen DEF SyncInv, SameVoiceAtRest, AtRest, Mutating, ShownOf
  <2>3. WarmWorkerHasVoice /\ ResultIsOwn
    BY DEF WarmInv, WarmWorkerHasVoice, OperationInv, ResultIsOwn
  <2> QED BY <2>1, <2>2, <2>3 DEF VoicesInv
<1> QED
  BY <1>1, ManagedSafe, PTL

(* No step of an operation leaves half of what it is for: files come       *)
(* whole, the selected voice is complete, and a voice that was downloaded  *)
(* to be selected is, or the user or the manager has given up              *)
(* (download_one, select_voice, finishVoiceManager).                       *)
THEOREM StepsWhole == Spec => StepsAreWhole
<1>1. VoiceManagerInv /\ [Next]_vars =>
        [\A v \in Voices, k \in FileKinds :
           files'[v][k] # files[v][k] => files'[v][k] = "whole"]_vars
  BY DiskStep
<1>2. VoiceManagerInv /\ [Next]_vars =>
        [selectedFile' # selectedFile => Complete(selectedFile)']_vars
  BY DiskStep
<1>3. VoiceManagerInv /\ [Next]_vars =>
        [pendingVoiceSelection # None /\ pendingVoiceSelection' = None =>
           \/ voiceName' = pendingVoiceSelection
           \/ client'.cancelPending
           \/ client'.exited /\ ~client'.ok]_vars
  BY VoiceManagerStep DEF PendingEnds
<1>4. Spec => FilesComeWhole
  BY <1>1, ManagedSafe, PTL DEF Spec, FilesComeWhole
<1>5. Spec => SelectedIsComplete
  BY <1>2, ManagedSafe, PTL DEF Spec, SelectedIsComplete
<1>6. Spec => PendingIsSelected
  BY <1>3, ManagedSafe, PTL DEF Spec, PendingIsSelected
<1> QED
  BY <1>4, <1>5, <1>6 DEF StepsAreWhole
=============================================================================
