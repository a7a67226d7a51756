-------------------------- MODULE ClipboardCapture --------------------------
(***************************************************************************)
(* How Service.qml captures the selected text: PRIMARY first, and when     *)
(* that has none the clipboard, which is saved, cleared, filled by a copy  *)
(* shortcut sent to the focused window, polled and restored.               *)
(*                                                                         *)
(* Every step is a helper process.  The six that print something are       *)
(* collected: streamFinished and exited are two signals, in either order,  *)
(* and the second of them runs the handler.  Setting running to false only *)
(* asks a process to terminate; "running = false; running = true" starts   *)
(* the next one when the last has gone, and until then the signals of the  *)
(* old process arrive.  One event of the shell is one action.              *)
(*                                                                         *)
(* A collector is "open" from its launch, until it was handled or          *)
(* captureSerial has moved on from xSerial: after that nothing looks at    *)
(* what it holds.  Every process knows if the present capture launched it  *)
(* ("young"); the code does not, the field is for the properties.          *)
(***************************************************************************)
EXTENDS Naturals, FiniteSets

CONSTANTS MaxPolls,     \* the 14 attempts of pollClipboard
          MaxDying,     \* how many terminated processes linger at most: a bound
          Clipboards,   \* what the clipboard may hold before the first capture
          LateCopies,   \* whether an application may answer when polling is over
          LateKills     \* whether a wl-copy --clear or wtype that is asked to
                        \* terminate may outlive the restore that begins then

ASSUME PollsAssumption == {MaxPolls, MaxDying} \subseteq Nat \ {0}
ASSUME ClipboardsAssumption == Clipboards \subseteq {"text", "empty", "rich"}
ASSUME WorldAssumption == {LateCopies, LateKills} \subseteq BOOLEAN

Collectors == {"primary-types", "primary-text", "clipboard-types", "clipboard-text",
               "active-window", "poll"}
Doers == {"clear-clipboard", "copy", "restore"}   \* wl-copy --clear, wtype, wl-copy
Helpers == Collectors \union Doers
(* A stage is named for the helper that it waits for.                      *)
Stages == Helpers \union {"idle"}
Polling == {"copy", "poll"}
ClearedOnExit == {"active-window"} \union Polling   \* mutation: once it has ended
Cleared == {"clear-clipboard", "active-window"} \union Polling   \* clipboardCleared

(* What a helper printed: "copied" is the selection, out of the clipboard. *)
Kinds == {"text", "copied", "empty", "rich", "fail", "over"}
Missing == [kind |-> "missing", young |-> FALSE]
Results == [kind : Kinds, young : BOOLEAN] \union {Missing}
Outcomes == Kinds \union {"missing", "done"}    \* of a process, when it has one

VARIABLES
  captureStage, clipboardBefore, restoreCancelled,
  restoreText,            \* pendingCapturedText is not empty
  pollAttempts, pollTimer,
  collector,              \* open, streamFinished and exited of each
  helper,                 \* the processes
  clipboard, copying,     \* the clipboard; a copy shortcut is being answered
  \* history: the clipboard before the first capture, a restore failed, the
  \* user wants the read, a text was submitted or a notice shown of a read that
  \* was canceled, a process of an older capture was listened to
  was, lost, wanted, spurious, late

stage == <<captureStage, pollAttempts, pollTimer>>
saved == <<clipboardBefore, restoreCancelled, restoreText>>
world == <<clipboard, copying, was>>
verdict == <<wanted, spurious>>
vars == <<stage, saved, collector, helper, world, lost, verdict, late>>

Closed == [open |-> FALSE, stream |-> Missing, exit |-> Missing]
Fresh == [Closed EXCEPT !.open = TRUE]

(* due: the signals that the process owes; again: running was set anew.    *)
Signals(p) == IF p \in Collectors THEN {"stream", "exit"} ELSE {"exit"}
Off == [due |-> {}, again |-> FALSE, killed |-> FALSE, outcome |-> "missing", young |-> FALSE]
Started(p) == [Off EXCEPT !.due = Signals(p), !.young = TRUE]
Running(p) == helper[p].due # {}

Init ==
  /\ captureStage = "idle" /\ pollAttempts = 0 /\ pollTimer = FALSE
  /\ clipboardBefore = "empty" /\ restoreCancelled = FALSE /\ restoreText = FALSE
  /\ collector = [p \in Collectors |-> Closed]
  /\ helper = [p \in Helpers |-> Off]
  /\ clipboard \in Clipboards /\ was = clipboard /\ copying = FALSE
  /\ lost = FALSE /\ wanted = FALSE /\ spurious = FALSE /\ late = FALSE

(***************************************************************************)
(* Steps of a capture.  h is the processes as the event left them, c the   *)
(* collectors.                                                             *)
(***************************************************************************)
Launch(p, h) ==   \* running = false, running = true
  helper' = [h EXCEPT ![p] = IF @.due = {} THEN Started(p)
                             ELSE [@ EXCEPT !.again = TRUE, !.killed = TRUE]]

(* The next stage, its fields reset and its helper launched.               *)
Await(p, h, c) ==
  /\ captureStage' = p
  /\ Launch(p, h)
  /\ collector' = IF p \in Collectors THEN [c EXCEPT ![p] = Fresh] ELSE c

Stay(h, c) == helper' = h /\ collector' = c

(* submitCapturedText, or a notification that there is no text to submit.  *)
Answer ==
  /\ captureStage' = "idle"
  /\ spurious' = (spurious \/ ~wanted)
  /\ wanted' = FALSE

(* beginRestore *)
BeginRestore(text, cancelled, h, c) ==
  /\ Await("restore", h, c)
  /\ restoreText' = text
  /\ restoreCancelled' = cancelled

(* Mutation: a restore that forgets that its capture was canceled. *)
FinishRestoreAnyway(ok, h, c) ==
  /\ Stay(h, c) /\ Answer
  /\ clipboardBefore' = "empty" /\ restoreCancelled' = FALSE /\ restoreText' = FALSE
  /\ lost' = (lost \/ ~ok)

(* finishRestore *)
FinishRestore(ok, h, c) ==
  /\ Stay(h, c)
  /\ clipboardBefore' = "empty" /\ restoreCancelled' = FALSE /\ restoreText' = FALSE
  /\ lost' = (lost \/ ~ok)
  /\ IF restoreCancelled
       THEN captureStage' = "idle" /\ UNCHANGED verdict
       ELSE Answer

(***************************************************************************)
(* The handlers of the collected helpers: x is what exited said, o what    *)
(* the collector has.  A process that fails or overflows prints nothing.   *)
(***************************************************************************)
Failed(x) == x.kind \in {"fail", "over"}
Text(o) == o.kind \in {"text", "copied"}

(* beginClipboardFallback *)
Fallback(h, c) == Await("clipboard-types", h, c) /\ UNCHANGED <<saved, verdict>>
Finish(h, c) == Answer /\ Stay(h, c) /\ UNCHANGED saved

HandlePrimaryTypes(x, o, h, c) ==
  IF Failed(x) \/ ~Text(o)
    THEN Fallback(h, c)
    ELSE Await("primary-text", h, c) /\ UNCHANGED <<saved, verdict>>

(* Mutation: the refusal of an oversized selection keeps the stage. *)
HandlePrimaryTextStuck(x, o, h, c) ==
  CASE x.kind = "over" -> Stay(h, c) /\ UNCHANGED <<captureStage, saved, verdict>>
    [] ~Failed(x) /\ Text(o) -> Finish(h, c)
    [] OTHER -> Fallback(h, c)

HandlePrimaryText(x, o, h, c) ==
  IF x.kind = "over" \/ (~Failed(x) /\ Text(o))
    THEN Finish(h, c)
    ELSE Fallback(h, c)

HandleClipboardTypes(x, o, h, c) ==
  CASE Failed(x) \/ o.kind = "rich" -> Finish(h, c)
    [] ~Failed(x) /\ ~Text(o) /\ o.kind # "rich" ->
         /\ clipboardBefore' = "empty"
         /\ Await("clear-clipboard", h, c)
         /\ UNCHANGED <<restoreCancelled, restoreText, verdict>>
    [] OTHER -> Await("clipboard-text", h, c) /\ UNCHANGED <<saved, verdict>>

HandleClipboardText(x, o, h, c) ==
  IF Failed(x)
    THEN Finish(h, c)
    ELSE /\ clipboardBefore' = o.kind
         /\ Await("clear-clipboard", h, c)
         /\ UNCHANGED <<restoreCancelled, restoreText, verdict>>

HandleActiveWindow(h, c) == Await("copy", h, c) /\ UNCHANGED <<saved, verdict>>

(* processPolledText and handlePolledText *)
HandlePolledText(x, o, h, c) ==
  /\ UNCHANGED <<clipboardBefore, verdict>>
  /\ IF x.kind = "over" \/ (~Failed(x) /\ Text(o))
       THEN BeginRestore(x.kind # "over", FALSE, h, c) /\ UNCHANGED pollTimer
       ELSE /\ pollTimer' = TRUE
            /\ Stay(h, c)
            /\ UNCHANGED <<captureStage, restoreCancelled, restoreText>>

Handle(p, x, o, h, c) ==
  CASE p = "primary-types" -> HandlePrimaryTypes(x, o, h, c) /\ UNCHANGED pollTimer
    [] p = "primary-text" -> HandlePrimaryText(x, o, h, c) /\ UNCHANGED pollTimer
    [] p = "clipboard-types" -> HandleClipboardTypes(x, o, h, c) /\ UNCHANGED pollTimer
    [] p = "clipboard-text" -> HandleClipboardText(x, o, h, c) /\ UNCHANGED pollTimer
    [] p = "active-window" -> HandleActiveWindow(h, c) /\ UNCHANGED pollTimer
    [] p = "poll" -> HandlePolledText(x, o, h, c)

(***************************************************************************)
(* The signals of a process.                                               *)
(***************************************************************************)
(* What wl-paste, hyprctl and the wrapper around them may come to now; an  *)
(* empty clipboard may be reported as a failure, everything may time out.  *)
Prints(p) ==
  CASE p = "primary-types" -> {"text", "empty", "fail"}
    [] p = "primary-text" -> {"text", "empty", "fail", "over"}
    [] p = "clipboard-types" -> {clipboard, "fail"}
    [] p \in {"clipboard-text", "poll"} ->
         {IF clipboard = "rich" THEN "text" ELSE clipboard, "fail", "over"}
    [] p = "active-window" -> {"text", "fail"}

(* The processes when p has delivered s: the last signal frees the place   *)
(* and the process that was asked for meanwhile starts.                    *)
Delivered(p, s, k) ==
  LET rest == helper[p].due \ {s} IN
  [helper EXCEPT ![p] = IF rest # {} THEN [@ EXCEPT !.due = rest, !.outcome = k]
                        ELSE IF @.again THEN Started(p) ELSE Off]

(* An event may happen: no process other than p is between its signals,    *)
(* both of which are delivered when the shell learns of its end.           *)
Free(p) == \A q \in Collectors \ {p} : helper[q].due \in {{}, Signals(q)}

(* onStreamFinished and onExited of a collected helper, the second with    *)
(* the handler: which comes first, and when the process ended, is unknown. *)
Signal(p, s) ==
  /\ s \in helper[p].due /\ Free(p)
  /\ \E k \in IF helper[p].outcome = "missing" THEN Prints(p) ELSE {helper[p].outcome} :
       LET h == Delivered(p, s, k)
           r == [kind |-> k, young |-> helper[p].young]
           got == IF s = "exit" THEN [collector[p] EXCEPT !.exit = r]
                                ELSE [collector[p] EXCEPT !.stream = r]
           complete == got.exit # Missing /\ got.stream # Missing
       IN CASE collector[p].open /\ complete /\ captureStage = p ->
                 /\ Handle(p, got.exit, got.stream, h, [collector EXCEPT ![p] = Closed])
                 /\ late' = (late \/ ~got.exit.young \/ ~got.stream.young)
            [] collector[p].open /\ ~(complete /\ captureStage = p) ->
                 /\ Stay(h, [collector EXCEPT ![p] = IF complete THEN Closed ELSE got])
                 /\ UNCHANGED <<captureStage, pollTimer, saved, verdict, late>>
            [] OTHER ->
                 /\ Stay(h, collector)
                 /\ UNCHANGED <<captureStage, pollTimer, saved, verdict, late>>
  /\ UNCHANGED <<pollAttempts, world, lost>>

(* clearClipboardProc.onExited, wtypeProc.onExited and the two restores'.  *)
ClearExited(ok, h) ==
  /\ IF ok THEN Await("active-window", h, collector) /\ UNCHANGED saved
           ELSE BeginRestore(FALSE, FALSE, h, collector) /\ UNCHANGED clipboardBefore
  /\ UNCHANGED <<pollAttempts, pollTimer, lost, verdict>>

(* Mutation: nothing is to be restored when the shortcut was not sent. *)
CopyExitedStops(ok, h) ==
  IF ok
    THEN /\ captureStage' = "poll" /\ pollAttempts' = 0 /\ pollTimer' = TRUE
         /\ Stay(h, collector) /\ UNCHANGED <<saved, lost, verdict>>
    ELSE Finish(h, collector) /\ UNCHANGED <<pollAttempts, pollTimer, lost>>

CopyExited(ok, h) ==
  /\ UNCHANGED <<lost, verdict>>
  /\ IF ok
       THEN /\ captureStage' = "poll" /\ pollAttempts' = 0 /\ pollTimer' = TRUE
            /\ Stay(h, collector) /\ UNCHANGED saved
       ELSE /\ BeginRestore(FALSE, FALSE, h, collector)
            /\ UNCHANGED <<clipboardBefore, pollAttempts, pollTimer>>

RestoreExited(ok, h) ==
  FinishRestore(ok, h, collector) /\ UNCHANGED <<pollAttempts, pollTimer>>

Exited(p) ==
  /\ "exit" \in helper[p].due /\ Free(p)
  /\ \E ok \in BOOLEAN :
       LET h == Delivered(p, "exit", "missing") IN
       /\ ok => helper[p].outcome = "done"
       /\ p = "restore" => LateKills \/ \A q \in Doers : ~helper[q].killed
       /\ IF captureStage = p
            THEN /\ CASE p = "clear-clipboard" -> ClearExited(ok, h)
                      [] p = "copy" -> CopyExited(ok, h)
                      [] p = "restore" -> RestoreExited(ok, h)
                 /\ late' = (late \/ ~helper[p].young)
            ELSE Stay(h, collector) /\ UNCHANGED <<stage, saved, lost, verdict, late>>
  /\ UNCHANGED world

(* Mutation: polls that never give up. *)
PollTimerFiresForEver ==
  /\ pollTimer /\ pollTimer' = FALSE /\ Free("restore")
  /\ IF captureStage = "poll"
       THEN Await("poll", helper, collector)
       ELSE Stay(helper, collector) /\ UNCHANGED captureStage
  /\ UNCHANGED <<pollAttempts, saved, world, lost, verdict, late>>

(* Timer pollTimer and pollClipboard.                                      *)
PollTimerFires ==
  /\ pollTimer /\ pollTimer' = FALSE /\ Free("restore")
  /\ CASE captureStage # "poll" ->
            Stay(helper, collector) /\ UNCHANGED <<captureStage, pollAttempts, saved>>
       [] captureStage = "poll" /\ pollAttempts >= MaxPolls ->
            /\ BeginRestore(FALSE, FALSE, helper, collector)
            /\ UNCHANGED <<pollAttempts, clipboardBefore>>
       [] OTHER ->
            /\ pollAttempts' = pollAttempts + 1
            /\ Await("poll", helper, collector) /\ UNCHANGED saved
  /\ UNCHANGED <<world, lost, verdict, late>>

(***************************************************************************)
(* The user.                                                               *)
(***************************************************************************)
(* cancelCapture outside a restore: captureSerial moves on, every running  *)
(* helper is asked to terminate.                                           *)
Terminated == [p \in Helpers |->
  IF p = "restore" \/ ~Running(p) THEN helper[p]
  ELSE [helper[p] EXCEPT !.killed = TRUE, !.again = FALSE, !.young = FALSE]]
Outdated == [p \in Collectors |-> Closed]

(* A clipboard that was cleared is given back before anything else.        *)
CancelCleared == BeginRestore(FALSE, TRUE, Terminated, Outdated) /\ UNCHANGED clipboardBefore
Forgotten == clipboardBefore' = "empty" /\ restoreCancelled' = FALSE /\ restoreText' = FALSE

(* The user may act: the bound on lingering processes allows one more.     *)
Calm == Free("restore") /\ Cardinality({p \in Helpers : helper[p].killed}) < MaxDying

(* Mutation: a read does not wait for the restore. *)
ReadSelectionAtOnce ==
  /\ Calm
  /\ Await("primary-types", Terminated, Outdated) /\ Forgotten
  /\ wanted' = TRUE /\ pollTimer' = FALSE
  /\ UNCHANGED <<pollAttempts, world, lost, spurious, late>>

(* readSelection: over a cleared clipboard the new read is dropped too.    *)
ReadSelection ==
  /\ captureStage # "restore" /\ Calm
  /\ pollTimer' = FALSE
  /\ wanted' = (captureStage \notin Cleared)
  /\ IF captureStage \in Cleared
       THEN CancelCleared
       ELSE Await("primary-types", Terminated, Outdated) /\ Forgotten
  /\ UNCHANGED <<pollAttempts, world, lost, spurious, late>>

(* stop *)
Stop ==
  /\ Calm
  /\ wanted' = FALSE
  /\ CASE captureStage = "restore" ->
            /\ restoreCancelled' = TRUE /\ restoreText' = FALSE
            /\ UNCHANGED <<captureStage, pollTimer, clipboardBefore, collector, helper>>
       [] captureStage \in Cleared -> CancelCleared /\ pollTimer' = FALSE
       [] OTHER -> /\ captureStage' = "idle" /\ pollTimer' = FALSE
                   /\ Stay(Terminated, Outdated) /\ Forgotten
  /\ UNCHANGED <<pollAttempts, world, lost, spurious, late>>

(***************************************************************************)
(* The world: what the helpers do, once, before they are asked to stop.    *)
(***************************************************************************)
Acts(p) ==
  /\ "exit" \in helper[p].due /\ ~helper[p].killed /\ helper[p].outcome = "missing"
  /\ helper' = [helper EXCEPT ![p].outcome = "done"]
  /\ UNCHANGED <<stage, saved, collector, was, lost, verdict, late>>

Clears == Acts("clear-clipboard") /\ clipboard' = "empty" /\ UNCHANGED copying
Sends == Acts("copy") /\ copying' = TRUE /\ UNCHANGED clipboard
Restores == Acts("restore") /\ clipboard' = clipboardBefore /\ UNCHANGED copying

(* The focused application answers the shortcut, or has nothing to copy.   *)
AppCopies ==
  /\ copying /\ copying' = FALSE
  /\ \/ (LateCopies \/ captureStage \in Polling) /\ clipboard' = "copied"
     \/ UNCHANGED clipboard
  /\ UNCHANGED <<stage, saved, collector, helper, was, lost, verdict, late>>

Next ==
  \/ ReadSelection \/ Stop \/ PollTimerFires
  \/ \E p \in Collectors, s \in {"stream", "exit"} : Signal(p, s)
  \/ \E p \in Doers : Exited(p)
  \/ Clears \/ Sends \/ Restores \/ AppCopies

Spec == Init /\ [][Next]_vars

(* The wrapper bounds every collected helper, and wl-copy and wtype end;   *)
(* the shell delivers their signals and its timer.                         *)
Fairness ==
  /\ \A p \in Collectors : WF_vars(\E s \in {"stream", "exit"} : Signal(p, s))
  /\ \A p \in Doers : WF_vars(Exited(p))
  /\ WF_vars(PollTimerFires)
FairSpec == Spec /\ Fairness

(***************************************************************************)
(* Properties.                                                             *)
(***************************************************************************)
(* The types of the variables; pollClipboard makes MaxPolls attempts.      *)
TypeOK ==
  /\ captureStage \in Stages
  /\ pollAttempts \in 0..MaxPolls /\ pollTimer \in BOOLEAN
  /\ {clipboardBefore, clipboard, was} \subseteq {"text", "copied", "empty", "rich"}
  /\ {restoreCancelled, restoreText, copying, lost, wanted, spurious, late} \subseteq BOOLEAN
  /\ collector \in [Collectors -> [open : BOOLEAN, stream : Results, exit : Results]]
  /\ \A p \in Helpers :
       helper[p] \in [due : SUBSET Signals(p), again : BOOLEAN, killed : BOOLEAN,
                      outcome : Outcomes, young : BOOLEAN]

(* Whenever a capture is over, by success, failure, refusal, timeout or a  *)
(* stop at any of its steps, the clipboard is what it was before the first *)
(* one, unless wl-copy failed to restore it: cancelCapture counts a clear  *)
(* as done from its launch, and nothing overtakes a restore.               *)
ClipboardRestored == captureStage = "idle" /\ ~lost => clipboard = was

(* After a stop no text of the canceled read is submitted to the worker    *)
(* and no notification of it is shown, however late its helpers finish:    *)
(* README.md:171-174.                                                      *)
StopIsFinal == ~spurious

(* A restore runs exactly while the capture waits for it: no newer capture *)
(* overlaps one, and no capture waits for a restore that does not run.     *)
RestoreIsExclusive == Running("restore") <=> captureStage = "restore"

(* At no moment does a canceled capture do anything but give back what it  *)
(* has taken, and nothing overlaps that.                                   *)
CaptureInv == TypeOK /\ StopIsFinal /\ RestoreIsExclusive

(* "The serial and handled flags prevent a canceled process's late         *)
(* collector/exit signals from advancing a newer capture"                  *)
(* (Service.qml:121-123).                                                  *)
NoLateAdvance == ~late

(* A clipboard that was taken is given back, or its restore has failed,    *)
(* even if the user reads and stops for ever: no such read gets ahead.     *)
ClipboardGivenBack == captureStage \in Cleared ~> captureStage = "idle"

(* Without further reads every capture ends: no helper, lost signal or     *)
(* poll that finds nothing leaves it waiting.                              *)
CaptureEnds == []<><<ReadSelection>>_vars \/ (captureStage # "idle" ~> captureStage = "idle")

(* The steps of the policy that the stages stand for.                      *)
StepOf ==
  CASE captureStage \in {"primary-types", "primary-text"} -> "primary"
    [] captureStage = "clipboard-types" -> "types"
    [] captureStage = "clipboard-text" -> "snapshot"
    [] captureStage = "clear-clipboard" -> "clear"
    [] captureStage \in {"active-window", "copy"} -> "shortcut"
    [] OTHER -> captureStage

Policy == INSTANCE CapturePolicy WITH
  PollLimit <- MaxPolls, step <- StepOf, before <- clipboardBefore,
  captured <- restoreText, polls <- IF captureStage = "poll" THEN pollAttempts ELSE 0

(* "The live QML service implements this same sequence" (capture.py): a    *)
(* capture takes the policy's steps, in its order and with what it has     *)
(* saved.  The service does two things besides: a read or a stop may       *)
(* cancel it at any step, and a clipboard that could not be cleared is     *)
(* restored too.                                                           *)
ClearFails == captureStage = "clear-clipboard" /\ captureStage' = "restore" /\ ~restoreText'
FollowsPolicy ==
  Policy!Init /\ [][Policy!Next \/ ClearFails \/ ReadSelection \/ Stop]_(Policy!policy)

-----------------------------------------------------------------------------
(* What the documentation says and the code does not always do: without    *)
(* that exception ("implements this same sequence", capture.py).           *)
ImplementsPolicy ==
  Policy!Init /\ [][Policy!Next \/ ReadSelection \/ Stop]_(Policy!policy)
=============================================================================
