----------------------------- MODULE OcrCapture -----------------------------
(***************************************************************************)
(* The OCR reads of Service.qml over the bounded runner, which it starts   *)
(* anew for each of them: readOcr, the two signals of the runner, stop,    *)
(* and what is done with the output.                                       *)
(*                                                                         *)
(* The runner's producer is bin/capture-ocr, which execs the installed     *)
(* capture of the desktop.  A runner that is canceled leaves its producer  *)
(* alone, and the model leaves it with the next capture.  Abstracted: the  *)
(* other guards of readOcr (WorkerLifecycle has them); what is recognized  *)
(* is a number of bytes.                                                   *)
(***************************************************************************)
EXTENDS BoundedCapture

CONSTANT MaxCaptures   \* a bound on the captures of a behaviour

ASSUME CapturesAssumption == MaxCaptures \in Nat

VARIABLES
  ocrBusy, ocrCancelPending,
  ocr,             \* the other fields; own: they are of the present runner
  asked, owed,     \* the runner is asked to terminate; its signals on their way
  submitted,       \* what has been given to the worker, of the present capture
  captures, wanted \* history: their number; the user waits for the present one

service == <<ocrBusy, ocrCancelPending, ocr, submitted, captures, wanted>>
ocrVars == <<vars, service, asked, owed>>

Ended == pc \in {"done", "canceled"}
Running(o) == ~Ended \/ \E s \in o : s.signal = "exited"
Fresh == [output |-> 0, streamFinished |-> FALSE, exited |-> FALSE, handled |-> FALSE,
          exitCode |-> NoCode, own |-> TRUE]

(* There is no runner: as if one had been canceled.                        *)
OcrInit ==
  /\ pc = "canceled" /\ output = 0 /\ expired = FALSE /\ result = NoCode /\ printed = FALSE
  /\ pipe = 0 /\ written = 0 /\ alive = {} /\ holders = {} /\ group = {} /\ returncode = NoCode
  /\ ocrBusy = FALSE /\ ocrCancelPending = FALSE /\ ocr = Fresh
  /\ asked = FALSE /\ owed = {} /\ submitted = NoCode
  /\ captures = 0 /\ wanted = FALSE

(***************************************************************************)
(* The runner, and what becomes of it.                                     *)
(***************************************************************************)
Signals ==
  {[signal |-> "streamFinished", output |-> IF printed' THEN output' ELSE 0,
    exitCode |-> NoCode, own |-> TRUE],
   [signal |-> "exited", output |-> 0,
    exitCode |-> IF pc' = "done" THEN result' ELSE Killed, own |-> TRUE]}

Runner ==
  /\ Wrapper \/ (asked /\ Canceled)
  /\ owed' = IF pc' \in {"done", "canceled"} THEN owed \union Signals ELSE owed
  /\ UNCHANGED <<service, asked>>

World == (Family \/ (DeadlinePasses /\ ~Ended)) /\ UNCHANGED <<service, asked, owed>>

(***************************************************************************)
(* The service.                                                            *)
(***************************************************************************)
(* A runner, at its beginning.                                             *)
StartRunner ==
  /\ pc' = "check" /\ output' = 0 /\ expired' = FALSE /\ result' = NoCode /\ printed' = FALSE
  /\ pipe' = 0 /\ written' = 0 /\ returncode' = NoCode
  /\ alive' = {Producer} /\ holders' = {Producer} /\ group' = {Producer}
  /\ asked' = FALSE

ReadOcr ==
  /\ captures < MaxCaptures
  /\ ~ocrBusy /\ ~ocrCancelPending /\ ~Running(owed)
  /\ ocrBusy' = TRUE /\ ocr' = Fresh
  /\ StartRunner
  /\ owed' = {[s EXCEPT !.own = FALSE] : s \in owed}
  /\ submitted' = NoCode /\ captures' = captures + 1 /\ wanted' = TRUE
  /\ UNCHANGED ocrCancelPending

(* Mutation: a canceled capture is over at once. *)
CancelOcrAtOnce ==
  /\ ocrBusy
  /\ ocrBusy' = FALSE /\ ocr' = [ocr EXCEPT !.handled = TRUE, !.output = 0]
  /\ asked' = ~Ended /\ wanted' = FALSE
  /\ UNCHANGED <<vars, ocrCancelPending, owed, submitted, captures>>

(* cancelOcr, by stop                                                      *)
CancelOcr ==
  /\ ocrBusy
  /\ ocrBusy' = FALSE /\ ocr' = [ocr EXCEPT !.handled = TRUE, !.output = 0]
  /\ ocrCancelPending' = ~(ocr.exited /\ ocr.streamFinished)
  /\ asked' = ~Ended /\ wanted' = FALSE
  /\ UNCHANGED <<vars, owed, submitted, captures>>

(* A text that came to a good end.                                         *)
Readable(m) == m.exitCode = 0 /\ m.output > 0

(* finishOcr, with the fields m: some texts are within the limit of        *)
(* characters and some are not.                                            *)
FinishOcr(m) ==
  IF ocrBusy /\ m.exited /\ m.streamFinished /\ ~m.handled
    THEN /\ ocrBusy' = FALSE /\ ocr' = [m EXCEPT !.handled = TRUE, !.output = 0]
         /\ submitted' \in IF Readable(m) THEN {NoCode, m.output} ELSE {NoCode}
         /\ wanted' = FALSE /\ UNCHANGED ocrCancelPending
    ELSE ocr' = m /\ UNCHANGED <<ocrBusy, ocrCancelPending, submitted, wanted>>

(* finishCancelledOcr                                                      *)
FinishCanceledOcr(m) ==
  /\ IF m.exited /\ m.streamFinished
       THEN /\ ocrCancelPending' = FALSE
            /\ ocr' = [m EXCEPT !.output = 0, !.exitCode = NoCode]
       ELSE ocr' = m /\ UNCHANGED ocrCancelPending
  /\ UNCHANGED <<ocrBusy, submitted, wanted>>

(* Mutation: a capture that was canceled is finished as any other. *)
TakeSignalAlike(m) == FinishOcr(m)

TakeSignal(m) == IF ocrCancelPending THEN FinishCanceledOcr(m) ELSE FinishOcr(m)

Deliver ==
  \E s \in owed :
    /\ owed' = owed \ {s}
    /\ LET m == [ocr EXCEPT !.own = @ /\ s.own]
       IN  TakeSignal(IF s.signal = "exited" THEN [m EXCEPT !.exited = TRUE, !.exitCode = s.exitCode]
                       ELSE [m EXCEPT !.streamFinished = TRUE, !.output = s.output])
    /\ UNCHANGED <<vars, asked, captures>>

OcrNext == Runner \/ World \/ ReadOcr \/ CancelOcr \/ Deliver

OcrSpec == OcrInit /\ [][OcrNext]_ocrVars

(* The runner runs, time passes and signals are delivered; nothing is      *)
(* assumed of the producer.                                                *)
OcrFairSpec ==
  /\ OcrSpec
  /\ WF_ocrVars(Runner) /\ WF_ocrVars(Deliver)
  /\ WF_ocrVars(DeadlinePasses /\ ~Ended /\ UNCHANGED <<service, asked, owed>>)

(***************************************************************************)
(* Properties.                                                             *)
(***************************************************************************)

(* What is read aloud is all that the capture has printed, within the cap, *)
(* and of a capture that came to a good end.                               *)
ReadIsWhole ==
  submitted # NoCode => submitted = written /\ submitted <= Cap /\ returncode = 0

(* Nothing is read of a capture that the user has stopped, wherever its    *)
(* runner and its signals were.                                            *)
StopIsHeeded == [][submitted' \notin {submitted, NoCode} => wanted]_ocrVars

(* A capture is finished by the signals of its own runner.                 *)
OutputIsOwn == ocrBusy => ocr.own

(* A text is read of the present capture, whole, and of no other.          *)
ReadIsRight == [](ReadIsWhole /\ OutputIsOwn) /\ StopIsHeeded

(* Every capture comes to an end, also one that was canceled.              *)
CapturesEnd == ocrBusy \/ ocrCancelPending ~> ~ocrBusy /\ ~ocrCancelPending
=============================================================================
