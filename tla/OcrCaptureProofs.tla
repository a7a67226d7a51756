-------------------------- MODULE OcrCaptureProofs --------------------------
(***************************************************************************)
(* Theorems about BoundedCapture, for every cap, pipe and family of        *)
(* processes, and about OcrCapture: those about a single runner hold for   *)
(* every runner that the service starts, and what is read is its own       *)
(* output.                                                                 *)
(***************************************************************************)
EXTENDS OcrCapture, TLAPS

(***************************************************************************)
(* One runner: BoundedCapture.                                             *)
(***************************************************************************)

(* How far the wrapper has come, and what it has seen by then. *)
StepInv ==
  /\ output + pipe = written
  /\ pc \in {"check", "poll", "settle", "wait"} => output <= Cap
  /\ pc \in {"settle", "wait"} => pipe = 0 /\ holders = {}
  /\ printed => pc = "done" /\ output <= Cap /\ pipe = 0

(* The code of a termination is given with its reason. *)
TerminationInv ==
  pc \in {"terminate", "grace"} =>
    /\ ~printed
    /\ \/ result = TIMEOUT_EXIT_CODE /\ expired
       \/ result = OVERFLOW_EXIT_CODE /\ written > Cap

(* A producer has a code only when it is gone, and it does not come back: *)
(* the code that was passed on is still its own. *)
ProducerInv ==
  /\ returncode # NoCode => Producer \notin alive
  /\ pc = "done" /\ (printed \/ result = PRODUCER_RESERVED_EXIT_CODE) => Producer \notin alive

IInv == TypeOK /\ StepInv /\ TerminationInv /\ ProducerInv /\ CodeIsTrue /\ GroupIsGone

(* The sizes, each by itself. *)
LEMMA Sizes == Cap \in Nat /\ MaxWritten \in Nat /\ PipeSize \in Nat \ {0} /\ NoCode \notin Nat
  BY SizesAssumption

(* What the invariants say of the wrapper. *)
LEMMA InvImplies == IInv => PrintedIsWhole
  BY Sizes DEF IInv, TypeOK, StepInv, PrintedIsWhole

(* The invariant holds at the start of a runner. *)
LEMMA InitInv == Init => IInv
<1> SUFFICES ASSUME Init PROVE IInv
  OBVIOUS
<1>1. TypeOK
  <2>1. 0 \in 0..Cap + 1 /\ 0 \in 0..PipeSize
    BY Sizes
  <2> QED
    BY <2>1, ProducerAssumption DEF Init, TypeOK
<1>2. StepInv /\ TerminationInv /\ ProducerInv
  BY Sizes DEF Init, StepInv, TerminationInv, ProducerInv
<1>3. CodeIsTrue /\ GroupIsGone
  BY DEF Init, CodeIsTrue, GroupIsGone
<1> QED
  BY <1>1, <1>2, <1>3 DEF IInv

(* A step of the wrapper preserves the invariant. *)
LEMMA WrapperStep == IInv /\ (Wrapper \/ Canceled) => IInv'
<1> SUFFICES ASSUME IInv, Wrapper \/ Canceled PROVE IInv'
  OBVIOUS
<1> USE ProducerAssumption, Sizes
    DEF IInv, TypeOK, StepInv, TerminationInv, ProducerInv, CodeIsTrue, GroupIsGone,
        TIMEOUT_EXIT_CODE, OVERFLOW_EXIT_CODE, PRODUCER_RESERVED_EXIT_CODE, Killed,
        vars, wrapper, family, Terminate
<1>1. CASE CheckDeadline
  BY <1>1 DEF CheckDeadline
<1>2. CASE ReadChunk
  <2>1. PICK k \in 1..pipe : /\ k <= Cap + 1 - output
                             /\ output' = output + k /\ pipe' = pipe - k
    BY <1>2 DEF ReadChunk
  <2>2. output' \in 0..Cap + 1 /\ pipe' \in 0..PipeSize /\ output' + pipe' = written
    BY <2>1
  <2>3. output' > Cap => written > Cap
    <3>1. output' \in Nat /\ pipe' \in Nat /\ Cap \in Nat /\ output' + pipe' = written
      BY ONLY <2>2, Sizes
    <3> QED
      BY ONLY <3>1
  <2>4. CASE output' > Cap
    BY <1>2, <2>2, <2>3, <2>4 DEF ReadChunk
  <2>5. CASE ~(output' > Cap)
    BY <1>2, <2>2, <2>5 DEF ReadChunk
  <2> QED
    BY <2>4, <2>5
<1>3. CASE EndOfFile
  BY <1>3 DEF EndOfFile
<1>4. CASE PollTimesOut
  BY <1>4 DEF PollTimesOut
<1>5. CASE Settle
  BY <1>5 DEF Settle
<1>6. CASE ProducerEnded
  <2>1. CASE returncode \in {TIMEOUT_EXIT_CODE, OVERFLOW_EXIT_CODE}
    BY <1>6, <2>1 DEF ProducerEnded
  <2>2. CASE returncode \notin {TIMEOUT_EXIT_CODE, OVERFLOW_EXIT_CODE}
    BY <1>6, <2>2 DEF ProducerEnded
  <2> QED
    BY <2>1, <2>2
<1>7. CASE WaitTimesOut
  BY <1>7 DEF WaitTimesOut
<1>8. CASE SendTerm
  BY <1>8 DEF SendTerm, End
<1>9. CASE SendKill
  BY <1>9 DEF SendKill, End
<1>10. CASE Canceled
  BY <1>10 DEF Canceled
<1> QED
  BY <1>1, <1>2, <1>3, <1>4, <1>5, <1>6, <1>7, <1>8, <1>9, <1>10 DEF Wrapper

(* So does whatever the producer and its descendants do. *)
LEMMA FamilyStep == IInv /\ (Family \/ DeadlinePasses) => IInv'
<1> SUFFICES ASSUME IInv, Family \/ DeadlinePasses PROVE IInv'
  OBVIOUS
<1> USE ProducerAssumption, Sizes
    DEF IInv, TypeOK, StepInv, TerminationInv, ProducerInv, CodeIsTrue, GroupIsGone,
        TIMEOUT_EXIT_CODE, OVERFLOW_EXIT_CODE, PRODUCER_RESERVED_EXIT_CODE, Killed,
        wrapper, family, unchangedByFamily
<1>1. CASE WriteOutput
  <2>1. PICK k \in 1..PipeSize : /\ pipe + k <= PipeSize
                                 /\ pipe' = pipe + k /\ written' = written + k
    BY <1>1 DEF WriteOutput
  <2>2. pc \notin {"settle", "wait", "done"}
    BY <1>1 DEF WriteOutput
  <2> QED
    BY <1>1, <2>1, <2>2 DEF WriteOutput
<1>2. CASE Fork
  <2>1. PICK p \in alive, q \in Processes \ (alive \union {Producer}) :
          /\ alive' = alive \union {q}
          /\ holders' = IF p \in holders THEN holders \union {q} ELSE holders
          /\ group' = IF p \in group THEN group \union {q} ELSE group \ {q}
          /\ UNCHANGED <<pipe, written, returncode, unchangedByFamily>>
    BY <1>2 DEF Fork
  <2>2. group \cap alive = {} => group' \cap alive' = {}
    BY <2>1
  <2>3. Producer \notin alive => Producer \notin alive'
    BY <2>1
  <2>4. holders = {} => holders' = {}
    BY <2>1
  <2> QED
    BY <2>1, <2>2, <2>3, <2>4
<1>3. CASE LeaveGroup
  BY <1>3 DEF LeaveGroup
<1>4. CASE CloseOutput
  BY <1>4 DEF CloseOutput
<1>5. CASE ProcessEnds
  <2>1. PICK p \in alive :
          /\ alive' = alive \ {p} /\ holders' = holders \ {p}
          /\ IF p = Producer THEN returncode' \in ExitCodes ELSE UNCHANGED returncode
          /\ UNCHANGED <<pipe, written, group, unchangedByFamily>>
    BY <1>5 DEF ProcessEnds
  <2>2. p = Producer =>
          ~(pc = "done" /\ (printed \/ result = PRODUCER_RESERVED_EXIT_CODE))
    BY <2>1
  <2>3. CASE p = Producer
    <3>1. returncode' \in Nat
      BY <2>1, <2>3, SizesAssumption
    <3> QED
      BY <2>1, <2>2, <2>3, <3>1
  <2>4. CASE p # Producer
    BY <2>1, <2>4
  <2> QED
    BY <2>3, <2>4
<1>6. CASE DeadlinePasses
  BY <1>6 DEF DeadlinePasses
<1> QED
  BY <1>1, <1>2, <1>3, <1>4, <1>5, <1>6 DEF Family

(* The invariant holds throughout. *)
LEMMA InvHolds == Spec => []IInv
<1>1. IInv /\ [Next]_vars => IInv'
  <2>1. IInv /\ UNCHANGED vars => IInv'
    BY DEF IInv, TypeOK, StepInv, TerminationInv, ProducerInv, CodeIsTrue, GroupIsGone,
           vars, wrapper, family
  <2> QED
    BY <2>1, WrapperStep, FamilyStep DEF Next
<1> QED
  BY <1>1, InitInv, PTL DEF Spec

(* The wrapper never holds more than one byte above the cap. *)
THEOREM TypeCorrect == Spec => []TypeOK
  BY InvHolds, PTL DEF IInv

(* bounded_run prints all of an output, that of descendants too, or nothing. *)
THEOREM WholeSafe == Spec => []PrintedIsWhole
  BY InvHolds, InvImplies, PTL

(* The exit code of the wrapper says what has happened. *)
THEOREM CodeSafe == Spec => []CodeIsTrue
  BY InvHolds, PTL DEF IInv

(* Nobody of a process group that was cut off is left. *)
THEOREM GroupSafe == Spec => []GroupIsGone
  BY InvHolds, PTL DEF IInv

(* What a runner guarantees: the four together. *)
THEOREM RunnerSafe == Spec => []RunnerInv
  BY TypeCorrect, WholeSafe, CodeSafe, GroupSafe, PTL DEF RunnerInv

(***************************************************************************)
(* The runners of the service: OcrCapture.                                 *)
(***************************************************************************)

(* The two signals of a runner that has ended. *)
StreamSignal == [signal |-> "streamFinished", output |-> IF printed THEN output ELSE 0,
                 exitCode |-> NoCode, own |-> TRUE]
ExitSignal == [signal |-> "exited", output |-> 0,
               exitCode |-> IF pc = "done" THEN result ELSE Killed, own |-> TRUE]

Codes == Nat \union {NoCode}
FieldType ==
  /\ ocrBusy \in BOOLEAN /\ ocrCancelPending \in BOOLEAN /\ wanted \in BOOLEAN
  /\ ocr \in [output : Nat, streamFinished : BOOLEAN, exited : BOOLEAN, handled : BOOLEAN,
              exitCode : Codes, own : BOOLEAN]

(* Each signal is on its way or has come, and when the service is neither *)
(* busy nor canceling both have. *)
SignalInv ==
  /\ owed \subseteq {StreamSignal, ExitSignal}
  /\ ~Ended => owed = {} /\ ~ocr.exited /\ ~ocr.streamFinished
  /\ ocr.streamFinished => StreamSignal \notin owed
  /\ ocr.exited => ExitSignal \notin owed
  /\ (ocr.streamFinished /\ ocr.exited) \/ ocrBusy \/ ocrCancelPending \/ (Ended /\ owed = {})

(* What has come is what the runner has left. *)
FieldInv ==
  /\ ocr.own
  /\ ocrBusy <=> wanted
  /\ ocrBusy => ~ocrCancelPending /\ ~ocr.handled /\ submitted = NoCode
  /\ ocrBusy => ocr.output = IF ocr.streamFinished THEN StreamSignal.output ELSE 0
  /\ ocrBusy /\ ocr.exited => ocr.exitCode = ExitSignal.exitCode

ReadInv == ReadIsWhole /\ (submitted # NoCode => Ended)

OcrInv == IInv /\ FieldType /\ SignalInv /\ FieldInv /\ ReadInv

(* There is no runner at first. *)
LEMMA OcrInitInv == OcrInit => OcrInv
<1> SUFFICES ASSUME OcrInit PROVE OcrInv
  OBVIOUS
<1>1. TypeOK
  <2>1. 0 \in 0..Cap + 1 /\ 0 \in 0..PipeSize
    BY Sizes
  <2> QED
    BY <2>1 DEF OcrInit, TypeOK
<1>2. StepInv /\ TerminationInv /\ ProducerInv
  BY Sizes DEF OcrInit, StepInv, TerminationInv, ProducerInv
<1>3. CodeIsTrue /\ GroupIsGone
  BY DEF OcrInit, CodeIsTrue, GroupIsGone
<1>4. FieldType /\ FieldInv
  BY DEF OcrInit, FieldType, FieldInv, Fresh, Codes
<1>5. SignalInv /\ ReadInv
  BY DEF OcrInit, SignalInv, ReadInv, ReadIsWhole, Ended, Fresh
<1> QED
  BY <1>1, <1>2, <1>3, <1>4, <1>5 DEF OcrInv, IInv

(* A runner that the service starts is one at its beginning. *)
LEMMA StartInv == StartRunner => IInv'
<1> SUFFICES ASSUME StartRunner PROVE IInv'
  OBVIOUS
<1>1. TypeOK'
  <2>1. 0 \in 0..Cap + 1 /\ 0 \in 0..PipeSize
    BY Sizes
  <2> QED
    BY <2>1, ProducerAssumption DEF StartRunner, TypeOK
<1>2. (StepInv /\ TerminationInv /\ ProducerInv)'
  BY Sizes DEF StartRunner, StepInv, TerminationInv, ProducerInv
<1>3. (CodeIsTrue /\ GroupIsGone)'
  BY DEF StartRunner, CodeIsTrue, GroupIsGone
<1> QED
  BY <1>1, <1>2, <1>3 DEF IInv

(* A text that came to a good end is the whole output. *)
LEMMA GoodEnd ==
  ASSUME OcrInv, Ended, printed, pc = "done", result = 0
  PROVE  output = written /\ output <= Cap /\ returncode = 0
<1>1. PrintedIsWhole
  BY InvImplies DEF OcrInv
<1> QED
  BY <1>1 DEF OcrInv, IInv, CodeIsTrue, PrintedIsWhole, TIMEOUT_EXIT_CODE, OVERFLOW_EXIT_CODE,
              PRODUCER_RESERVED_EXIT_CODE

(* Steps of the runner leave the fields of the service alone, and its end *)
(* puts both signals on their way. *)
LEMMA RunnerStep == OcrInv /\ Runner => OcrInv'
<1> SUFFICES ASSUME OcrInv, Runner PROVE OcrInv'
  OBVIOUS
<1>1. IInv'
  BY WrapperStep DEF Runner, OcrInv
<1>2. ~Ended
  BY DEF Runner, Ended, Wrapper, Canceled, CheckDeadline, ReadChunk, EndOfFile, PollTimesOut,
         Settle, ProducerEnded, WaitTimesOut, SendTerm, SendKill
<1>3. owed = {} /\ ~ocr.exited /\ ~ocr.streamFinished /\ submitted = NoCode
  BY <1>2 DEF OcrInv, SignalInv, ReadInv
<1>4. UNCHANGED <<ocrBusy, ocrCancelPending, ocr, submitted, captures, wanted>>
  BY DEF Runner, service
<1>5. FieldType' /\ ReadInv'
  BY <1>3, <1>4 DEF OcrInv, FieldType, ReadInv, ReadIsWhole
<1>6. FieldInv'
  BY <1>3, <1>4 DEF OcrInv, FieldInv
<1>7. SignalInv'
  <2>1. owed' \subseteq {StreamSignal, ExitSignal}'
    BY <1>3 DEF Runner, Signals, StreamSignal, ExitSignal
  <2>2. ~Ended' => owed' = {}
    BY <1>3 DEF Runner, Ended
  <2>3. ocrBusy \/ ocrCancelPending
    BY <1>2, <1>3 DEF OcrInv, SignalInv
  <2> QED
    BY <1>3, <1>4, <2>1, <2>2, <2>3 DEF SignalInv
<1> QED
  BY <1>1, <1>5, <1>6, <1>7 DEF OcrInv

(* What the producer and its descendants do, and the time that passes, is *)
(* nothing to the service. *)
LEMMA WorldStep == OcrInv /\ World => OcrInv'
<1> SUFFICES ASSUME OcrInv, World PROVE OcrInv'
  OBVIOUS
<1>1. IInv'
  BY FamilyStep DEF World, OcrInv
<1>2. UNCHANGED <<wrapper, ocrBusy, ocrCancelPending, ocr, submitted, captures, wanted, owed>>
  BY DEF World, service, Family, WriteOutput, Fork, LeaveGroup, CloseOutput, ProcessEnds,
         DeadlinePasses, unchangedByFamily
<1>3. (Ended' <=> Ended) /\ StreamSignal' = StreamSignal /\ ExitSignal' = ExitSignal
  BY <1>2 DEF wrapper, Ended, StreamSignal, ExitSignal
<1>4. FieldType' /\ FieldInv' /\ SignalInv'
  BY <1>2, <1>3 DEF OcrInv, FieldType, FieldInv, SignalInv
<1>5. ReadInv'
  <2> SUFFICES ASSUME submitted # NoCode
               PROVE  UNCHANGED <<written, returncode>>
    BY <1>2, <1>3 DEF OcrInv, ReadInv, ReadIsWhole
  <2>1. Ended /\ returncode = 0
    BY DEF OcrInv, ReadInv, ReadIsWhole
  <2>2. Producer \notin alive
    BY <2>1, Sizes DEF OcrInv, IInv, ProducerInv
  <2> QED
    BY <2>1, <2>2 DEF World, Ended, Family, WriteOutput, Fork, LeaveGroup, CloseOutput,
                      ProcessEnds, DeadlinePasses, family
<1> QED
  BY <1>1, <1>4, <1>5 DEF OcrInv

(* readOcr begins when nothing is left of the capture before. *)
LEMMA ReadOcrStep == OcrInv /\ ReadOcr => OcrInv'
<1> SUFFICES ASSUME OcrInv, ReadOcr PROVE OcrInv'
  OBVIOUS
<1>1. IInv'
  BY StartInv DEF ReadOcr
<1>2. owed = {}
  <2>1. Ended /\ ExitSignal \notin owed
    BY DEF ReadOcr, Running, ExitSignal
  <2> QED
    BY <2>1 DEF OcrInv, SignalInv, ReadOcr
<1>3. FieldType' /\ FieldInv'
  BY DEF ReadOcr, FieldType, FieldInv, Fresh, Codes, OcrInv
<1>4. SignalInv' /\ ReadInv'
  BY <1>2 DEF ReadOcr, StartRunner, SignalInv, ReadInv, ReadIsWhole, Ended, Fresh
<1> QED
  BY <1>1, <1>3, <1>4 DEF OcrInv

(* cancelOcr waits for the signals that have not come. *)
LEMMA CancelOcrStep == OcrInv /\ CancelOcr => OcrInv'
<1> SUFFICES ASSUME OcrInv, CancelOcr PROVE OcrInv'
  OBVIOUS
<1>1. UNCHANGED <<pc, output, result, printed, written, returncode, owed, submitted>> /\ IInv'
  <2>1. UNCHANGED vars
    BY DEF CancelOcr
  <2> QED
    BY <2>1 DEF CancelOcr, OcrInv, vars, wrapper, family, IInv, TypeOK, StepInv, TerminationInv,
                ProducerInv, CodeIsTrue, GroupIsGone
<1>2. (Ended' <=> Ended) /\ StreamSignal' = StreamSignal /\ ExitSignal' = ExitSignal
  BY <1>1 DEF Ended, StreamSignal, ExitSignal
<1>3. FieldType' /\ FieldInv'
  BY <1>1 DEF CancelOcr, OcrInv, FieldType, FieldInv
<1>4. SignalInv' /\ ReadInv'
  BY <1>1, <1>2 DEF CancelOcr, OcrInv, FieldType, SignalInv, ReadInv, ReadIsWhole
<1> QED
  BY <1>1, <1>3, <1>4 DEF OcrInv

(* A signal that comes is believed of the capture that is under way, and a *)
(* capture that was canceled is over with the second of them. *)
LEMMA DeliverStep == OcrInv /\ Deliver => OcrInv'
<1> SUFFICES ASSUME OcrInv, Deliver PROVE OcrInv'
  OBVIOUS
<1>1. UNCHANGED <<pc, output, result, printed, written, returncode>> /\ IInv'
  <2>1. UNCHANGED vars
    BY DEF Deliver
  <2> QED
    BY <2>1 DEF OcrInv, vars, wrapper, family, IInv, TypeOK, StepInv, TerminationInv,
                ProducerInv, CodeIsTrue, GroupIsGone
<1>2. (Ended' <=> Ended) /\ StreamSignal' = StreamSignal /\ ExitSignal' = ExitSignal
  BY <1>1 DEF Ended, StreamSignal, ExitSignal
<1>3. PICK s \in owed :
        /\ owed' = owed \ {s}
        /\ LET m == [ocr EXCEPT !.own = @ /\ s.own]
           IN  TakeSignal(IF s.signal = "exited"
                            THEN [m EXCEPT !.exited = TRUE, !.exitCode = s.exitCode]
                            ELSE [m EXCEPT !.streamFinished = TRUE, !.output = s.output])
  BY DEF Deliver
<1>4. Ended /\ s \in {StreamSignal, ExitSignal}
  BY DEF OcrInv, SignalInv
<1>5. StreamSignal.output \in Nat /\ ExitSignal.exitCode \in Codes /\ ExitSignal # StreamSignal
  <2>1. output \in Nat /\ result \in Codes /\ Killed \in Codes
    BY Sizes DEF OcrInv, IInv, TypeOK, Codes, Killed
  <2>2. ExitSignal.signal # StreamSignal.signal
    BY DEF StreamSignal, ExitSignal
  <2> QED
    BY <2>1, <2>2 DEF StreamSignal, ExitSignal
<1> DEFINE M == IF s = ExitSignal
                  THEN [ocr EXCEPT !.exited = TRUE, !.exitCode = ExitSignal.exitCode]
                  ELSE [ocr EXCEPT !.streamFinished = TRUE, !.output = StreamSignal.output]
<1>6. TakeSignal(M)
  <2>1. s.own /\ (s.signal = "exited" <=> s = ExitSignal) /\ (s # ExitSignal => s = StreamSignal)
    BY <1>4 DEF StreamSignal, ExitSignal
  <2>2. [ocr EXCEPT !.own = @ /\ s.own] = ocr
    BY <2>1 DEF OcrInv, FieldType, FieldInv
  <2> QED
    BY <1>3, <2>1, <2>2
<1>7. /\ M \in [output : Nat, streamFinished : BOOLEAN, exited : BOOLEAN, handled : BOOLEAN,
                exitCode : Codes, own : BOOLEAN]
      /\ M.own /\ M.handled = ocr.handled
      /\ M.exited <=> ocr.exited \/ s = ExitSignal
      /\ M.streamFinished <=> ocr.streamFinished \/ s = StreamSignal
      /\ ocrBusy => M.output = IF M.streamFinished THEN StreamSignal.output ELSE 0
      /\ ocrBusy /\ M.exited => M.exitCode = ExitSignal.exitCode
  <2>1. CASE s = ExitSignal
    <3>1. M = [ocr EXCEPT !.exited = TRUE, !.exitCode = ExitSignal.exitCode]
      BY <2>1
    <3> HIDE DEF M
    <3> QED
      BY <1>5, <2>1, <3>1 DEF OcrInv, FieldType, FieldInv
  <2>2. CASE s # ExitSignal
    <3>1. M = [ocr EXCEPT !.streamFinished = TRUE, !.output = StreamSignal.output]
      BY <2>2
    <3> HIDE DEF M
    <3> QED
      BY <1>4, <1>5, <2>2, <3>1 DEF OcrInv, FieldType, FieldInv
  <2> QED
    BY <2>1, <2>2
<1> HIDE DEF M
<1>8. CASE ocrCancelPending
  <2>1. FinishCanceledOcr(M) /\ ~ocrBusy
    BY <1>6, <1>8 DEF TakeSignal, OcrInv, FieldInv
  <2>2. FieldType' /\ FieldInv'
    <3>1. UNCHANGED <<ocrBusy, submitted, wanted>> /\ ocrCancelPending' \in BOOLEAN
      BY <2>1 DEF FinishCanceledOcr, OcrInv, FieldType
    <3>2. ocr' \in {M, [M EXCEPT !.output = 0, !.exitCode = NoCode]}
      BY <2>1 DEF FinishCanceledOcr
    <3>3. NoCode \in Codes
      BY DEF Codes
    <3>4. /\ ocr' \in [output : Nat, streamFinished : BOOLEAN, exited : BOOLEAN,
                       handled : BOOLEAN, exitCode : Codes, own : BOOLEAN]
          /\ ocr'.own
      <4>1. CASE ocr' = M
        BY <1>7, <4>1
      <4>2. CASE ocr' = [M EXCEPT !.output = 0, !.exitCode = NoCode]
        <5>1. 0 \in Nat
          OBVIOUS
        <5> QED
          BY <1>7, <3>3, <4>2, <5>1
      <4> QED
        BY <3>2, <4>1, <4>2
    <3> QED
      BY <2>1, <3>1, <3>4 DEF OcrInv, FieldType, FieldInv
  <2>3. SignalInv' /\ ReadInv'
    <3>1. CASE M.exited /\ M.streamFinished
      BY <1>1, <1>2, <1>3, <1>4, <1>7, <1>8, <2>1, <3>1
      DEF FinishCanceledOcr, OcrInv, SignalInv, ReadInv, ReadIsWhole
    <3>2. CASE ~(M.exited /\ M.streamFinished)
      BY <1>1, <1>2, <1>3, <1>4, <1>7, <1>8, <2>1, <3>2
      DEF FinishCanceledOcr, OcrInv, SignalInv, ReadInv, ReadIsWhole
    <3> QED
      BY <3>1, <3>2
  <2> QED
    BY <1>1, <2>2, <2>3 DEF OcrInv
<1>9. CASE ~ocrCancelPending
  <2>1. FinishOcr(M)
    BY <1>6, <1>9 DEF TakeSignal
  <2>2. CASE ocrBusy /\ M.exited /\ M.streamFinished /\ ~M.handled
    <3>1. /\ ocrBusy' = FALSE /\ ocr' = [M EXCEPT !.handled = TRUE, !.output = 0]
          /\ submitted' \in IF Readable(M) THEN {NoCode, M.output} ELSE {NoCode}
          /\ wanted' = FALSE /\ ocrCancelPending' = FALSE
      BY <1>9, <2>1, <2>2 DEF FinishOcr, OcrInv, FieldType
    <3>2. FieldType' /\ FieldInv'
      BY <1>7, <3>1 DEF FieldType, FieldInv
    <3>3. SignalInv'
      BY <1>2, <1>3, <1>4, <1>7, <2>2, <3>1 DEF OcrInv, SignalInv
    <3>4. ReadInv'
      <4> SUFFICES ASSUME submitted' # NoCode
                   PROVE  submitted' = written /\ submitted' <= Cap /\ returncode = 0
        BY <1>1, <1>2, <1>4 DEF ReadInv, ReadIsWhole
      <4>1. M.exitCode = 0 /\ M.output > 0 /\ submitted' = M.output
        BY <3>1 DEF Readable
      <4>2. ExitSignal.exitCode = 0 /\ StreamSignal.output > 0 /\ submitted' = StreamSignal.output
        BY <1>7, <2>2, <4>1
      <4>3. pc = "done" /\ result = 0
        BY <4>2 DEF ExitSignal, Killed
      <4>4. printed /\ submitted' = output
        BY <4>2 DEF StreamSignal
      <4> QED
        BY <1>4, <4>3, <4>4, GoodEnd
    <3> QED
      BY <1>1, <3>2, <3>3, <3>4 DEF OcrInv
  <2>3. CASE ~(ocrBusy /\ M.exited /\ M.streamFinished /\ ~M.handled)
    <3>1. ocr' = M /\ UNCHANGED <<ocrBusy, ocrCancelPending, submitted, wanted>>
      BY <2>1, <2>3 DEF FinishOcr
    <3>2. FieldType' /\ FieldInv'
      BY <1>2, <1>7, <3>1 DEF OcrInv, FieldType, FieldInv
    <3>3. SignalInv' /\ ReadInv'
      BY <1>1, <1>2, <1>3, <1>4, <1>7, <2>3, <3>1
      DEF OcrInv, FieldInv, SignalInv, ReadInv, ReadIsWhole
    <3> QED
      BY <1>1, <3>2, <3>3 DEF OcrInv
  <2> QED
    BY <2>2, <2>3
<1> QED
  BY <1>8, <1>9

(* The invariant holds throughout. *)
LEMMA OcrInvHolds == OcrSpec => []OcrInv
<1>1. OcrInv /\ [OcrNext]_ocrVars => OcrInv'
  <2>1. OcrInv /\ UNCHANGED ocrVars => OcrInv'
    BY DEF OcrInv, IInv, TypeOK, StepInv, TerminationInv, ProducerInv, CodeIsTrue, GroupIsGone,
           FieldType, SignalInv, FieldInv, ReadInv, ReadIsWhole, Ended, StreamSignal, ExitSignal,
           ocrVars, service, vars, wrapper, family
  <2> QED
    BY <2>1, RunnerStep, WorldStep, ReadOcrStep, CancelOcrStep, DeliverStep DEF OcrNext
<1> QED
  BY <1>1, OcrInitInv, PTL DEF OcrSpec

(* Every runner that the service starts keeps what one guarantees. *)
THEOREM EveryRunnerSafe == OcrSpec => []RunnerInv
<1>1. OcrInv => RunnerInv
  BY InvImplies DEF OcrInv, IInv, RunnerInv
<1> QED
  BY <1>1, OcrInvHolds, PTL

(* finishOcr reads the whole output of a capture that came to a good end. *)
THEOREM ReadSafe == OcrSpec => []ReadIsWhole
<1>1. OcrInv => ReadIsWhole
  BY DEF OcrInv, ReadInv
<1> QED
  BY <1>1, OcrInvHolds, PTL

(* A capture is finished by the signals of its own process. *)
THEOREM OwnSafe == OcrSpec => []OutputIsOwn
<1>1. OcrInv => OutputIsOwn
  BY DEF OcrInv, FieldInv, OutputIsOwn
<1> QED
  BY <1>1, OcrInvHolds, PTL

(* Nothing is read of a capture that the user has stopped. *)
THEOREM StopSafe == OcrSpec => StopIsHeeded
<1>1. OcrInv /\ [OcrNext]_ocrVars => [submitted' \notin {submitted, NoCode} => wanted]_ocrVars
  <2> SUFFICES ASSUME OcrInv, OcrNext, submitted' \notin {submitted, NoCode} PROVE wanted
    BY DEF ocrVars, service
  <2>1. Deliver
    BY DEF OcrNext, Runner, World, ReadOcr, CancelOcr, service
  <2>2. ocrBusy
    BY <2>1 DEF Deliver, TakeSignal, FinishOcr, FinishCanceledOcr
  <2> QED
    BY <2>2 DEF OcrInv, FieldInv
<1> QED
  BY <1>1, OcrInvHolds, PTL DEF OcrSpec, StopIsHeeded

(* What is read is right: the three together, over any number of captures. *)
THEOREM ReadRight == OcrSpec => ReadIsRight
  BY ReadSafe, OwnSafe, StopSafe, PTL DEF ReadIsRight
=============================================================================
