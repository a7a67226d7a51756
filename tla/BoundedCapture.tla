--------------------------- MODULE BoundedCapture ---------------------------
(***************************************************************************)
(* share/bounded_capture.py: a wrapper that runs a producer in a process   *)
(* group of its own, collects at most so much of its output, for at most   *)
(* so long, and prints that only when it is all there is.                  *)
(*                                                                         *)
(* The producer may start descendants, which inherit the pipe, may leave   *)
(* the group, and may outlive it.  An output is the number of its bytes,   *)
(* which arrive in order.  Abstracted: the arguments; a process that even  *)
(* SIGKILL does not end; a producer that cannot be started (127).          *)
(***************************************************************************)
EXTENDS Naturals, FiniteSets

CONSTANTS Processes, Producer,
          Cap,
          PipeSize,      \* what the pipe holds
          MaxWritten,    \* a bound on what the producer and its like write
          ExitCodes,     \* of a producer
          NoCode

ASSUME ProducerAssumption == Producer \in Processes
ASSUME SizesAssumption ==
  /\ {Cap, MaxWritten} \subseteq Nat /\ PipeSize \in Nat \ {0}
  /\ ExitCodes \subseteq Nat /\ NoCode \notin Nat

VARIABLES
  pc, output,              \* the wrapper: its step, and how much it has read
  expired,                 \* the deadline has passed
  result, printed,         \* its exit code, and whether it wrote its output
  pipe, written,           \* bytes in the pipe; history: all that were written
  alive, holders, group,   \* processes; those with the pipe; those of the group
  returncode               \* the producer's, once it has ended

wrapper == <<pc, output, result, printed>>
family == <<pipe, written, alive, holders, group, returncode>>
vars == <<wrapper, expired, family>>

TIMEOUT_EXIT_CODE == 124
OVERFLOW_EXIT_CODE == 125
PRODUCER_RESERVED_EXIT_CODE == 123
Killed == 255     \* what the shell sees of a producer that a signal ended

Init ==
  /\ pc = "check" /\ output = 0 /\ expired = FALSE
  /\ result = NoCode /\ printed = FALSE
  /\ pipe = 0 /\ written = 0
  /\ alive = {Producer} /\ holders = {Producer} /\ group = {Producer}
  /\ returncode = NoCode

(***************************************************************************)
(* The wrapper.  Terminate has the code that it will return.               *)
(***************************************************************************)
Terminate(code) == pc' = "terminate" /\ result' = code

CheckDeadline ==
  /\ pc = "check"
  /\ IF expired THEN Terminate(TIMEOUT_EXIT_CODE) ELSE pc' = "poll" /\ UNCHANGED result
  /\ UNCHANGED <<output, printed, expired, family>>

(* One byte more than the cap is asked for.                                *)
ReadChunk ==
  /\ pc = "poll" /\ pipe > 0
  /\ \E k \in 1..pipe :
       /\ k <= Cap + 1 - output
       /\ output' = output + k /\ pipe' = pipe - k
  /\ IF output' > Cap THEN Terminate(OVERFLOW_EXIT_CODE)
                      ELSE pc' = "check" /\ UNCHANGED result
  /\ UNCHANGED <<printed, expired, written, alive, holders, group, returncode>>

(* Mutation: the end of the producer is the end of its output. *)
EndOfProducer ==
  /\ pc = "poll" /\ pipe = 0 /\ Producer \notin alive
  /\ pc' = "settle"
  /\ UNCHANGED <<output, result, printed, expired, family>>

EndOfFile ==
  /\ pc = "poll" /\ pipe = 0 /\ holders = {}
  /\ pc' = "settle"
  /\ UNCHANGED <<output, result, printed, expired, family>>

PollTimesOut ==
  /\ pc = "poll" /\ expired /\ pipe = 0 /\ holders # {}
  /\ Terminate(TIMEOUT_EXIT_CODE)
  /\ UNCHANGED <<output, printed, expired, family>>

(* The output is complete: the producer has the rest of the time to end.   *)
Settle ==
  /\ pc = "settle"
  /\ IF expired THEN Terminate(TIMEOUT_EXIT_CODE) ELSE pc' = "wait" /\ UNCHANGED result
  /\ UNCHANGED <<output, printed, expired, family>>

ProducerEnded ==
  /\ pc = "wait" /\ Producer \notin alive
  /\ pc' = "done"
  /\ IF returncode \in {TIMEOUT_EXIT_CODE, OVERFLOW_EXIT_CODE}
       THEN result' = PRODUCER_RESERVED_EXIT_CODE /\ UNCHANGED printed
       ELSE result' = returncode /\ printed' = TRUE
  /\ UNCHANGED <<output, expired, family>>

WaitTimesOut ==
  /\ pc = "wait" /\ expired /\ Producer \in alive
  /\ Terminate(TIMEOUT_EXIT_CODE)
  /\ UNCHANGED <<output, printed, expired, family>>

(* The processes of D end; the producer, if it does, as signals end it.    *)
End(D) ==
  /\ alive' = alive \ D
  /\ holders' = holders \ D
  /\ returncode' = IF Producer \in D \cap alive THEN Killed ELSE returncode

(* _terminate_process_group: SIGTERM, which a process may ignore, ...      *)
SendTerm ==
  /\ pc = "terminate"
  /\ pc' = "grace"
  /\ \E D \in SUBSET (group \cap alive) : End(D)
  /\ UNCHANGED <<output, result, printed, expired, pipe, written, group>>

(* ... and SIGKILL after the grace period, to all that is left.            *)
SendKill ==
  /\ pc = "grace"
  /\ pc' = "done"
  /\ End(group)
  /\ UNCHANGED <<output, result, printed, expired, pipe, written, group>>

(* The service cancels: SIGTERM ends the wrapper, not the group.           *)
Canceled ==
  /\ pc \notin {"done", "canceled"}
  /\ pc' = "canceled"
  /\ UNCHANGED <<output, result, printed, expired, family>>

(***************************************************************************)
(* The producer, its descendants, and time.                                *)
(***************************************************************************)
unchangedByFamily == <<wrapper, expired>>

WriteOutput ==
  /\ holders # {} /\ pc \notin {"done", "canceled"}
  /\ \E k \in 1..PipeSize :
       /\ pipe + k <= PipeSize /\ written + k <= MaxWritten
       /\ pipe' = pipe + k /\ written' = written + k
  /\ UNCHANGED <<alive, holders, group, returncode, unchangedByFamily>>

Fork ==
  \E p \in alive, q \in Processes \ (alive \union {Producer}) :
    /\ alive' = alive \union {q}
    /\ holders' = IF p \in holders THEN holders \union {q} ELSE holders
    /\ group' = IF p \in group THEN group \union {q} ELSE group \ {q}
    /\ UNCHANGED <<pipe, written, returncode, unchangedByFamily>>

(* A descendant starts a session of its own; the producer already has one. *)
LeaveGroup ==
  \E p \in (alive \cap group) \ {Producer} :
    /\ group' = group \ {p}
    /\ UNCHANGED <<pipe, written, alive, holders, returncode, unchangedByFamily>>

CloseOutput ==
  \E p \in holders :
    /\ holders' = holders \ {p}
    /\ UNCHANGED <<pipe, written, alive, group, returncode, unchangedByFamily>>

ProcessEnds ==
  \E p \in alive :
    /\ alive' = alive \ {p} /\ holders' = holders \ {p}
    /\ IF p = Producer THEN returncode' \in ExitCodes ELSE UNCHANGED returncode
    /\ UNCHANGED <<pipe, written, group, unchangedByFamily>>

DeadlinePasses ==
  /\ ~expired /\ expired' = TRUE
  /\ UNCHANGED <<wrapper, family>>

Wrapper ==
  \/ CheckDeadline \/ ReadChunk \/ EndOfFile \/ PollTimesOut \/ Settle
  \/ ProducerEnded \/ WaitTimesOut \/ SendTerm \/ SendKill
Family == WriteOutput \/ Fork \/ LeaveGroup \/ CloseOutput \/ ProcessEnds

Next == Wrapper \/ Canceled \/ Family \/ DeadlinePasses

Spec == Init /\ [][Next]_vars

(***************************************************************************)
(* Properties.                                                             *)
(***************************************************************************)

(* Every variable has its type, and no more than one byte above the cap is *)
(* ever held.                                                              *)
TypeOK ==
  /\ pc \in {"check", "poll", "settle", "wait", "terminate", "grace", "done", "canceled"}
  /\ output \in 0..Cap + 1 /\ written \in Nat /\ pipe \in 0..PipeSize
  /\ expired \in BOOLEAN /\ printed \in BOOLEAN
  /\ result \in Nat \union {NoCode} /\ returncode \in Nat \union {NoCode}
  /\ alive \subseteq Processes /\ holders \subseteq alive /\ group \subseteq Processes

(* What is printed is the whole output, that of descendants too, and within the *)
(* cap: never what had come by the time that something else ended.         *)
PrintedIsWhole ==
  printed => output = written /\ output <= Cap

(* The exit code says what happened, and nothing is printed with one that  *)
(* the wrapper gives of its own.                                           *)
CodeIsTrue ==
  pc = "done" =>
    \/ result = TIMEOUT_EXIT_CODE /\ expired /\ ~printed
    \/ result = OVERFLOW_EXIT_CODE /\ written > Cap /\ ~printed
    \/ /\ result = PRODUCER_RESERVED_EXIT_CODE /\ ~printed
       /\ returncode \in {TIMEOUT_EXIT_CODE, OVERFLOW_EXIT_CODE}
    \/ /\ result = returncode /\ printed
       /\ returncode \notin {TIMEOUT_EXIT_CODE, OVERFLOW_EXIT_CODE}

(* When a producer was cut off, nobody of its group is left: not a         *)
(* descendant that outlived it either.                                     *)
GroupIsGone ==
  pc = "done" /\ ~printed /\ result # PRODUCER_RESERVED_EXIT_CODE => group \cap alive = {}

(* All that a wrapper guarantees, at every step of it.                     *)
RunnerInv == TypeOK /\ PrintedIsWhole /\ CodeIsTrue /\ GroupIsGone
=============================================================================
