---------------------------- MODULE CapturePolicy ----------------------------
(***************************************************************************)
(* capture_selection of share/capture.py: the sequence of commands of one  *)
(* capture, which "the live QML service implements".  A step is named for  *)
(* the command whose outcome it waits for, and every outcome is possible.  *)
(* What the commands do to the clipboard is in ClipboardCapture.           *)
(***************************************************************************)
EXTENDS Naturals

CONSTANT PollLimit

VARIABLES
  step,
  before,      \* what is to be restored
  captured,    \* a text will be returned once it is
  polls        \* made so far

policy == <<step, before, captured, polls>>

Contents == {"text", "copied", "empty"}

Init == step = "idle" /\ before = "empty" /\ captured = FALSE /\ polls = 0

Begin == step = "idle" /\ step' = "primary" /\ UNCHANGED <<before, captured, polls>>

Primary ==   \* a text, or one that is too large, ends it
  /\ step = "primary"
  /\ step' \in {"idle", "types"}
  /\ UNCHANGED <<before, captured, polls>>

Types ==     \* plain_text_only
  /\ step = "types"
  /\ step' \in {"idle", "snapshot", "clear"}
  /\ before' = "empty"
  /\ UNCHANGED <<captured, polls>>

Snapshot ==  \* refused if it would be truncated
  /\ step = "snapshot"
  /\ \/ step' = "idle" /\ UNCHANGED before
     \/ step' = "clear" /\ before' \in Contents
  /\ UNCHANGED <<captured, polls>>

Clear ==
  /\ step = "clear"
  /\ step' \in {"idle", "shortcut"}
  /\ UNCHANGED <<before, captured, polls>>

Restore(found) == step' = "restore" /\ captured' = found /\ polls' = 0 /\ UNCHANGED before

Shortcut ==
  /\ step = "shortcut"
  /\ \/ step' = "poll" /\ UNCHANGED <<before, captured, polls>>
     \/ Restore(FALSE)

Poll ==
  /\ step = "poll" /\ polls < PollLimit
  /\ polls' = polls + 1
  /\ UNCHANGED <<step, before, captured>>

(* A text, or one that is too large; or there was none.                    *)
PollEnds ==
  /\ step = "poll"
  /\ \/ polls > 0 /\ \E found \in BOOLEAN : Restore(found)
     \/ polls = PollLimit /\ Restore(FALSE)

Restored ==
  /\ step = "restore"
  /\ step' = "idle" /\ before' = "empty" /\ captured' = FALSE
  /\ UNCHANGED polls

Next ==
  \/ Begin \/ Primary \/ Types \/ Snapshot \/ Clear \/ Shortcut \/ Poll \/ PollEnds \/ Restored

Spec == Init /\ [][Next]_policy
=============================================================================
