------------------------- MODULE MCClipboardCapture -------------------------
(* Instances of ClipboardCapture for model checking.                       *)
EXTENDS ClipboardCapture
=============================================================================
