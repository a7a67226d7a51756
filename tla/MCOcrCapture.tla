---------------------------- MODULE MCOcrCapture ----------------------------
(* Instances of OcrCapture and of the bounded runner, for model checking.  *)
EXTENDS OcrCapture
=============================================================================
