--------------------------- MODULE MCVoiceManager ---------------------------
(* Instances of VoiceManager for model checking.                           *)
EXTENDS VoiceManager

(* A voice that is installed, and one whose install was cut off after the  *)
(* model, with a configuration that is out of date.                        *)
MCFileStates ==
  {[k \in FileKinds |-> "whole"], [model |-> "whole", config |-> "other", card |-> "absent"]}
=============================================================================
