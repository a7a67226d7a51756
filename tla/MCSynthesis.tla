----------------------------- MODULE MCSynthesis -----------------------------
(* Instances of Synthesis for model checking: the accelerated voices with  *)
(* short texts, Piper's with all.                                          *)
EXTENDS Synthesis

CONSTANT ShortLength

MCInit == InitRead /\ (phase = "piper" \/ Length <= ShortLength)
MCSpec == MCInit /\ [][NextRead]_systemVars
=============================================================================
