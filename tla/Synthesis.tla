------------------------------ MODULE Synthesis ------------------------------
(***************************************************************************)
(* The loop of _speak over the chunks of its text: the next chunk is cut   *)
(* when the voice has emitted the last one, and a failure ends the read.   *)
(* (What else goes on meanwhile is in Worker.)                             *)
(***************************************************************************)
EXTENDS SentenceChunks, AcceleratedVoice

systemVars == <<vars, voice>>

(* Piper's own voice on the CPU: a chunk is synthesized, or that fails.    *)
InitPiper ==
  /\ backend = "cpu" /\ devices = {} /\ phase = "piper" /\ fault = "none"
  /\ sentences = <<>> /\ frames = 0 /\ decoded = 0 /\ pieces = <<>> /\ out = 0

InitRead == Init /\ (InitVoice \/ InitPiper)

PiperChunk ==
  /\ phase = "piper"
  /\ NextChunk
  /\ UNCHANGED voice \/ (Fail("piper") /\ UNCHANGED call)

(* The text of the last chunk is blank.                                    *)
Blank(c) == \A i \in c[Len(c)][1]..c[Len(c)][2] : ~Solid(i)

TakeChunk ==
  /\ phase = "ready"
  /\ NextChunk
  /\ IF chunks' = chunks THEN UNCHANGED voice ELSE Synthesize(Blank(chunks'))

NextRead ==
  \/ PiperChunk \/ TakeChunk
  \/ (Construct \/ VoiceStep) /\ UNCHANGED vars

ReadSpec == InitRead /\ [][NextRead]_systemVars
=============================================================================
