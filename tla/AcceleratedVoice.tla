-------------------------- MODULE AcceleratedVoice --------------------------
(***************************************************************************)
(* worker/accelerated_voice.py: a voice on an NPU or a GPU.  A text becomes*)
(* sentences, each is inferred as a whole, and on the NPU its latent       *)
(* frames are decoded in tiles of a fixed width, of which only the middle  *)
(* is used.  A sentence is emitted when all of it has been decoded.        *)
(*                                                                         *)
(* A waveform is the number of its frames (HOP_LENGTH samples each).       *)
(* OpenVINO, Piper and the files are an environment that may fail at every *)
(* call.  Abstracted: the numbers in a waveform, the graph cut, volume.    *)
(***************************************************************************)
EXTENDS Integers, Sequences

CONSTANTS Width, Context,   \* TILE_WIDTH and TILE_CONTEXT, 256 and 32
          MaxFrames,        \* MAX_LATENT_FRAMES, 8192
          MaxSentences      \* bound: sentences of a text

ASSUME TilesAssumption == Width \in Nat /\ Context \in Nat /\ 2 * Context < Width
ASSUME FramesAssumption == MaxFrames \in Nat \ {0} /\ MaxSentences \in Nat

Backends == {"hybrid", "gpu"}

VARIABLES
  backend, devices,    \* execution_devices
  phase,               \* where the constructor or the generator stands
  sentences,           \* of the text, those that are still to be inferred
  frames, decoded,       \* of the present one: its frames, and those decoded
  pieces,              \* its decoded tiles, as yet to be emitted
  out,                 \* its frames that were emitted
  fault                \* why the voice has failed

call == <<sentences, frames, decoded, pieces, out>>
voice == <<backend, devices, phase, call, fault>>

InitVoice ==
  /\ backend \in Backends /\ devices = {} /\ phase = "new"
  /\ sentences = <<>> /\ frames = 0 /\ decoded = 0 /\ pieces = <<>> /\ out = 0
  /\ fault = "none"

Fail(why) == phase' = "failed" /\ fault' = why /\ UNCHANGED <<backend, devices>>

(***************************************************************************)
(* The constructor: the files are verified, the libraries imported, the    *)
(* device looked for and the graph compiled for it.                        *)
(***************************************************************************)
Device == IF backend = "hybrid" THEN "NPU" ELSE "GPU"
FileKinds == {"exact", "other", "link", "absent"}
DeviceLists == SUBSET {"CPU", "GPU", "NPU"}

(* _check_exact_device *)
ExactDevice(compiled) == compiled = {Device}

(* _compile_hybrid, of whose two graphs the front runs on the CPU, and     *)
(* _compile_gpu.                                                           *)
Compile(compiles, compiled) ==
  IF compiles /\ ExactDevice(compiled)
    THEN /\ phase' = "ready"
         /\ devices' = compiled \union (IF backend = "hybrid" THEN {"CPU"} ELSE {})
         /\ UNCHANGED <<backend, fault>>
    ELSE Fail("compile-failed")

(* verify_voice_files: two regular files of the catalog's sizes and digests. *)
Verified(model, config) == {model, config} = {"exact"}

Construct ==
  /\ phase = "new"
  /\ \E model, config \in FileKinds, available, compiled \in DeviceLists,
        runtime, parsed, compiles \in BOOLEAN :
       CASE ~Verified(model, config) -> Fail("model-unsupported")
         [] Verified(model, config) /\ ~runtime -> Fail("runtime-unavailable")
         [] Verified(model, config) /\ runtime /\ ~parsed -> Fail("model-unsupported")
         [] Verified(model, config) /\ runtime /\ parsed ->
              IF Device \in available THEN Compile(compiles, compiled)
                                      ELSE Fail("device-unavailable")
  /\ UNCHANGED call

(***************************************************************************)
(* hybrid_tiles: the tile for the frames from s on.                        *)
(***************************************************************************)
Least(a, b) == IF a < b THEN a ELSE b
Greatest(a, b) == IF a < b THEN b ELSE a

(* Mutation: the context is left to the tile before. *)
StrideWide == Width - Context

Stride == Width - 2 * Context

Left(s) == Greatest(0, Least(s - Context, frames - Width))

Stop(s) == IF Left(s) + Width >= frames THEN frames ELSE Least(frames, s + Stride)

Valid(s) == Least(Width, frames - Left(s))
Count(s) == Stop(s) - s

(***************************************************************************)
(* synthesize, up to where it yields next.                                 *)
(***************************************************************************)
(* A call, of a text that is blank or not.                                 *)
Synthesize(blank) ==
  /\ phase = "ready"
  /\ IF blank THEN Fail("blank")
              ELSE phase' = "phonemes" /\ UNCHANGED <<backend, devices, fault>>
  /\ UNCHANGED call

(* _phoneme_inputs: the token counts, of which none may exceed MAX_TOKENS. *)
Phonemize ==
  /\ phase = "phonemes"
  /\ \/ /\ \E n \in 0..MaxSentences : sentences' \in [1..n -> {"none", "some", "too-many"}]
        /\ phase' = "sentence"
        /\ UNCHANGED <<backend, devices, frames, decoded, pieces, out, fault>>
     \/ Fail("inference-failed") /\ UNCHANGED call

NextSentence ==
  /\ phase = "sentence"
  /\ \/ /\ sentences = <<>>
        /\ phase' = "ready"
        /\ UNCHANGED <<backend, devices, call, fault>>
     \/ /\ sentences # <<>> /\ Head(sentences) = "too-many"
        /\ Fail("inference-failed") /\ UNCHANGED call
     \/ /\ sentences # <<>> /\ Head(sentences) # "too-many"
        /\ sentences' = Tail(sentences)
        /\ phase' = IF Head(sentences) = "none" THEN "sentence" ELSE "infer"
        /\ UNCHANGED <<backend, devices, frames, decoded, pieces, out, fault>>

(* The frontend's latent frames, or all of the waveform on the GPU.        *)
Infer ==
  /\ phase = "infer"
  /\ \/ Fail("inference-failed") /\ UNCHANGED call
     \/ \E n \in 0..MaxFrames + 1 :
          IF n \in 1..MaxFrames
            THEN /\ frames' = n /\ decoded' = 0 /\ out' = 0
                 /\ IF backend = "hybrid"
                      THEN phase' = "tiles" /\ pieces' = <<>>
                      ELSE /\ phase' = "emit"
                           /\ pieces' = <<[left |-> 0, first |-> 0, last |-> n]>>
                 /\ UNCHANGED <<backend, devices, sentences, fault>>
            ELSE Fail("output-invalid") /\ UNCHANGED call

(* One iteration of _decode_hybrid: the decoder may fail; a tile that is   *)
(* empty, not all there, or too much, is a fault of the tiling.            *)
DecodeTile ==
  /\ phase = "tiles" /\ decoded < frames
  /\ \/ Fail("output-invalid") /\ UNCHANGED call
     \/ IF Count(decoded) <= 0 \/ Valid(decoded) <= 0 \/ Stop(decoded) - Left(decoded) > Width
             \/ decoded + Count(decoded) > MaxFrames
          THEN Fail("tiling") /\ UNCHANGED call
          ELSE /\ pieces' = Append(pieces, [left |-> Left(decoded), first |-> decoded,
                                            last |-> Stop(decoded)])
               /\ decoded' = Stop(decoded)
               /\ UNCHANGED <<backend, devices, phase, sentences, frames, out, fault>>

(* The sentence is normalized as a whole.                                  *)
Normalize ==
  /\ phase = "tiles" /\ decoded >= frames
  /\ phase' = "emit"
  /\ UNCHANGED <<backend, devices, call, fault>>

Emit ==
  /\ phase = "emit"
  /\ IF pieces = <<>>
       THEN phase' = "sentence" /\ out' = 0 /\ UNCHANGED pieces
       ELSE /\ out' = out + (Head(pieces).last - Head(pieces).first)
            /\ pieces' = Tail(pieces)
            /\ UNCHANGED phase
  /\ UNCHANGED <<backend, devices, sentences, frames, decoded, fault>>

VoiceStep == Phonemize \/ NextSentence \/ Infer \/ DecodeTile \/ Normalize \/ Emit

(***************************************************************************)
(* Properties.                                                             *)
(***************************************************************************)
Pieces == [left : 0..MaxFrames, first : 0..MaxFrames, last : 0..MaxFrames]

(* Every variable has its type.                                            *)
VoiceTypeOK ==
  /\ backend \in Backends \union {"cpu"} /\ devices \in DeviceLists
  /\ phase \in {"new", "piper", "ready", "phonemes", "sentence", "infer", "tiles", "emit", "failed"}
  /\ sentences \in Seq({"none", "some", "too-many"})
  /\ {frames, decoded, out} \subseteq 0..MaxFrames
  /\ pieces \in Seq(Pieces)
  /\ fault \in {"none", "model-unsupported", "runtime-unavailable", "device-unavailable",
                "compile-failed", "inference-failed", "output-invalid", "blank", "tiling", "piper"}

(* The pieces of a sentence that are to be emitted follow each other from  *)
(* what was emitted to what was decoded: every frame is heard once.        *)
PiecesCover ==
  phase \in {"tiles", "emit"} /\ pieces # <<>> =>
    /\ pieces[1].first = out
    /\ \A k \in 2..Len(pieces) : pieces[k].first = pieces[k - 1].last
    /\ pieces[Len(pieces)].last = IF backend = "hybrid" THEN decoded ELSE frames

(* "32 frames of context on either side" wherever there are as many, and a *)
(* tile is padded only if the sentence is shorter than one: "the last tile *)
(* is anchored to the real sequence end when possible".                    *)
ContextKept ==
  backend = "hybrid" =>
    \A k \in DOMAIN pieces :
      LET p == pieces[k] IN
      /\ p.left <= Greatest(0, p.first - Context)
      /\ Least(frames, p.last + Context) <= p.left + Width
      /\ frames >= Width => p.left + Width <= frames

(* No sentence is heard in part: the voice does not fail between two       *)
(* pieces of one, whichever call fails.                                    *)
SentencesWhole == phase = "failed" => out = 0

(* "Neither accelerated option silently falls back": a voice that is ready *)
(* runs on its device, and on the CPU besides if it is the hybrid one.     *)
NoFallback ==
  backend \in Backends /\ phase \notin {"new", "failed"} =>
    devices = IF backend = "hybrid" THEN {"CPU", "NPU"} ELSE {"GPU"}

(* The checks of the tiling never fail, nor is a blank text asked for:     *)
(* whatever fails is the environment's.                                    *)
FaultsAreForeign == fault \notin {"tiling", "blank"}

(* A sentence is heard whole or not at all, every frame once and with its  *)
(* context, on the device that was asked for.                              *)
VoiceInv ==
  /\ VoiceTypeOK /\ PiecesCover /\ ContextKept
  /\ SentencesWhole /\ NoFallback /\ FaultsAreForeign
=============================================================================
