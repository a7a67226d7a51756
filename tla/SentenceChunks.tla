--------------------------- MODULE SentenceChunks ---------------------------
(***************************************************************************)
(* sentence_chunks of worker/worker.py: a text is cut into the chunks that *)
(* are synthesized one after the other.  The iterations of its loop are    *)
(* the steps; a character is one of the kinds that the code tells apart,   *)
(* and position i is the code's index i - 1.                               *)
(***************************************************************************)
EXTENDS Naturals, Sequences, FiniteSetsExt

CONSTANTS Target,       \* CHUNK_TARGET, 800
          Early,        \* 80: a sentence that ends before it is too short
          MaxLength     \* bound: characters of a text

ASSUME TargetAssumption == Target \in Nat \ {0}
ASSUME LengthsAssumption == Early \in Nat /\ MaxLength \in Nat

(* "stop" is one of .!?; "blank" is white space other than " " and "\n",   *)
(* which a text keeps when its cleanup is off.                             *)
Characters == {"letter", "stop", "space", "newline", "blank"}
Spaces == {"space", "newline", "blank"}

VARIABLES text, start,
          chunks      \* the yielded ones, as <<first, last>>

Length == Len(text)
IsSpace(i) == i \in 1..Length /\ text[i] \in Spaces
Solid(i) == i \in 1..Length /\ text[i] \notin Spaces

Init ==
  /\ text \in UNION {[1..n -> Characters] : n \in 0..MaxLength}
  /\ start = 1 /\ chunks = <<>>

(* _sentence_boundary: a sentence or a paragraph ends with character i.    *)
EndsSentence(i) ==
  \/ text[i] = "stop" /\ (i = Length \/ IsSpace(i + 1))
  \/ text[i] = "newline" /\ i < Length /\ text[i + 1] = "newline"

(* The two rfind: where a chunk from s could end without cutting a word.   *)
Breaks(s, limit) == {i \in s + 1..limit : text[i] \in {"space", "newline"}}

Limit(s) == IF s + Target < Length + 1 THEN s + Target ELSE Length + 1

(* The position behind the last of them before the limit, or 0.            *)
Natural(s, limit) ==
  LET B == {i \in s..limit - 1 : EndsSentence(i)}
  IN IF B = {} THEN 0 ELSE 1 + Max(B)

LongEnough(s, natural) == natural - s >= Max({Early, Target \div 3})

(* The position behind the chunk that begins at s.                         *)
End(s) ==
  LET limit == Limit(s)
      natural == Natural(s, limit)
  IN CASE natural > 0 /\ (LongEnough(s, natural) \/ limit > Length) -> natural
       [] ~(natural > 0 /\ LongEnough(s, natural)) /\ limit <= Length ->
            IF Breaks(s, limit) = {} THEN limit ELSE Max(Breaks(s, limit))
       [] OTHER -> limit

(* Mutation: the character behind a chunk is skipped. *)
NextChunkBehind ==
  LET S == {i \in start..Length : Solid(i)} IN
  IF S = {}
    THEN start <= Length /\ start' = Length + 1 /\ UNCHANGED <<text, chunks>>
    ELSE LET s == Min(S) IN
         /\ chunks' = Append(chunks, <<s, Max({i \in s..End(s) - 1 : Solid(i)})>>)
         /\ start' = End(s) + 1
         /\ UNCHANGED text

(* An iteration: white space is skipped, a chunk is stripped and yielded.  *)
NextChunk ==
  LET S == {i \in start..Length : Solid(i)} IN
  IF S = {}
    THEN start <= Length /\ start' = Length + 1 /\ UNCHANGED <<text, chunks>>
    ELSE LET s == Min(S) IN
         /\ chunks' = Append(chunks, <<s, Max({i \in s..End(s) - 1 : Solid(i)})>>)
         /\ start' = End(s)
         /\ UNCHANGED text

Next == NextChunk
vars == <<text, start, chunks>>
Spec == Init /\ [][Next]_vars

(***************************************************************************)
(* Properties.                                                             *)
(***************************************************************************)
First(k) == chunks[k][1]
Last(k) == chunks[k][2]
(* Whatever is not white space is spoken once and in order: up to start,   *)
(* the chunks follow each other and only white space is between them.      *)
NothingLost ==
  /\ \A i \in 1..start - 1 :
       Solid(i) => \E k \in DOMAIN chunks : First(k) <= i /\ i <= Last(k)
  /\ \A k \in DOMAIN chunks :
       First(k) > (IF k = 1 THEN 0 ELSE Last(k - 1)) /\ Last(k) < start

(* "Piper never receives an unbounded request", nor a blank one, which     *)
(* AcceleratedVoice refuses.                                               *)
ChunksBounded ==
  \A k \in DOMAIN chunks :
    /\ Last(k) < First(k) + Target
    /\ Solid(First(k)) /\ Solid(Last(k))

(* A word is cut only if it is longer than the target ("A single word      *)
(* longer than the target is split").  Words here are what " " and "\n"    *)
(* delimit.                                                                *)
Cut(p) == p > 1 /\ Solid(p - 1) /\ Solid(p)
WordsWhole ==
  \A k \in DOMAIN chunks :
    LET p == First(k) IN
    Cut(p) => p > Target /\ \A i \in p - Target..p : text[i] \notin {"space", "newline"}

(* Where a sentence that is long enough ends within reach, a chunk ends    *)
(* with a sentence.                                                        *)
AtSentence(k) ==
  \E i \in Last(k)..Length : EndsSentence(i) /\ \A j \in Last(k) + 1..i : ~Solid(j)
PrefersSentences ==
  \A k \in DOMAIN chunks :
    (\E i \in First(k)..Limit(First(k)) - 1 :
       EndsSentence(i) /\ LongEnough(First(k), i + 1)) => AtSentence(k)

(* A text is spoken as chunks: all of it, within bounds, cut where it ends *)
(* a sentence, or else a word.                                             *)
ChunksInv == NothingLost /\ ChunksBounded /\ WordsWhole /\ PrefersSentences

-----------------------------------------------------------------------------
(* What the documentation says and the code does not always do.            *)

(* The same of words that any white space delimits: a tab is not looked    *)
(* for, and a word behind one may be cut.                                  *)
NoWordCut ==
  \A k \in DOMAIN chunks :
    LET p == First(k) IN Cut(p) => p > Target /\ \A i \in p - Target..p : Solid(i)
=============================================================================
