--------------------------- MODULE SynthesisProofs ---------------------------
(***************************************************************************)
(* Theorems about Synthesis, for any text, any sizes of chunks and tiles   *)
(* (within the assumptions that the code's constants satisfy), and every   *)
(* outcome of the environment's calls.                                     *)
(***************************************************************************)
EXTENDS Synthesis, WellFoundedInduction, TLAPS

(***************************************************************************)
(* Least and greatest elements.                                            *)
(***************************************************************************)

(* A set of naturals that is not empty has a least element. *)
LEMMA MinIsLeast ==
  ASSUME NEW S \in SUBSET Nat, S # {}
  PROVE  Min(S) \in S /\ \A i \in S : Min(S) <= i
<1>1. PICK x \in S : \A y \in S : ~ (<<y, x>> \in OpToRel(<, Nat))
  BY NatLessThanWellFounded, WFMin
<1>2. \A y \in S : x <= y
  <2> SUFFICES ASSUME NEW y \in S, ~(x <= y) PROVE <<y, x>> \in OpToRel(<, Nat)
    BY <1>1, Zenon
  <2>1. <<y, x>> \in Nat \X Nat /\ <<y, x>>[1] < <<y, x>>[2]
    OBVIOUS
  <2> QED
    BY <2>1 DEF OpToRel
<1> QED
  BY <1>2 DEF Min

(* One that is bounded besides has a greatest. *)
LEMMA MaxIsGreatest ==
  ASSUME NEW S \in SUBSET Nat, S # {}, NEW n \in Nat, \A i \in S : i <= n
  PROVE  Max(S) \in S /\ \A i \in S : i <= Max(S)
<1> DEFINE T == {n - i : i \in S}
<1>1. T \in SUBSET Nat /\ T # {}
  <2>1. \A i \in S : n - i \in Nat
    OBVIOUS
  <2>2. PICK i \in S : TRUE
    OBVIOUS
  <2>3. n - i \in T
    OBVIOUS
  <2> QED
    BY <2>1, <2>3
<1>2. Min(T) \in T /\ \A i \in T : Min(T) <= i
  BY <1>1, MinIsLeast
<1>3. PICK x \in S : Min(T) = n - x
  BY <1>2
<1>4. \A i \in S : n - x <= n - i
  BY <1>2, <1>3
<1>5. \A i \in S : i <= x
  BY <1>4
<1> QED
  BY <1>5 DEF Max

(***************************************************************************)
(* The chunks.                                                             *)
(***************************************************************************)
ChunkTypes ==
  /\ text \in Seq(Characters)
  /\ start \in 1..Length + 1
  /\ chunks \in Seq(Nat \X Nat)
  /\ \A k \in DOMAIN chunks : First(k) \in 1..Length /\ Last(k) \in First(k)..Length

(* Where the next chunk begins in the middle of a word, the last one has   *)
(* taken as much of that word as it may have.                              *)
CutInv ==
  Cut(start) =>
    start > Target /\ \A i \in start - Target..start : text[i] \notin {"space", "newline"}

TextInv == ChunkTypes /\ CutInv /\ ChunksInv

(* The limit of a chunk is behind its first character, and within reach. *)
LEMMA LimitFacts ==
  ASSUME text \in Seq(Characters), NEW s \in 1..Length
  PROVE  /\ Limit(s) \in s + 1..Length + 1 /\ Limit(s) <= s + Target
         /\ Limit(s) <= Length => Limit(s) = s + Target
BY TargetAssumption DEF Limit, Length

(* The natural end of a chunk is behind the last sentence that ends before *)
(* the limit, if there is one.                                             *)
LEMMA NaturalFacts ==
  ASSUME text \in Seq(Characters), NEW s \in 1..Length
  PROVE  LET n == Natural(s, Limit(s)) IN
         /\ n = 0 \/ (n \in s + 1..Limit(s) /\ EndsSentence(n - 1))
         /\ \A i \in s..Limit(s) - 1 : EndsSentence(i) => i < n
<1> DEFINE B == {i \in s..Limit(s) - 1 : EndsSentence(i)}
<1>1. Limit(s) \in Nat /\ Limit(s) - 1 \in Nat /\ s \in Nat
  BY LimitFacts DEF Length
<1>2. B \in SUBSET Nat /\ \A i \in B : i <= Limit(s) - 1
  BY <1>1
<1>3. CASE B = {}
  BY <1>3 DEF Natural
<1>4. CASE B # {}
  <2>1. Max(B) \in B /\ \A i \in B : i <= Max(B)
    BY <1>1, <1>2, <1>4, MaxIsGreatest
  <2>2. Natural(s, Limit(s)) = 1 + Max(B)
    BY <1>4 DEF Natural
  <2>3. Max(B) \in s..Limit(s) - 1 /\ EndsSentence(Max(B))
    BY <2>1
  <2>4. 1 + Max(B) \in s + 1..Limit(s) /\ (1 + Max(B)) - 1 = Max(B)
    BY <1>1, <2>3
  <2>5. \A i \in s..Limit(s) - 1 : EndsSentence(i) => i < 1 + Max(B)
    <3> SUFFICES ASSUME NEW i \in s..Limit(s) - 1, EndsSentence(i) PROVE i < 1 + Max(B)
      OBVIOUS
    <3>1. i <= Max(B)
      BY <2>1
    <3> QED
      BY <1>1, <2>3, <3>1
  <2> QED
    BY <2>2, <2>3, <2>4, <2>5
<1> QED
  BY <1>3, <1>4

(* The break of a chunk is behind its first character, within the limit.   *)
LEMMA BreakFacts ==
  ASSUME text \in Seq(Characters), NEW s \in 1..Length, Breaks(s, Limit(s)) # {}
  PROVE  /\ Max(Breaks(s, Limit(s))) \in s + 1..Limit(s)
         /\ text[Max(Breaks(s, Limit(s)))] \in {"space", "newline"}
<1>1. Limit(s) \in Nat
  BY LimitFacts DEF Length
<1>2. Breaks(s, Limit(s)) \in SUBSET Nat /\ \A i \in Breaks(s, Limit(s)) : i <= Limit(s)
  BY <1>1 DEF Breaks, Length
<1>3. Max(Breaks(s, Limit(s))) \in Breaks(s, Limit(s))
  BY <1>1, <1>2, MaxIsGreatest
<1> QED
  BY <1>3 DEF Breaks

(* A chunk ends naturally, at a break, or at the limit. *)
LEMMA EndCases ==
  ASSUME text \in Seq(Characters), NEW s \in 1..Length
  PROVE  \/ /\ End(s) = Natural(s, Limit(s)) /\ Natural(s, Limit(s)) > 0
            /\ LongEnough(s, Natural(s, Limit(s))) \/ Limit(s) > Length
         \/ /\ ~(Natural(s, Limit(s)) > 0 /\ LongEnough(s, Natural(s, Limit(s))))
            /\ \/ /\ Limit(s) <= Length /\ Breaks(s, Limit(s)) # {}
                  /\ End(s) = Max(Breaks(s, Limit(s)))
               \/ /\ Limit(s) > Length \/ Breaks(s, Limit(s)) = {}
                  /\ End(s) = Limit(s)
<1> DEFINE n == Natural(s, Limit(s))
           long == LongEnough(s, n)
<1>1. Limit(s) \in Nat /\ Length \in Nat /\ n \in Nat
  BY LimitFacts, NaturalFacts DEF Length
<1>2. CASE n > 0 /\ (long \/ Limit(s) > Length)
  BY <1>1, <1>2 DEF End
<1>3. CASE ~(n > 0 /\ long) /\ Limit(s) <= Length
  BY <1>1, <1>3 DEF End
<1>4. CASE ~(n > 0 /\ long) /\ ~(n > 0) /\ Limit(s) > Length
  BY <1>1, <1>4 DEF End
<1> QED
  BY <1>1, <1>2, <1>3, <1>4

(* A chunk ends behind its first character, within its bound; in a word    *)
(* only if that word fills it; and behind a sentence that is long enough,  *)
(* if one is within reach.                                                 *)
LEMMA EndFacts ==
  ASSUME text \in Seq(Characters), NEW s \in 1..Length, Solid(s)
  PROVE  /\ End(s) \in s + 1..Length + 1 /\ End(s) <= s + Target
         /\ Solid(End(s) - 1) /\ Solid(End(s)) =>
              /\ End(s) = s + Target
              /\ \A i \in s..s + Target : text[i] \notin {"space", "newline"}
         /\ (\E i \in s..Limit(s) - 1 : EndsSentence(i) /\ LongEnough(s, i + 1)) =>
              End(s) - 1 \in s..Limit(s) - 1 /\ EndsSentence(End(s) - 1)
<1> DEFINE n == Natural(s, Limit(s))
           e == End(s)
<1>1. Length \in Nat /\ Limit(s) \in s + 1..Length + 1 /\ Limit(s) <= s + Target
      /\ (Limit(s) <= Length => Limit(s) = s + Target)
  BY LimitFacts DEF Length
<1>2. /\ n = 0 \/ (n \in s + 1..Limit(s) /\ EndsSentence(n - 1))
      /\ \A i \in s..Limit(s) - 1 : EndsSentence(i) => i < n
  BY NaturalFacts
<1>3. e \in s + 1..Limit(s)
  BY <1>1, <1>2, EndCases, BreakFacts
<1>4. e \in s + 1..Length + 1 /\ e <= s + Target
  BY <1>1, <1>3, TargetAssumption
<1>5. ASSUME Solid(e - 1), Solid(e)
      PROVE  e = s + Target /\ \A i \in s..s + Target : text[i] \notin {"space", "newline"}
  <2>1. e \in 1..Length /\ text[e] \notin Spaces /\ text[e - 1] \notin Spaces
    BY <1>5 DEF Solid
  <2>2. e # n \/ n = 0
    <3> SUFFICES ASSUME e = n, n # 0 PROVE FALSE
      OBVIOUS
    <3>1. EndsSentence(e - 1)
      BY <1>2
    <3>2. ~IsSpace(e) /\ (e - 1) + 1 = e /\ e - 1 # Length
      BY <1>1, <2>1 DEF IsSpace
    <3> QED
      BY <2>1, <3>1, <3>2 DEF EndsSentence, Spaces
  <2>3. ~(Breaks(s, Limit(s)) # {} /\ e = Max(Breaks(s, Limit(s))))
    BY <2>1, BreakFacts DEF Spaces
  <2>4. e = Limit(s) /\ Limit(s) <= Length /\ Breaks(s, Limit(s)) = {}
    BY <1>1, <2>1, <2>2, <2>3, EndCases
  <2>5. \A i \in s + 1..s + Target : text[i] \notin {"space", "newline"}
    BY <1>1, <2>4 DEF Breaks
  <2>6. text[s] \notin {"space", "newline"}
    BY DEF Solid, Spaces
  <2> QED
    BY <1>1, <2>4, <2>5, <2>6, TargetAssumption
<1>6. ASSUME NEW i \in s..Limit(s) - 1, EndsSentence(i), LongEnough(s, i + 1)
      PROVE  e - 1 \in s..Limit(s) - 1 /\ EndsSentence(e - 1)
  <2>1. i < n /\ n \in s + 1..Limit(s) /\ EndsSentence(n - 1)
    BY <1>1, <1>2, <1>6
  <2>2. LongEnough(s, n)
    <3> DEFINE m == Max({Early, Target \div 3})
    <3>1. m \in Nat
      <4>1. {Early, Target \div 3} \in SUBSET Nat
        BY TargetAssumption, LengthsAssumption
      <4>2. Early + Target \div 3 \in Nat
            /\ \A x \in {Early, Target \div 3} : x <= Early + Target \div 3
        BY TargetAssumption, LengthsAssumption
      <4> QED
        BY <4>1, <4>2, MaxIsGreatest
    <3>2. (i + 1) - s >= m
      BY <1>6 DEF LongEnough
    <3> HIDE DEF m
    <3>3. n - s >= m
      BY <1>1, <2>1, <3>1, <3>2
    <3> QED
      BY <3>3 DEF LongEnough, m
  <2>3. e = n
    BY <1>1, <2>1, <2>2, EndCases
  <2> QED
    BY <1>1, <2>1, <2>3
<1> QED
  BY <1>4, <1>5, <1>6

(* What an iteration yields: from the first character that is not white    *)
(* space to the last one of what was cut.                                  *)
LEMMA ChunkCases ==
  ASSUME ChunkTypes, NextChunk
  PROVE  /\ UNCHANGED text
         /\ \/ /\ \A i \in start..Length : ~Solid(i)
               /\ start' = Length + 1 /\ UNCHANGED chunks
            \/ \E s \in start..Length, l \in start..Length :
                 /\ Solid(s) /\ \A i \in start..s - 1 : ~Solid(i)
                 /\ Solid(l) /\ l \in s..End(s) - 1
                 /\ \A i \in l + 1..End(s) - 1 : ~Solid(i)
                 /\ chunks' = Append(chunks, <<s, l>>) /\ start' = End(s)
<1> DEFINE S == {i \in start..Length : Solid(i)}
           s == Min(S)
           L == {i \in s..End(s) - 1 : Solid(i)}
<1>1. Length \in Nat /\ start \in 1..Length + 1 /\ text \in Seq(Characters)
  BY DEF ChunkTypes, Length
<1>2. CASE S = {}
  BY <1>1, <1>2 DEF NextChunk
<1>3. CASE S # {}
  <2>1. s \in S /\ \A i \in S : s <= i
    <3>1. S \in SUBSET Nat
      BY <1>1
    <3> QED
      BY <1>3, <3>1, MinIsLeast
  <2>2. s \in start..Length /\ Solid(s) /\ s \in 1..Length
    BY <1>1, <2>1
  <2>3. \A i \in start..s - 1 : ~Solid(i)
    BY <1>1, <2>1, <2>2
  <2>4. End(s) \in s + 1..Length + 1
    BY <1>1, <2>2, EndFacts
  <2>5. Max(L) \in L /\ \A i \in L : i <= Max(L)
    <3>1. L \in SUBSET Nat /\ s \in L /\ End(s) - 1 \in Nat /\ \A i \in L : i <= End(s) - 1
      <4> HIDE DEF s
      <4>1. s \in s..End(s) - 1
        BY <2>2, <2>4
      <4> QED
        BY <1>1, <2>2, <2>4, <4>1
    <3> QED
      BY <3>1, MaxIsGreatest
  <2>6. chunks' = Append(chunks, <<s, Max(L)>>) /\ start' = End(s) /\ UNCHANGED text
    BY <1>3 DEF NextChunk
  <2> HIDE DEF s
  <2>7. \A i \in Max(L) + 1..End(s) - 1 : ~Solid(i)
    BY <1>1, <2>2, <2>4, <2>5
  <2>8. Max(L) \in start..Length /\ Solid(Max(L)) /\ Max(L) \in s..End(s) - 1
    BY <1>1, <2>2, <2>4, <2>5
  <2> QED
    BY <2>2, <2>3, <2>6, <2>7, <2>8
<1> QED
  BY <1>2, <1>3

(* The invariant holds at the start of a text. *)
LEMMA TextInit == Init => TextInv
<1> SUFFICES ASSUME Init PROVE TextInv
  OBVIOUS
<1>1. text \in Seq(Characters) /\ start = 1 /\ chunks = <<>> /\ DOMAIN chunks = {}
  BY DEF Init
<1>2. Length \in Nat
  BY <1>1 DEF Length
<1>3. ChunkTypes /\ CutInv
  BY <1>1, <1>2 DEF ChunkTypes, CutInv, Cut
<1>4. NothingLost /\ ChunksBounded /\ WordsWhole /\ PrefersSentences
  BY <1>1 DEF NothingLost, ChunksBounded, WordsWhole, PrefersSentences
<1> QED
  BY <1>3, <1>4 DEF TextInv, ChunksInv

(* An iteration keeps it, and never yields a blank chunk. *)
LEMMA TextStep ==
  ASSUME TextInv, NextChunk
  PROVE  /\ TextInv'
         /\ chunks' # chunks => ~Blank(chunks')
<1> USE DEF TextInv
<1>1. /\ Length \in Nat /\ start \in 1..Length + 1 /\ text \in Seq(Characters)
      /\ chunks \in Seq(Nat \X Nat)
  BY DEF ChunkTypes, Length
<1>2. UNCHANGED <<text, Length>> /\ \A i : Solid(i)' <=> Solid(i)
  BY ChunkCases DEF Length, Solid
<1>3. CASE (\A i \in start..Length : ~Solid(i)) /\ start' = Length + 1 /\ UNCHANGED chunks
  <2>1. ChunkTypes'
    BY <1>1, <1>2, <1>3 DEF ChunkTypes, First, Last
  <2>2. CutInv'
    BY <1>1, <1>2, <1>3 DEF CutInv, Cut, Solid
  <2>3. NothingLost'
    <3>1. ASSUME NEW i \in 1..start' - 1, Solid(i)
          PROVE  \E k \in DOMAIN chunks : First(k) <= i /\ i <= Last(k)
      BY <1>1, <1>3, <3>1 DEF NothingLost, ChunksInv
    <3>2. \A k \in DOMAIN chunks :
            First(k) > (IF k = 1 THEN 0 ELSE Last(k - 1)) /\ Last(k) < start'
      BY <1>1, <1>3 DEF NothingLost, ChunksInv, ChunkTypes
    <3> QED
      BY <1>2, <1>3, <3>1, <3>2 DEF NothingLost, First, Last
  <2>4. ChunksBounded'
    BY <1>2, <1>3 DEF ChunksBounded, ChunksInv, First, Last
  <2>5. WordsWhole'
    BY <1>2, <1>3 DEF WordsWhole, ChunksInv, First, Last, Cut
  <2>6. PrefersSentences'
    BY <1>2, <1>3 DEF PrefersSentences, ChunksInv, First, Last, Limit, AtSentence, EndsSentence,
       IsSpace, LongEnough
  <2> QED
    BY <1>3, <2>1, <2>2, <2>3, <2>4, <2>5, <2>6 DEF ChunksInv
<1>4. ASSUME NEW s \in start..Length, NEW l \in start..Length,
             Solid(s), \A i \in start..s - 1 : ~Solid(i),
             Solid(l), l \in s..End(s) - 1, \A i \in l + 1..End(s) - 1 : ~Solid(i),
             chunks' = Append(chunks, <<s, l>>), start' = End(s)
      PROVE  TextInv' /\ ~Blank(chunks')
  <2>0. PICK m \in Nat, e \in Nat : m = Len(chunks) + 1 /\ e = End(s)
    <3>1. End(s) \in Nat /\ Len(chunks) + 1 \in Nat
      BY <1>1, <1>4, EndFacts
    <3> QED
      BY <3>1
  <2>1. /\ DOMAIN chunks = 1..Len(chunks) /\ Len(chunks) \in Nat
        /\ DOMAIN chunks' = 1..m /\ Len(chunks') = m
        /\ \A k \in 1..Len(chunks) : chunks'[k] = chunks[k]
        /\ chunks'[m] = <<s, l>> /\ chunks' \in Seq(Nat \X Nat)
    BY <1>1, <1>4, <2>0
  <2>2. PICK F \in [1..m -> Nat], L \in [1..m -> Nat] :
          /\ \A k \in 1..m : First(k)' = F[k] /\ Last(k)' = L[k]
          /\ \A k \in 1..m - 1 : First(k) = F[k] /\ Last(k) = L[k]
          /\ F[m] = s /\ L[m] = l
    <3>1. /\ \A k \in 1..m : chunks'[k][1] \in Nat /\ chunks'[k][2] \in Nat
          /\ \A k \in 1..m - 1 : chunks'[k] = chunks[k]
      BY <2>0, <2>1
    <3> DEFINE G == [k \in 1..m |-> chunks'[k][1]]
               H == [k \in 1..m |-> chunks'[k][2]]
    <3>2. G \in [1..m -> Nat] /\ H \in [1..m -> Nat]
      BY <3>1
    <3>3. \A k \in 1..m : First(k)' = G[k] /\ Last(k)' = H[k]
      BY DEF First, Last
    <3>4. m \in 1..m /\ G[m] = s /\ H[m] = l
      <4>1. m \in 1..m
        BY <2>0, <2>1
      <4> QED
        BY <2>1, <4>1
    <3>5. ASSUME NEW k \in 1..m - 1 PROVE First(k) = G[k] /\ Last(k) = H[k]
      <4>1. k \in 1..m
        OBVIOUS
      <4> QED
        BY <3>1, <4>1 DEF First, Last
    <3> HIDE DEF G, H
    <3> QED
      BY <3>2, <3>3, <3>4, <3>5
  <2>3. /\ e \in s + 1..Length + 1 /\ e <= s + Target
        /\ Solid(e - 1) /\ Solid(e) =>
             /\ e = s + Target
             /\ \A i \in s..s + Target : text[i] \notin {"space", "newline"}
        /\ (\E i \in s..Limit(s) - 1 : EndsSentence(i) /\ LongEnough(s, i + 1)) =>
             e - 1 \in s..Limit(s) - 1 /\ EndsSentence(e - 1)
    <3>1. s \in 1..Length /\ text \in Seq(Characters) /\ Solid(s)
      BY <1>1, <1>4
    <3> QED
      BY <2>0, <3>1, EndFacts
  <2>4. \A k \in 1..m - 1 :
          /\ F[k] \in 1..Length /\ L[k] \in F[k]..Length
          /\ F[k] > (IF k = 1 THEN 0 ELSE L[k - 1]) /\ L[k] < start
    <3>1. ASSUME NEW k \in 1..m - 1
          PROVE  /\ F[k] \in 1..Length /\ L[k] \in F[k]..Length
                 /\ F[k] > (IF k = 1 THEN 0 ELSE L[k - 1]) /\ L[k] < start
      <4>1. k \in DOMAIN chunks
        BY <2>0, <2>1
      <4>2. k # 1 => k - 1 \in 1..m - 1
        OBVIOUS
      <4> QED
        BY <2>2, <4>1, <4>2 DEF ChunkTypes, NothingLost, ChunksInv
    <3> QED
      BY <3>1
  <2>5. start \in 1..Length /\ s \in start..Length /\ l \in s..e - 1 /\ m \in 1..m
        /\ Target \in Nat /\ 1..m = 1..m - 1 \union {m}
    BY <1>1, <1>4, <2>0, TargetAssumption
  <2>6. ChunkTypes'
    <3>1. \A k \in 1..m : F[k] \in 1..Length /\ L[k] \in F[k]..Length
      BY <1>1, <1>4, <2>2, <2>3, <2>4, <2>5
    <3>2. (\A k \in DOMAIN chunks : First(k) \in 1..Length /\ Last(k) \in First(k)..Length)'
      BY <1>2, <2>1, <2>2, <3>1
    <3> QED
      BY <1>1, <1>2, <1>4, <2>0, <2>1, <2>3, <3>2 DEF ChunkTypes
  <2>7. CutInv'
    <3>1. ASSUME Cut(e)
          PROVE  e > Target /\ \A i \in e - Target..e : text[i] \notin {"space", "newline"}
      <4>1. e = s + Target /\ \A i \in s..s + Target : text[i] \notin {"space", "newline"}
        BY <2>3, <3>1 DEF Cut
      <4>2. s \in Nat \ {0} /\ e - Target = s
        BY <1>1, <2>5, <4>1
      <4> QED
        BY <2>5, <4>1, <4>2
    <3>2. (start > Target /\ \A i \in start - Target..start :
             text[i] \notin {"space", "newline"})' <=>
          (e > Target /\ \A i \in e - Target..e : text[i] \notin {"space", "newline"})
      BY <1>2, <1>4, <2>0
    <3>3. Cut(start)' => Cut(e)
      BY <1>2, <1>4, <2>0 DEF Cut, Solid
    <3> QED
      BY <3>1, <3>2, <3>3 DEF CutInv
  <2>8. NothingLost'
    <3>1. ASSUME NEW i \in 1..e - 1, Solid(i)
          PROVE  \E k \in 1..m : F[k] <= i /\ i <= L[k]
      <4>1. CASE i < start
        <5>1. i \in 1..start - 1
          BY <2>5, <4>1
        <5>2. PICK k \in DOMAIN chunks : First(k) <= i /\ i <= Last(k)
          BY <3>1, <5>1 DEF NothingLost, ChunksInv
        <5>3. k \in 1..m - 1 /\ k \in 1..m
          BY <2>0, <2>1
        <5> QED
          BY <2>2, <5>2, <5>3
      <4>2. CASE i >= start
        <5>1. s <= i
          BY <1>4, <2>5, <3>1, <4>2
        <5>2. i <= l
          BY <1>4, <2>0, <2>5, <3>1, <5>1
        <5> QED
          BY <2>2, <2>5, <5>1, <5>2
      <4> QED
        BY <2>5, <4>1, <4>2
    <3>2. ASSUME NEW k \in 1..m
          PROVE  F[k] > (IF k = 1 THEN 0 ELSE L[k - 1]) /\ L[k] < e
      <4>1. CASE k = m
        <5>1. k # 1 => k - 1 \in 1..m - 1
          BY <4>1
        <5> QED
          BY <2>2, <2>3, <2>4, <2>5, <4>1, <5>1
      <4>2. CASE k # m
        <5>1. k \in 1..m - 1
          BY <4>2
        <5> QED
          BY <2>3, <2>4, <2>5, <5>1
      <4> QED
        BY <4>1, <4>2
    <3>3. ASSUME NEW i \in 1..start' - 1, Solid(i)'
          PROVE  \E k \in DOMAIN chunks' : First(k)' <= i /\ i <= Last(k)'
      <4>1. PICK k \in 1..m : F[k] <= i /\ i <= L[k]
        BY <1>2, <1>4, <2>0, <3>1, <3>3
      <4> QED
        BY <2>1, <2>2, <4>1
    <3>4. ASSUME NEW k \in DOMAIN chunks'
          PROVE  First(k)' > (IF k = 1 THEN 0 ELSE Last(k - 1)') /\ Last(k)' < start'
      <4>1. k \in 1..m
        BY <2>1
      <4>2. k # 1 => k - 1 \in 1..m
        BY <4>1
      <4> QED
        BY <1>4, <2>0, <2>2, <3>2, <4>1, <4>2
    <3> QED
      BY <3>3, <3>4 DEF NothingLost
  <2>9. ChunksBounded'
    <3>1. ASSUME NEW k \in 1..m
          PROVE  L[k] < F[k] + Target /\ Solid(F[k]) /\ Solid(L[k])
      <4>1. CASE k = m
        BY <1>4, <2>2, <2>3, <2>5, <4>1
      <4>2. CASE k # m
        <5>1. k \in 1..m - 1 /\ k \in DOMAIN chunks
          BY <2>0, <2>1, <4>2
        <5> QED
          BY <2>2, <5>1 DEF ChunksBounded, ChunksInv
      <4> QED
        BY <4>1, <4>2
    <3>2. ASSUME NEW k \in DOMAIN chunks'
          PROVE  (Last(k) < First(k) + Target /\ Solid(First(k)) /\ Solid(Last(k)))'
      <4>1. k \in 1..m /\ F[k] = First(k)' /\ L[k] = Last(k)'
        BY <2>1, <2>2
      <4>2. Solid(First(k))' /\ Solid(Last(k))'
        BY <1>2, <3>1, <4>1 DEF Solid
      <4> QED
        BY <1>2, <3>1, <4>1, <4>2
    <3> QED
      BY <3>2 DEF ChunksBounded
  <2>10. WordsWhole'
    <3>1. ASSUME NEW k \in 1..m, Cut(F[k])
          PROVE  /\ F[k] > Target
                 /\ \A i \in F[k] - Target..F[k] : text[i] \notin {"space", "newline"}
      <4>1. CASE k = m
        <5>1. Cut(s)
          BY <2>2, <3>1, <4>1
        <5>2. s = start
          BY <1>4, <2>5, <5>1 DEF Cut
        <5> QED
          BY <2>2, <4>1, <5>1, <5>2 DEF CutInv
      <4>2. CASE k # m
        <5>1. k \in 1..m - 1 /\ k \in DOMAIN chunks
          BY <2>0, <2>1, <4>2
        <5> QED
          BY <2>2, <3>1, <5>1 DEF WordsWhole, ChunksInv
      <4> QED
        BY <4>1, <4>2
    <3>2. ASSUME NEW k \in DOMAIN chunks', Cut(First(k))'
          PROVE  (First(k) > Target /\
                  \A i \in First(k) - Target..First(k) : text[i] \notin {"space", "newline"})'
      <4>1. k \in 1..m /\ F[k] = First(k)'
        BY <2>1, <2>2
      <4>2. Cut(F[k])
        BY <1>2, <3>2, <4>1 DEF Cut, Solid
      <4> QED
        BY <1>2, <3>1, <4>1, <4>2
    <3> QED
      BY <3>2 DEF WordsWhole
  <2>11. PrefersSentences'
    <3>1. ASSUME NEW k \in 1..m,
                 \E i \in F[k]..Limit(F[k]) - 1 : EndsSentence(i) /\ LongEnough(F[k], i + 1)
          PROVE  \E i \in L[k]..Length : EndsSentence(i) /\ \A j \in L[k] + 1..i : ~Solid(j)
      <4>1. CASE k = m
        <5>1. EndsSentence(e - 1)
          BY <2>2, <2>3, <3>1, <4>1
        <5>2. e - 1 \in l..Length
          BY <1>1, <2>3, <2>5
        <5> QED
          BY <1>4, <2>0, <2>2, <4>1, <5>1, <5>2
      <4>2. CASE k # m
        <5>1. k \in 1..m - 1 /\ k \in DOMAIN chunks
          BY <2>0, <2>1, <4>2
        <5> QED
          BY <2>2, <3>1, <5>1 DEF PrefersSentences, AtSentence, ChunksInv
      <4> QED
        BY <4>1, <4>2
    <3>2. ASSUME NEW k \in DOMAIN chunks',
                 (\E i \in First(k)..Limit(First(k)) - 1 :
                    EndsSentence(i) /\ LongEnough(First(k), i + 1))'
          PROVE  AtSentence(k)'
      <4>1. k \in 1..m /\ F[k] = First(k)' /\ L[k] = Last(k)'
        BY <2>1, <2>2
      <4>2. \A i : EndsSentence(i)' <=> EndsSentence(i)
        BY <1>2 DEF EndsSentence, IsSpace
      <4>3. \E i \in F[k]..Limit(F[k]) - 1 : EndsSentence(i) /\ LongEnough(F[k], i + 1)
        BY <1>2, <3>2, <4>1, <4>2 DEF Limit, LongEnough
      <4> QED
        BY <1>2, <3>1, <4>1, <4>2, <4>3 DEF AtSentence
    <3> QED
      BY <3>2 DEF PrefersSentences
  <2>12. ~Blank(chunks')
    BY <1>4, <2>1, <2>5 DEF Blank
  <2> QED
    BY <2>6, <2>7, <2>8, <2>9, <2>10, <2>11, <2>12 DEF ChunksInv
<1> QED
  BY <1>3, <1>4, ChunkCases

(***************************************************************************)
(* The voice.                                                              *)
(***************************************************************************)

(* What is out of a sentence is so only while it is emitted, which begins  *)
(* when all of it has been decoded.                                        *)
PhaseInv ==
  /\ phase # "emit" => out = 0
  /\ phase = "tiles" => /\ backend = "hybrid" /\ frames > 0 /\ decoded <= frames
                        /\ pieces = <<>> => decoded = 0

StrongVoiceInv == VoiceInv /\ PhaseInv

(* A tile begins before what it is for, and has the context of that on     *)
(* either side, or the end of the sentence; what is taken of it grows.     *)
LEMMA TileFacts ==
  ASSUME NEW s \in Nat, frames \in Nat, s < frames
  PROVE  /\ Left(s) \in Nat /\ Left(s) <= s /\ Left(s) <= Greatest(0, s - Context)
         /\ Stop(s) \in Nat /\ s < Stop(s) /\ Stop(s) <= frames
         /\ Stop(s) - Left(s) <= Width
         /\ Least(frames, Stop(s) + Context) <= Left(s) + Width
         /\ frames >= Width => Left(s) + Width <= frames
         /\ Count(s) > 0 /\ Valid(s) > 0 /\ s + Count(s) = Stop(s)
BY TilesAssumption DEF Left, Stop, Stride, Count, Valid, Least, Greatest

(* The invariant holds of a new voice, and of Piper's own. *)
LEMMA VoiceInit == InitVoice \/ InitPiper => StrongVoiceInv
<1> SUFFICES ASSUME InitVoice \/ InitPiper PROVE StrongVoiceInv
  OBVIOUS
<1>1. /\ devices = {} /\ sentences = <<>> /\ frames = 0 /\ decoded = 0 /\ pieces = <<>>
      /\ out = 0 /\ fault = "none" /\ phase \in {"new", "piper"}
      /\ backend \in Backends \union {"cpu"} /\ (backend \in Backends => phase = "new")
  BY DEF InitVoice, InitPiper, Backends
<1>2. <<>> \in Seq(Pieces) /\ <<>> \in Seq({"none", "some", "too-many"})
  OBVIOUS
<1>3. 0 \in 0..MaxFrames
  BY FramesAssumption
<1>4. VoiceTypeOK
  BY <1>1, <1>2, <1>3 DEF VoiceTypeOK, DeviceLists
<1>5. PhaseInv /\ PiecesCover /\ SentencesWhole /\ NoFallback /\ FaultsAreForeign
  BY <1>1 DEF PhaseInv, PiecesCover, SentencesWhole, NoFallback, FaultsAreForeign
<1>6. ContextKept
  <2>1. DOMAIN pieces = {}
    BY <1>1
  <2> QED
    BY <2>1 DEF ContextKept
<1> QED
  BY <1>4, <1>5, <1>6 DEF StrongVoiceInv, VoiceInv

(* A failure keeps the invariant unless a sentence has been heard in part, *)
(* or the voice itself is at fault.                                        *)
LEMMA FailKeeps ==
  ASSUME StrongVoiceInv, phase # "emit", UNCHANGED call,
         NEW why \in {"model-unsupported", "runtime-unavailable", "device-unavailable",
                      "compile-failed", "inference-failed", "output-invalid", "piper"},
         Fail(why)
  PROVE  StrongVoiceInv'
BY DEF StrongVoiceInv, PhaseInv, VoiceInv, VoiceTypeOK, PiecesCover, ContextKept,
   SentencesWhole,
   NoFallback, FaultsAreForeign, Fail, call, Least, Greatest, Backends

(* A voice is ready on no other device than its own, the constructor fails otherwise. *)
LEMMA ConstructStep ==
  ASSUME StrongVoiceInv, Construct
  PROVE  StrongVoiceInv'
<1>1. phase = "new" /\ UNCHANGED call
  BY DEF Construct
<1>2. \/ \E why \in {"model-unsupported", "runtime-unavailable", "device-unavailable",
                     "compile-failed"} : Fail(why)
      \/ \E compiled \in DeviceLists : Compile(TRUE, compiled) /\ ExactDevice(compiled)
  <2>1. PICK model, config \in FileKinds, available, compiled \in DeviceLists,
          runtime, parsed, compiles \in BOOLEAN :
         CASE ~Verified(model, config) -> Fail("model-unsupported")
           [] Verified(model, config) /\ ~runtime -> Fail("runtime-unavailable")
           [] Verified(model, config) /\ runtime /\ ~parsed -> Fail("model-unsupported")
           [] Verified(model, config) /\ runtime /\ parsed ->
                IF Device \in available THEN Compile(compiles, compiled)
                                        ELSE Fail("device-unavailable")
    BY DEF Construct
  <2>2. CASE Verified(model, config) /\ runtime /\ parsed /\ Device \in available
    <3>1. Compile(compiles, compiled)
      BY <2>1, <2>2
    <3>2. CASE compiles /\ ExactDevice(compiled)
      <4>1. Compile(TRUE, compiled)
        BY <3>1, <3>2 DEF Compile
      <4> QED
        BY <3>2, <4>1
    <3>3. CASE ~(compiles /\ ExactDevice(compiled))
      BY <3>1, <3>3 DEF Compile
    <3> QED
      BY <3>2, <3>3
  <2>3. CASE ~(Verified(model, config) /\ runtime /\ parsed /\ Device \in available)
    BY <2>1, <2>3
  <2> QED
    BY <2>2, <2>3
<1>3. CASE \E compiled \in DeviceLists : Compile(TRUE, compiled) /\ ExactDevice(compiled)
  BY <1>1, <1>3 DEF StrongVoiceInv, PhaseInv, VoiceInv, VoiceTypeOK, PiecesCover, ContextKept,
     SentencesWhole,
     NoFallback, FaultsAreForeign, Compile, ExactDevice, Device, DeviceLists, call, Least,
     Greatest, Backends
<1> QED
  BY <1>1, <1>2, <1>3, FailKeeps

(* A tile follows the one before it, and has its context; the checks of    *)
(* the tiling do not fail.                                                 *)
LEMMA TileStep ==
  ASSUME StrongVoiceInv, DecodeTile
  PROVE  StrongVoiceInv'
<1> USE DEF StrongVoiceInv
<1>1. CASE Fail("output-invalid") /\ UNCHANGED call
  BY <1>1, FailKeeps DEF DecodeTile
<1>2. CASE ~(Fail("output-invalid") /\ UNCHANGED call)
  <2> DEFINE p == [left |-> Left(decoded), first |-> decoded, last |-> Stop(decoded)]
             n == Len(pieces)
  <2>1. /\ decoded \in Nat /\ frames \in Nat /\ frames <= MaxFrames /\ MaxFrames \in Nat
        /\ decoded < frames /\ phase = "tiles" /\ backend = "hybrid"
    BY FramesAssumption DEF DecodeTile, VoiceInv, VoiceTypeOK, PhaseInv
  <2>2. /\ Left(decoded) \in Nat /\ Left(decoded) <= decoded
        /\ Left(decoded) <= Greatest(0, decoded - Context)
        /\ Stop(decoded) \in Nat /\ decoded < Stop(decoded) /\ Stop(decoded) <= frames
        /\ Stop(decoded) - Left(decoded) <= Width
        /\ Least(frames, Stop(decoded) + Context) <= Left(decoded) + Width
        /\ frames >= Width => Left(decoded) + Width <= frames
        /\ Count(decoded) > 0 /\ Valid(decoded) > 0 /\ decoded + Count(decoded) = Stop(decoded)
    BY <2>1, TileFacts
  <2>3. ~(Count(decoded) <= 0 \/ Valid(decoded) <= 0 \/ Stop(decoded) - Left(decoded) > Width
             \/ decoded + Count(decoded) > MaxFrames)
    <3>1. Count(decoded) \in Int /\ Valid(decoded) \in Int /\ Width \in Nat
      BY <2>1, <2>2, TilesAssumption DEF Count, Valid, Least
    <3> QED
      BY <2>1, <2>2, <3>1
  <2>4. /\ pieces' = Append(pieces, p) /\ decoded' = Stop(decoded)
        /\ UNCHANGED <<backend, devices, phase, sentences, frames, out, fault>>
    BY <1>2, <2>3 DEF DecodeTile
  <2>5. p \in Pieces /\ p.left = Left(decoded) /\ p.first = decoded /\ p.last = Stop(decoded)
    BY <2>1, <2>2 DEF Pieces
  <2>6. pieces \in Seq(Pieces) /\ n \in Nat
    BY DEF VoiceInv, VoiceTypeOK
  <2> HIDE DEF p
  <2>7. /\ pieces' \in Seq(Pieces) /\ Len(pieces') = n + 1 /\ pieces'[n + 1] = p
        /\ \A k \in 1..n : pieces'[k] = pieces[k]
        /\ DOMAIN pieces = 1..n /\ DOMAIN pieces' = 1..n + 1 /\ pieces' # <<>>
    BY <2>4, <2>5, <2>6
  <2>8. VoiceTypeOK'
    BY <2>1, <2>2, <2>4, <2>7 DEF VoiceInv, VoiceTypeOK
  <2>9. PhaseInv'
    BY <2>1, <2>2, <2>4, <2>7 DEF PhaseInv
  <2>10. PiecesCover'
    <3>1. pieces # <<>> => n >= 1 /\ pieces[n].last = decoded /\ pieces[1].first = out
                           /\ \A k \in 2..n : pieces[k].first = pieces[k - 1].last
      BY <2>1, <2>6 DEF VoiceInv, PiecesCover
    <3>2. pieces = <<>> => n = 0 /\ decoded = 0 /\ out = 0
      BY <2>1 DEF PhaseInv
    <3>3. pieces'[1].first = out
      <4>1. CASE pieces = <<>>
        BY <2>5, <2>7, <3>2, <4>1
      <4>2. CASE pieces # <<>>
        BY <2>6, <2>7, <3>1, <4>2
      <4> QED
        BY <4>1, <4>2
    <3>4. ASSUME NEW k \in 2..n + 1
          PROVE  pieces'[k].first = pieces'[k - 1].last
      <4>1. pieces # <<>> /\ k - 1 \in 1..n
        BY <2>6, <3>2
      <4>2. CASE k = n + 1
        BY <2>5, <2>6, <2>7, <3>1, <4>1, <4>2
      <4>3. CASE k # n + 1
        BY <2>6, <2>7, <3>1, <4>1, <4>3
      <4> QED
        BY <4>2, <4>3
    <3> QED
      BY <2>1, <2>4, <2>5, <2>7, <3>3, <3>4 DEF PiecesCover
  <2>11. ContextKept'
    <3>1. ASSUME NEW k \in 1..n + 1
          PROVE  /\ pieces'[k].left <= Greatest(0, pieces'[k].first - Context)
                 /\ Least(frames, pieces'[k].last + Context) <= pieces'[k].left + Width
                 /\ frames >= Width => pieces'[k].left + Width <= frames
      <4>1. CASE k = n + 1
        BY <2>2, <2>5, <2>7, <4>1
      <4>2. CASE k # n + 1
        <5>1. k \in DOMAIN pieces
          BY <2>6, <2>7, <4>2
        <5> QED
          BY <2>1, <2>7, <5>1 DEF VoiceInv, ContextKept
      <4> QED
        BY <4>1, <4>2
    <3> QED
      BY <2>4, <2>7, <3>1 DEF ContextKept, Least, Greatest
  <2> QED
    BY <2>1, <2>4, <2>8, <2>9, <2>10, <2>11 DEF VoiceInv, SentencesWhole, NoFallback,
       FaultsAreForeign
<1> QED
  BY <1>1, <1>2

(* Emitting the first of the pieces leaves those that follow what is out.  *)
LEMMA EmitStep ==
  ASSUME StrongVoiceInv, Emit
  PROVE  StrongVoiceInv'
<1> USE DEF StrongVoiceInv
<1> DEFINE n == Len(pieces)
<1>1. phase = "emit" /\ UNCHANGED <<backend, devices, sentences, frames, decoded, fault>>
      /\ pieces \in Seq(Pieces) /\ n \in Nat /\ DOMAIN pieces = 1..n
  BY DEF Emit, VoiceInv, VoiceTypeOK
<1>2. CASE pieces = <<>>
  BY <1>1, <1>2, FramesAssumption DEF Emit, VoiceInv, VoiceTypeOK, PhaseInv, PiecesCover,
     ContextKept, SentencesWhole,
     NoFallback, FaultsAreForeign, Least, Greatest
<1>3. CASE pieces # <<>>
  <2>1. /\ n >= 1 /\ pieces' = Tail(pieces) /\ UNCHANGED phase
        /\ out' = out + (pieces[1].last - pieces[1].first)
    BY <1>1, <1>3 DEF Emit
  <2>2. /\ pieces' \in Seq(Pieces) /\ Len(pieces') = n - 1 /\ DOMAIN pieces' = 1..n - 1
        /\ \A k \in 1..n - 1 : pieces'[k] = pieces[k + 1]
    BY <1>1, <1>3, <2>1
  <2>3. /\ pieces[1].first = out /\ pieces[1].last \in 0..MaxFrames /\ out \in 0..MaxFrames
        /\ \A k \in 2..n : pieces[k].first = pieces[k - 1].last
        /\ pieces[n].last = IF backend = "hybrid" THEN decoded ELSE frames
    <3>1. pieces[1] \in Pieces
      BY <1>1, <2>1
    <3> QED
      BY <1>1, <1>3, <3>1 DEF VoiceInv, VoiceTypeOK, PiecesCover, Pieces
  <2>4. out' = pieces[1].last
    BY <2>1, <2>3, FramesAssumption
  <2>5. VoiceTypeOK' /\ PhaseInv'
    BY <1>1, <2>1, <2>2, <2>3, <2>4 DEF VoiceInv, VoiceTypeOK, PhaseInv
  <2>6. PiecesCover'
    <3>1. ASSUME pieces' # <<>>
          PROVE  /\ pieces'[1].first = out' /\ pieces'[n - 1].last = pieces[n].last
                 /\ \A k \in 2..n - 1 : pieces'[k].first = pieces'[k - 1].last
      <4>1. n >= 2
        BY <1>1, <2>1, <2>2, <3>1
      <4>2. /\ pieces'[1] = pieces[2] /\ pieces'[n - 1] = pieces[n]
            /\ pieces[2].first = pieces[1].last
        BY <1>1, <2>2, <2>3, <4>1
      <4>3. ASSUME NEW k \in 2..n - 1
            PROVE  pieces'[k].first = pieces'[k - 1].last
        <5>1. /\ pieces'[k] = pieces[k + 1] /\ pieces'[k - 1] = pieces[k]
              /\ k + 1 \in 2..n /\ (k + 1) - 1 = k
          BY <1>1, <2>2
        <5> QED
          BY <2>3, <5>1
      <4> QED
        BY <2>4, <4>2, <4>3
    <3> QED
      BY <1>1, <2>1, <2>2, <2>3, <3>1 DEF PiecesCover
  <2>7. ContextKept'
    <3>1. ASSUME NEW k \in DOMAIN pieces'
          PROVE  k + 1 \in DOMAIN pieces /\ pieces'[k] = pieces[k + 1]
      BY <1>1, <2>2
    <3> QED
      BY <1>1, <3>1 DEF VoiceInv, ContextKept, Least, Greatest
  <2> QED
    BY <1>1, <2>1, <2>5, <2>6, <2>7 DEF VoiceInv, SentencesWhole, NoFallback, FaultsAreForeign
<1> QED
  BY <1>2, <1>3

(* The steps of a sentence before its tiles, and between them and emission. *)
LEMMA VoiceOtherStep ==
  ASSUME StrongVoiceInv, Phonemize \/ NextSentence \/ Infer \/ Normalize
  PROVE  StrongVoiceInv'
<1> DEFINE Failure == \E why \in {"inference-failed", "output-invalid"} : Fail(why) /\ UNCHANGED call
<1> USE DEF StrongVoiceInv
<1>1. CASE Failure
  BY <1>1, FailKeeps DEF Phonemize, NextSentence, Infer, Normalize
<1>2. CASE Phonemize /\ ~Failure
  <2>1. /\ phase = "phonemes" /\ phase' = "sentence"
        /\ sentences' \in Seq({"none", "some", "too-many"})
        /\ UNCHANGED <<backend, devices, frames, decoded, pieces, out, fault>>
    BY <1>2 DEF Phonemize
  <2> QED
    BY <2>1 DEF VoiceInv, VoiceTypeOK, PhaseInv, PiecesCover, ContextKept, SentencesWhole,
       NoFallback,
       FaultsAreForeign, Least, Greatest
<1>3. CASE NextSentence /\ ~Failure
  <2>1. /\ phase = "sentence" /\ phase' \in {"ready", "sentence", "infer"}
        /\ sentences' \in Seq({"none", "some", "too-many"})
        /\ UNCHANGED <<backend, devices, frames, decoded, pieces, out, fault>>
    <3>1. sentences \in Seq({"none", "some", "too-many"})
      BY DEF VoiceInv, VoiceTypeOK
    <3>2. CASE sentences = <<>>
      BY <1>3, <3>1, <3>2 DEF NextSentence, call
    <3>3. CASE sentences # <<>> /\ Head(sentences) = "too-many"
      BY <1>3, <3>3 DEF NextSentence
    <3>4. CASE sentences # <<>> /\ Head(sentences) # "too-many"
      <4>1. Tail(sentences) \in Seq({"none", "some", "too-many"})
        BY <3>1, <3>4
      <4> QED
        BY <1>3, <3>4, <4>1 DEF NextSentence
    <3> QED
      BY <3>2, <3>3, <3>4
  <2> QED
    BY <2>1 DEF VoiceInv, VoiceTypeOK, PhaseInv, PiecesCover, ContextKept, SentencesWhole,
       NoFallback,
       FaultsAreForeign, Least, Greatest
<1>4. CASE Infer /\ ~Failure
  <2>1. PICK n \in 1..MaxFrames :
          /\ frames' = n /\ decoded' = 0 /\ out' = 0
          /\ IF backend = "hybrid"
               THEN phase' = "tiles" /\ pieces' = <<>>
               ELSE /\ phase' = "emit"
                    /\ pieces' = <<[left |-> 0, first |-> 0, last |-> n]>>
          /\ UNCHANGED <<backend, devices, sentences, fault>>
    BY <1>4 DEF Infer
  <2>2. n \in Nat /\ 0 \in 0..MaxFrames /\ n \in 0..MaxFrames /\ phase = "infer"
    BY <1>4, FramesAssumption DEF Infer
  <2>3. CASE backend = "hybrid"
    BY <2>1, <2>2, <2>3 DEF VoiceInv, VoiceTypeOK, PhaseInv, PiecesCover, ContextKept,
       SentencesWhole, NoFallback,
       FaultsAreForeign
  <2>4. CASE backend # "hybrid"
    <3>1. PICK p \in Pieces : p = [left |-> 0, first |-> 0, last |-> n]
      BY <2>2 DEF Pieces
    <3>2. p.first = 0 /\ p.last = n /\ pieces' = <<p>>
      BY <2>1, <2>4, <3>1
    <3>3. /\ pieces' \in Seq(Pieces) /\ Len(pieces') = 1
          /\ pieces'[1].first = 0 /\ pieces'[1].last = n
      BY <3>2
    <3> QED
      BY <2>1, <2>2, <2>4, <3>3 DEF VoiceInv, VoiceTypeOK, PhaseInv, PiecesCover, ContextKept,
         SentencesWhole, NoFallback, FaultsAreForeign
  <2> QED
    BY <2>3, <2>4
<1>5. CASE Normalize
  BY <1>5 DEF Normalize, call, VoiceInv, VoiceTypeOK, PhaseInv, PiecesCover, ContextKept,
     SentencesWhole,
     NoFallback, FaultsAreForeign, Least, Greatest
<1> QED
  BY <1>1, <1>2, <1>3, <1>4, <1>5

(***************************************************************************)
(* The two together.                                                       *)
(***************************************************************************)
ReadInv == TextInv /\ StrongVoiceInv

(* The invariant holds when a read begins. *)
LEMMA ReadInit == InitRead => ReadInv
BY TextInit, VoiceInit DEF InitRead, ReadInv

(* A call of the voice is never of a blank text. *)
LEMMA CallStep ==
  ASSUME StrongVoiceInv, Synthesize(FALSE)
  PROVE  StrongVoiceInv'
BY DEF Synthesize, call, StrongVoiceInv, VoiceInv, VoiceTypeOK, PhaseInv, PiecesCover,
   ContextKept,
   SentencesWhole, NoFallback, FaultsAreForeign, Least, Greatest

(* A step that changes no variable of the text keeps its invariant.        *)
LEMMA TextKept == TextInv /\ UNCHANGED vars => TextInv'
<1> SUFFICES ASSUME TextInv, UNCHANGED vars PROVE TextInv'
  OBVIOUS
<1>1. UNCHANGED <<text, start, chunks>>
  BY DEF vars
<1>2. ChunkTypes' /\ CutInv'
  BY <1>1 DEF TextInv, ChunkTypes, CutInv, First, Last, Cut, Solid, Length
<1>3. NothingLost' /\ ChunksBounded' /\ WordsWhole'
  BY <1>1 DEF TextInv, ChunksInv, NothingLost, ChunksBounded, WordsWhole, First, Last, Cut,
     Solid, Length
<1>4. PrefersSentences'
  BY <1>1 DEF TextInv, ChunksInv, PrefersSentences, AtSentence, EndsSentence, IsSpace, Limit,
     LongEnough,
     First, Last, Solid, Length
<1> QED
  BY <1>2, <1>3, <1>4 DEF TextInv, ChunksInv

(* The same of the voice.                                                  *)
LEMMA VoiceKept == StrongVoiceInv /\ UNCHANGED voice => StrongVoiceInv'
BY DEF voice, call, StrongVoiceInv, VoiceInv, VoiceTypeOK, PhaseInv, PiecesCover, ContextKept,
   SentencesWhole, NoFallback, FaultsAreForeign, Least, Greatest

(* Every step of a read keeps the invariant. *)
LEMMA ReadStep == ReadInv /\ [NextRead]_systemVars => ReadInv'
<1> SUFFICES ASSUME ReadInv, [NextRead]_systemVars PROVE ReadInv'
  OBVIOUS
<1> USE DEF ReadInv
<1>1. CASE PiperChunk
  <2>1. TextInv'
    BY <1>1, TextStep DEF PiperChunk
  <2>2. phase = "piper" /\ (UNCHANGED voice \/ (Fail("piper") /\ UNCHANGED call))
    BY <1>1 DEF PiperChunk
  <2>3. StrongVoiceInv'
    BY <2>2, VoiceKept, FailKeeps
  <2> QED
    BY <2>1, <2>3
<1>2. CASE TakeChunk
  <2>1. TextInv' /\ (chunks' # chunks => ~Blank(chunks'))
    BY <1>2, TextStep DEF TakeChunk
  <2>2. CASE chunks' = chunks
    BY <1>2, <2>1, <2>2, VoiceKept DEF TakeChunk
  <2>3. CASE chunks' # chunks
    <3>1. Synthesize(Blank(chunks'))
      BY <1>2, <2>3 DEF TakeChunk
    <3>2. Synthesize(FALSE)
      BY <2>1, <2>3, <3>1 DEF Synthesize
    <3> QED
      BY <2>1, <3>2, CallStep
  <2> QED
    BY <2>2, <2>3
<1>3. CASE (Construct \/ VoiceStep) /\ UNCHANGED vars
  <2>1. StrongVoiceInv'
    BY <1>3, ConstructStep, TileStep, EmitStep, VoiceOtherStep DEF VoiceStep
  <2> QED
    BY <1>3, <2>1, TextKept
<1>4. CASE UNCHANGED systemVars
  BY <1>4, TextKept, VoiceKept DEF systemVars
<1> QED
  BY <1>1, <1>2, <1>3, <1>4 DEF NextRead

(* The invariant of a read, text and voice, holds always.                  *)
THEOREM ReadSafe == ReadSpec => []ReadInv
<1>1. ReadInv /\ [NextRead]_systemVars => ReadInv'
  BY ReadStep
<1> QED
  BY <1>1, ReadInit, PTL DEF ReadSpec

(* _speak's chunks are all of the text, in order, each within the target   *)
(* and not blank, cut at the end of a sentence or of a word where the      *)
(* target leaves one: whatever the text, the target and the early end.     *)
THEOREM ChunksSafe == ReadSpec => []ChunksInv
<1>1. ReadInv => ChunksInv
  BY DEF ReadInv, TextInv
<1> QED
  BY <1>1, ReadSafe, PTL

(* AcceleratedVoice emits a sentence as a whole or not at all, every frame *)
(* of it once and decoded with its context, on the device asked for; its   *)
(* checks of the tiling never fail and it is never given a blank text.     *)
THEOREM VoiceSafe == ReadSpec => []VoiceInv
<1>1. ReadInv => VoiceInv
  BY DEF ReadInv, StrongVoiceInv
<1> QED
  BY <1>1, ReadSafe, PTL
=============================================================================
