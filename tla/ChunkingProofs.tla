--------------------------- MODULE ChunkingProofs ---------------------------
(* What split_text_into_chunks returns, for texts and sizes of every length. *)
EXTENDS Chunking, TLAPS

\* The window always advances, and by no more than its size.
LEMMA StepAdvances ==
  ASSUME NEW size \in Nat \ {0}, NEW overlap \in Nat
  PROVE  Step(size, overlap) \in 1 .. size
BY DEF Step

\* A multiple of the step is the start of a chunk.
LEMMA MultipleOfStep ==
  ASSUME NEW s \in Nat \ {0}, NEW k \in Nat, NEW i \in Nat, i = s * k
  PROVE  i % s = 0
<1> DEFINE q == i \div s
           r == i % s
<1>1. q \in Int /\ r \in 0 .. s - 1 /\ i = s * q + r
  OBVIOUS
<1> HIDE DEF q, r
<1>2. s * (k - q) = r
  BY <1>1
<1>3. k - q <= 0
  <2> SUFFICES ASSUME k - q >= 1 PROVE FALSE
    BY <1>1
  <2>1. s * (k - q) >= s * 1
    BY <1>1
  <2> QED BY <1>1, <1>2, <2>1
<1>4. k - q >= 0
  <2> SUFFICES ASSUME k - q <= -1 PROVE FALSE
    BY <1>1
  <2>1. s * (k - q) <= s * (-1)
    BY <1>1
  <2> QED BY <1>1, <1>2, <2>1
<1>5. r = 0
  BY <1>1, <1>2, <1>3, <1>4
<1> QED BY <1>5 DEF r

\* Every word of every text is in a chunk (chunking_service.py:24-28).
THEOREM NoWordIsLost ==
  ASSUME NEW words \in Nat, NEW size \in Nat \ {0}, NEW overlap \in Nat
  PROVE  EveryWordIsInAChunk(words, size, overlap)
<1> DEFINE s == Step(size, overlap)
<1>1. s \in 1 .. size
  BY StepAdvances
<1> SUFFICES ASSUME NEW w \in 0 .. words - 1
             PROVE  \E c \in Chunks(words, size, overlap) : w \in c
  BY DEF EveryWordIsInAChunk
<1> DEFINE i == w - (w % s)
<1>2. w % s \in 0 .. s - 1 /\ i \in 0 .. w
  BY <1>1
<1>3. i % s = 0
  <2> HIDE DEF s
  <2> DEFINE k == w \div s
  <2>1. i = s * k /\ k \in Nat
    BY <1>1
  <2>2. i \in Nat /\ s \in Nat \ {0}
    BY <1>1, <1>2
  <2> HIDE DEF i, k
  <2> QED BY <2>1, <2>2, MultipleOfStep
<1>4. i \in Starts(words, size, overlap)
  BY <1>2, <1>3 DEF Starts
<1>5. w \in Chunk(i, words, size)
  BY <1>1, <1>2 DEF Chunk
<1> HIDE DEF i
<1> QED BY <1>4, <1>5 DEF Chunks

\* Chunks that follow each other share the overlap (chunking_service.py:24-28).
THEOREM OverlapIsShared ==
  ASSUME NEW words \in Nat, NEW size \in Nat \ {0}, NEW overlap \in Nat
  PROVE  NeighboursShareOverlap(words, size, overlap)
<1> SUFFICES ASSUME NEW i \in Starts(words, size, overlap), overlap < size, i + size <= words,
                    i + Step(size, overlap) < words
             PROVE  Chunk(i, words, size) \cap Chunk(i + Step(size, overlap), words, size)
                      = {w \in Chunk(i, words, size) : w >= i + size - overlap}
  BY DEF NeighboursShareOverlap
<1>1. i \in 0 .. words - 1
  BY DEF Starts
<1>2. Step(size, overlap) = size - overlap
  BY DEF Step
<1> QED BY <1>1, <1>2 DEF Chunk

\* Only chunks at the end of the text repeat what another has
\* (chunking_service.py:24-28).
THEOREM RepetitionEndsTheText ==
  ASSUME NEW words \in Nat, NEW size \in Nat \ {0}, NEW overlap \in Nat
  PROVE  OnlyTheTailRepeats(words, size, overlap)
<1> SUFFICES ASSUME NEW i \in Starts(words, size, overlap), NEW j \in Starts(words, size, overlap),
                    i # j, i + size < words, Chunk(i, words, size) \subseteq Chunk(j, words, size)
             PROVE  FALSE
  BY DEF OnlyTheTailRepeats
<1>1. i \in 0 .. words - 1 /\ j \in 0 .. words - 1
  BY DEF Starts
<1>2. i \in Chunk(i, words, size) /\ i + size - 1 \in Chunk(i, words, size)
  BY <1>1 DEF Chunk
<1>3. i \in Chunk(j, words, size) /\ i + size - 1 \in Chunk(j, words, size)
  BY <1>2
<1>4. j <= i /\ i + size - 1 <= j + size - 1
  BY <1>1, <1>3 DEF Chunk
<1> QED BY <1>1, <1>4

\* A text has no chunk exactly if it has no word (chunking_service.py:20): the set Blank
\* of DocumentPipeline holds all files that can complete without a chunk row
\* (document_pipeline_service.py:80), whatever the size and the overlap.
THEOREM OnlyBlankTextsHaveNoChunks ==
  ASSUME NEW words \in Nat, NEW size \in Nat \ {0}, NEW overlap \in Nat
  PROVE  Chunks(words, size, overlap) = {} <=> words = 0
<1>1. ASSUME words = 0 PROVE Starts(words, size, overlap) = {}
  BY <1>1 DEF Starts
<1>2. ASSUME words # 0 PROVE \E c \in Chunks(words, size, overlap) : 0 \in c
  <2>1. 0 \in 0 .. words - 1
    BY <1>2
  <2> QED BY <2>1, NoWordIsLost DEF EveryWordIsInAChunk
<1>3. ASSUME words = 0 PROVE Chunks(words, size, overlap) = {}
  BY <1>3, <1>1 DEF Chunks
<1> QED BY <1>2, <1>3
=============================================================================
