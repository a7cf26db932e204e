------------------------------ MODULE Chunking ------------------------------
(***************************************************************************)
(* How an extracted text is cut into overlapping chunks                    *)
(* (split_text_into_chunks in services/chunking_service.py).  Words are    *)
(* numbered from 0; a chunk is the set of the numbers of its words.        *)
(***************************************************************************)
EXTENDS Integers

\* step = max(1, chunk_size - chunk_overlap)
Step(size, overlap) == IF size - overlap > 1 THEN size - overlap ELSE 1

\* range(0, len(words), step)
Starts(words, size, overlap) == {i \in 0 .. words - 1 : i % Step(size, overlap) = 0}

\* words[i : i + chunk_size]
Chunk(i, words, size) == i .. (IF i + size < words THEN i + size ELSE words) - 1

\* The result: empty chunks are skipped.
Chunks(words, size, overlap) ==
  {Chunk(i, words, size) : i \in Starts(words, size, overlap)} \ {{}}

-----------------------------------------------------------------------------
\* No word of the text is lost, for any chunk size and any overlap, also one that is
\* not smaller than the size (chunking_service.py:24).
EveryWordIsInAChunk(words, size, overlap) ==
  \A w \in 0 .. words - 1 : \E c \in Chunks(words, size, overlap) : w \in c

\* Of two chunks that follow each other the second starts with the last overlap
\* words of the first, unless the text ends before (chunking_service.py:27).
NeighboursShareOverlap(words, size, overlap) ==
  \A i \in Starts(words, size, overlap) :
    LET next == i + Step(size, overlap) IN
    overlap < size /\ i + size <= words /\ next < words =>
      Chunk(i, words, size) \cap Chunk(next, words, size)
        = {w \in Chunk(i, words, size) : w >= i + size - overlap}

\* Only a chunk that reaches the end of the text can repeat nothing but words of
\* another one: a text that ends inside an overlap gets such a chunk
\* (chunking_service.py:27).
OnlyTheTailRepeats(words, size, overlap) ==
  \A i, j \in Starts(words, size, overlap) :
    i # j /\ i + size < words => ~(Chunk(i, words, size) \subseteq Chunk(j, words, size))
=============================================================================
