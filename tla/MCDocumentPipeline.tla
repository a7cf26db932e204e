-------------------------- MODULE MCDocumentPipeline --------------------------
(* Small instances of DocumentPipeline: f1, k1 and k2 belong to one tenant, f2 *)
(* and k3 to another; the text of f2, where it takes part, is blank.          *)
EXTENDS DocumentPipeline, TLC

CONSTANTS f1, f2, k1, k2, k3

MCTenantOf == (f1 :> "a") @@ (f2 :> "b") @@ (k1 :> "a") @@ (k2 :> "a") @@ (k3 :> "b")

\* A lost dispatch only leaves a task out, which a run that nobody fairly
\* starts may do as well: it is left to the runs with fairness.
SafetyFaults == {"qdrant", "crash"}

ProgressFaults == {"broker", "crash"}

NoFaults == {}

\* The cutting of texts into chunks, over small sizes.
Cut == INSTANCE Chunking

ASSUME ChunkingOverSmallSizes ==
  \A words \in 0 .. 12, size \in 1 .. 5, overlap \in 0 .. 6 :
    /\ Cut!EveryWordIsInAChunk(words, size, overlap)
    /\ Cut!NeighboursShareOverlap(words, size, overlap)
    /\ Cut!OnlyTheTailRepeats(words, size, overlap)

Symmetry == Permutations(Runs) \cup Permutations(Deletes)
=============================================================================
