----------------------------- MODULE FileCatalog -----------------------------
(***************************************************************************)
(* What the document side of the platform promises about an uploaded file, *)
(* with no workers, locks, search index or storage in sight: a file is     *)
(* registered once, its chunks are only ever replaced as a whole by one    *)
(* fresh generation, and a removed file is gone for good, chunks included. *)
(* DocumentPipeline.tla implements this.                                   *)
(***************************************************************************)
CONSTANTS Files,        \* file ids
          KBs,          \* knowledge base ids
          NoKB,         \* a file may belong to no knowledge base
          Generations,  \* one id per indexing of a file
          Blank,        \* the files whose text has no word, hence no chunk
          TenantOf      \* the tenant that owns a file or a knowledge base

VARIABLES status,   \* files.processing_status, or why there is no row
          kb,       \* files.knowledge_base_id
          chunks,   \* the document_chunks rows, one record per generation
          spent     \* generations published so far

vars == <<status, kb, chunks, spent>>

Known(f) == status[f] \in {"pending", "completed"}

SameTenant(f, k) == k # NoKB => TenantOf[k] = TenantOf[f]

ChunksOf(f) == {c \in chunks : c.file = f}

Generation(f, g, k) ==
  IF f \in Blank THEN {} ELSE {[file |-> f, run |-> g, kb |-> k]}

-----------------------------------------------------------------------------
Init ==
  /\ status = [f \in Files |-> "unborn"]
  /\ kb = [f \in Files |-> NoKB]
  /\ chunks = {}
  /\ spent = {}

Register(f, k) ==
  /\ status[f] = "unborn"
  /\ SameTenant(f, k)
  /\ status' = [status EXCEPT ![f] = "pending"]
  /\ kb' = [kb EXCEPT ![f] = k]
  /\ UNCHANGED <<chunks, spent>>

\* The new generation replaces the old one in the step that completes the file.
Publish(f, g, k) ==
  /\ Known(f)
  /\ g \notin spent
  /\ SameTenant(f, k)
  /\ status' = [status EXCEPT ![f] = "completed"]
  /\ chunks' = (chunks \ ChunksOf(f)) \cup Generation(f, g, k)
  /\ spent' = spent \cup {g}
  /\ UNCHANGED kb

\* Reprocessing keeps the published chunks until a new generation replaces them.
Reset(f) ==
  /\ Known(f)
  /\ status' = [status EXCEPT ![f] = "pending"]
  /\ UNCHANGED <<kb, chunks, spent>>

Assign(f, k) ==
  /\ Known(f)
  /\ k # NoKB
  /\ SameTenant(f, k)
  /\ kb' = [kb EXCEPT ![f] = k]
  /\ UNCHANGED <<status, chunks, spent>>

Remove(f) ==
  /\ Known(f)
  /\ status' = [status EXCEPT ![f] = "gone"]
  /\ kb' = [kb EXCEPT ![f] = NoKB]
  /\ chunks' = chunks \ ChunksOf(f)
  /\ UNCHANGED spent

Next ==
  \E f \in Files :
    \/ \E k \in KBs \cup {NoKB} : Register(f, k)
    \/ \E k \in KBs \cup {NoKB}, g \in Generations : Publish(f, g, k)
    \/ Reset(f)
    \/ \E k \in KBs : Assign(f, k)
    \/ Remove(f)

Spec == Init /\ [][Next]_vars
=============================================================================
