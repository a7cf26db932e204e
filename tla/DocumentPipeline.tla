--------------------------- MODULE DocumentPipeline ---------------------------
(***************************************************************************)
(* Upload, background indexing, reprocessing, re-association and deletion  *)
(* of files: backend/services/file_service.py, document_pipeline_service,  *)
(* vector_store_service, workers/tasks.py and the start-up seed script.    *)
(*                                                                         *)
(* Three stores are written in one operation and only one of them is       *)
(* transactional.  files and chunks are the COMMITTED PostgreSQL rows: what *)
(* a transaction has flushed but not committed lives in the phase of its   *)
(* run, and the row lock its first UPDATE takes is lock[f].  objects (the  *)
(* disk) and vectors (Qdrant) change at once and are never rolled back.    *)
(* All chunks that one run inserts are one record, named by the run: their *)
(* ids are fresh UUIDs, so no two runs share one.                          *)
(***************************************************************************)
EXTENDS Naturals, FiniteSets

CONSTANTS Files,          \* file ids; an id is used by one upload
          KBs,            \* knowledge bases
          NoKB,           \* files.knowledge_base_id IS NULL
          TenantOf,       \* the tenant of every file and knowledge base
          Blank,          \* files whose extracted text has no word
          Runs,           \* executions of process_file; bounds their number
          Deletes,        \* DELETE requests; bounds their number
          NoFile,         \* the file of a run or request that has not started
          Free,           \* nobody holds the row lock
          Faults          \* what may go wrong: a Qdrant call or the dispatch of a
                          \* task fails (both are swallowed), a process crashes

ASSUME ConstantsOK ==
  /\ NoKB \notin KBs
  /\ NoFile \notin Files
  /\ Free \notin Runs
  /\ Blank \subseteq Files
  /\ Faults \subseteq {"qdrant", "broker", "crash"}

VARIABLES upload,   \* the upload transaction of each file
          files,    \* committed rows of table files
          chunks,   \* committed rows of table document_chunks
          lock,     \* who holds the row lock of each file
          objects,  \* files whose bytes are on disk
          vectors,  \* points of the Qdrant collection
          tasks,    \* process_document_task messages in the broker
          run,      \* executions of process_file
          deletes   \* DELETE requests

vars == <<upload, files, chunks, lock, objects, vectors, tasks, run, deletes>>

-----------------------------------------------------------------------------
MaybeKB == KBs \cup {NoKB}

\* "absent" stands for no committed row.
Row == [status: {"absent", "pending", "processing", "completed", "failed"},
        kb: MaybeKB]

Upload == [phase: {"none", "open", "committed", "aborted"},
           kb: MaybeKB, by: {"api", "seed"}]

\* kb is files.knowledge_base_id as the run's SELECT loaded it.
IdleRun == [phase |-> "idle", caller |-> "worker", file |-> NoFile, kb |-> NoKB]

Run == {IdleRun} \cup
       [phase: {"loaded", "processing", "cleared", "indexed", "committed", "discarded"},
        caller: {"worker", "seed"}, file: Files, kb: MaybeKB]

IdleDelete == [phase |-> "idle", file |-> NoFile]

Delete == {IdleDelete} \cup
          [phase: {"unindexed", "unstored", "done", "crashed"}, file: Files]

\* A chunk row and the Qdrant point made from it carry the same ids.
Point == [file: Files, run: Runs, kb: MaybeKB]

Present(f) == files[f].status # "absent"

SameTenant(f, k) == k # NoKB => TenantOf[k] = TenantOf[f]

HoldsLock(r) == run[r].phase \in {"processing", "cleared", "indexed"}

\* Mutant of PointOf: `knowledge_base_id or file_record.id` picks the file's id.
PointOfFileId(r) == [file |-> run[r].file, run |-> r, kb |-> run[r].file]

PointOf(r) == [file |-> run[r].file, run |-> r, kb |-> run[r].kb]

\* split_text_into_chunks returns no chunk for a text without words.
NewPoints(r) == IF run[r].file \in Blank THEN {} ELSE {PointOf(r)}

\* A Qdrant call happens, or fails and the exception is swallowed.
SetVectors(new) ==
  \/ vectors' = new
  \/ "qdrant" \in Faults /\ UNCHANGED vectors

VectorsWithout(f) == {v \in vectors : v.file # f}

ChunksWithout(f) == {c \in chunks : c.file # f}

-----------------------------------------------------------------------------
Init ==
  /\ upload = [f \in Files |-> [phase |-> "none", kb |-> NoKB, by |-> "api"]]
  /\ files = [f \in Files |-> [status |-> "absent", kb |-> NoKB]]
  /\ chunks = {}
  /\ lock = [f \in Files |-> Free]
  /\ objects = {}
  /\ vectors = {}
  /\ tasks = {}
  /\ run = [r \in Runs |-> IdleRun]
  /\ deletes = [d \in Deletes |-> IdleDelete]

\* upload_file: the bytes are on disk and the INSERT is flushed, and the Celery
\* task is sent, while the request's transaction is still open.
UploadFile(f, k, by) ==
  /\ upload[f].phase = "none"
  /\ SameTenant(f, k)
  /\ by = "seed" => k # NoKB
  /\ upload' = [upload EXCEPT ![f] = [phase |-> "open", kb |-> k, by |-> by]]
  /\ objects' = objects \cup {f}
  /\ \/ tasks' = tasks \cup {f}
     \/ "broker" \in Faults /\ UNCHANGED tasks
  /\ UNCHANGED <<files, chunks, lock, vectors, run, deletes>>

\* get_db (or the seed script) commits the upload's transaction.
UploadCommit(f) ==
  /\ upload[f].phase = "open"
  /\ upload' = [upload EXCEPT ![f].phase = "committed"]
  /\ files' = [files EXCEPT ![f] = [status |-> "pending", kb |-> upload[f].kb]]
  /\ UNCHANGED <<chunks, lock, objects, vectors, tasks, run, deletes>>

\* The process dies, or the commit fails: no row, but the bytes and the task stay.
UploadAbort(f) ==
  /\ "crash" \in Faults
  /\ upload[f].phase = "open"
  /\ upload' = [upload EXCEPT ![f].phase = "aborted"]
  /\ UNCHANGED <<files, chunks, lock, objects, vectors, tasks, run, deletes>>

-----------------------------------------------------------------------------
\* process_file's get_by_id: "File record not found." or a loaded row.
Load(r, f, caller) ==
  /\ run[r].phase = "idle"
  /\ run' = [run EXCEPT ![r] =
       [phase |-> IF Present(f) THEN "loaded" ELSE "discarded",
        caller |-> caller, file |-> f, kb |-> files[f].kb]]

\* A worker takes a task; Celery acknowledges it before it runs.
StartWorker(r, f) ==
  /\ f \in tasks
  /\ tasks' = tasks \ {f}
  /\ Load(r, f, "worker")
  /\ UNCHANGED <<upload, files, chunks, lock, objects, vectors, deletes>>

\* seed() indexes what it uploaded in its own session, once.
StartSeed(r, f) ==
  /\ upload[f].phase = "committed"
  /\ upload[f].by = "seed"
  /\ \A q \in Runs :
       run[q].phase # "idle" /\ run[q].file = f => run[q].caller # "seed"
  /\ Load(r, f, "seed")
  /\ UNCHANGED <<upload, files, chunks, lock, objects, vectors, tasks, deletes>>

\* Mutant of MarkProcessing: no flush, hence no row lock, before the work starts.
MarkWithoutFlush(r) ==
  /\ run[r].phase = "loaded"
  /\ run' = [run EXCEPT ![r].phase = "processing"]
  /\ UNCHANGED <<upload, files, chunks, lock, objects, vectors, tasks, deletes>>

\* Mutant of MarkProcessing: the UPDATE's row count is not looked at.
MarkUnchecked(r) ==
  /\ run[r].phase = "loaded"
  /\ lock[run[r].file] = Free
  /\ lock' = [lock EXCEPT ![run[r].file] = r]
  /\ run' = [run EXCEPT ![r].phase = "processing"]
  /\ UNCHANGED <<upload, files, chunks, objects, vectors, tasks, deletes>>

\* The flush of processing_status = "processing": the UPDATE waits for the row
\* lock, and matches no row (StaleDataError) if the file is gone by then.
MarkProcessing(r) ==
  LET f == run[r].file IN
  /\ run[r].phase = "loaded"
  /\ lock[f] = Free
  /\ IF Present(f)
     THEN /\ lock' = [lock EXCEPT ![f] = r]
          /\ run' = [run EXCEPT ![r].phase = "processing"]
     ELSE /\ run' = [run EXCEPT ![r].phase = "discarded"]
          /\ UNCHANGED lock
  /\ UNCHANGED <<upload, files, chunks, objects, vectors, tasks, deletes>>

\* Mutant of ClearOld: the old chunk rows are deleted outside the transaction.
ClearOldAtOnce(r) ==
  /\ run[r].phase = "processing"
  /\ run[r].file \in objects
  /\ run' = [run EXCEPT ![r].phase = "cleared"]
  /\ chunks' = ChunksWithout(run[r].file)
  /\ SetVectors(VectorsWithout(run[r].file))
  /\ UNCHANGED <<upload, files, lock, objects, tasks, deletes>>

\* The bytes are read and split; the old chunk rows are deleted inside the
\* transaction, the old vectors for everybody.
ClearOld(r) ==
  /\ run[r].phase = "processing"
  /\ run[r].file \in objects
  /\ run' = [run EXCEPT ![r].phase = "cleared"]
  /\ SetVectors(VectorsWithout(run[r].file))
  /\ UNCHANGED <<upload, files, chunks, lock, objects, tasks, deletes>>

\* The new chunk rows are flushed, then upserted.  Without a knowledge base the
\* rows carry the file's id as knowledge_base_id, which the foreign key refuses.
IndexChunks(r) ==
  /\ run[r].phase = "cleared"
  /\ run[r].kb # NoKB \/ run[r].file \in Blank
  /\ run' = [run EXCEPT ![r].phase = "indexed"]
  /\ SetVectors(vectors \cup NewPoints(r))
  /\ UNCHANGED <<upload, files, chunks, lock, objects, tasks, deletes>>

\* Mutant of SeedCommit: the session stays open after the last write.
SeedCommitKeepsLock(r) ==
  LET f == run[r].file IN
  /\ run[r].phase = "indexed"
  /\ run[r].caller = "seed"
  /\ run' = [run EXCEPT ![r].phase = "committed"]
  /\ files' = [files EXCEPT ![f].status = "completed"]
  /\ chunks' = ChunksWithout(f) \cup NewPoints(r)
  /\ UNCHANGED <<upload, lock, objects, vectors, tasks, deletes>>

\* Mutant of SeedCommit: the whole row is written, as the run loaded it.
SeedCommitWholeRow(r) ==
  LET f == run[r].file IN
  /\ run[r].phase = "indexed"
  /\ run[r].caller = "seed"
  /\ run' = [run EXCEPT ![r].phase = "committed"]
  /\ files' = [files EXCEPT ![f] = [status |-> "completed", kb |-> run[r].kb]]
  /\ chunks' = ChunksWithout(f) \cup NewPoints(r)
  /\ lock' = [lock EXCEPT ![f] = Free]
  /\ UNCHANGED <<upload, objects, vectors, tasks, deletes>>

\* seed() commits after process_file: the chunk rows and the status together.
\* Only the changed columns are written, so a concurrent re-association stays.
SeedCommit(r) ==
  LET f == run[r].file IN
  /\ run[r].phase = "indexed"
  /\ run[r].caller = "seed"
  /\ run' = [run EXCEPT ![r].phase = "committed"]
  /\ files' = [files EXCEPT ![f].status = "completed"]
  /\ chunks' = ChunksWithout(f) \cup NewPoints(r)
  /\ lock' = [lock EXCEPT ![f] = Free]
  /\ UNCHANGED <<upload, objects, vectors, tasks, deletes>>

\* Mutant of Discard: a failed run's session is never closed.
DiscardKeepsLock(r) ==
  /\ run' = [run EXCEPT ![r].phase = "discarded"]
  /\ UNCHANGED <<upload, files, chunks, lock, objects, vectors, tasks, deletes>>

\* The transaction rolls back and its lock goes; disk and Qdrant stay as they are.
Discard(r) ==
  LET f == run[r].file IN
  /\ run' = [run EXCEPT ![r].phase = "discarded"]
  /\ lock' = [lock EXCEPT ![f] = IF lock[f] = r THEN Free ELSE @]
  /\ UNCHANGED <<upload, files, chunks, objects, vectors, tasks, deletes>>

\* process_document_task returns: `with SessionLocal()` closes without a commit.
WorkerReturn(r) ==
  /\ run[r].phase = "indexed"
  /\ run[r].caller = "worker"
  /\ Discard(r)

\* The bytes are gone, or the chunk rows break the foreign key.
CannotProceed(r) ==
  \/ run[r].phase = "processing" /\ run[r].file \notin objects
  \/ run[r].phase = "cleared" /\ run[r].kb = NoKB /\ run[r].file \notin Blank

\* An exception, or a crash at any point.  The except branch flushes "failed",
\* but every caller rolls back when process_file raises.
RunFails(r) ==
  /\ \/ CannotProceed(r)
     \/ /\ "crash" \in Faults
        /\ run[r].phase \in {"loaded", "processing", "cleared", "indexed"}
  /\ Discard(r)

-----------------------------------------------------------------------------
\* POST /files/{id}/reprocess.  A row loaded as pending is not updated at all.
ReprocessFile(f) ==
  /\ files[f].status \notin {"absent", "pending"}
  /\ lock[f] = Free
  /\ files' = [files EXCEPT ![f].status = "pending"]
  /\ UNCHANGED <<upload, chunks, lock, objects, vectors, tasks, run, deletes>>

\* Mutant of AssociateFile: the knowledge base is looked up without its tenant.
AssociateAnyTenant(f, k) ==
  /\ Present(f)
  /\ files[f].kb # k
  /\ lock[f] = Free
  /\ files' = [files EXCEPT ![f].kb = k]
  /\ UNCHANGED <<upload, chunks, lock, objects, vectors, tasks, run, deletes>>

\* POST /knowledge-bases/{id}/files.
AssociateFile(f, k) ==
  /\ Present(f)
  /\ SameTenant(f, k)
  /\ files[f].kb # k
  /\ lock[f] = Free
  /\ files' = [files EXCEPT ![f].kb = k]
  /\ UNCHANGED <<upload, chunks, lock, objects, vectors, tasks, run, deletes>>

-----------------------------------------------------------------------------
\* delete_file, in its order: vectors, bytes, then the row and the commit.
DeleteVectors(d, f) ==
  /\ deletes[d].phase = "idle"
  /\ Present(f)
  /\ deletes' = [deletes EXCEPT ![d] = [phase |-> "unindexed", file |-> f]]
  /\ SetVectors(VectorsWithout(f))
  /\ UNCHANGED <<upload, files, chunks, lock, objects, tasks, run>>

DeleteObject(d) ==
  /\ deletes[d].phase = "unindexed"
  /\ deletes' = [deletes EXCEPT ![d].phase = "unstored"]
  /\ objects' = objects \ {deletes[d].file}
  /\ UNCHANGED <<upload, files, chunks, lock, vectors, tasks, run>>

\* Mutant of DeleteRow: document_chunks.file_id without ON DELETE CASCADE.
DeleteRowNoCascade(d) ==
  LET f == deletes[d].file IN
  /\ deletes[d].phase = "unstored"
  /\ lock[f] = Free
  /\ deletes' = [deletes EXCEPT ![d].phase = "done"]
  /\ files' = [files EXCEPT ![f] = [status |-> "absent", kb |-> NoKB]]
  /\ UNCHANGED <<upload, chunks, lock, objects, vectors, tasks, run>>

\* Mutant of DeleteRow: the explicit commit is missing and the request fails.
DeleteRowUncommitted(d) ==
  /\ deletes[d].phase = "unstored"
  /\ lock[deletes[d].file] = Free
  /\ deletes' = [deletes EXCEPT ![d].phase = "done"]
  /\ UNCHANGED <<upload, files, chunks, lock, objects, vectors, tasks, run>>

\* The DELETE waits for the row lock and cascades to the chunk rows; a row that
\* another request deleted first is not an error.
DeleteRow(d) ==
  LET f == deletes[d].file IN
  /\ deletes[d].phase = "unstored"
  /\ lock[f] = Free
  /\ deletes' = [deletes EXCEPT ![d].phase = "done"]
  /\ files' = [files EXCEPT ![f] = [status |-> "absent", kb |-> NoKB]]
  /\ chunks' = ChunksWithout(f)
  /\ UNCHANGED <<upload, lock, objects, vectors, tasks, run>>

DeleteCrash(d) ==
  /\ "crash" \in Faults
  /\ deletes[d].phase \in {"unindexed", "unstored"}
  /\ deletes' = [deletes EXCEPT ![d].phase = "crashed"]
  /\ UNCHANGED <<upload, files, chunks, lock, objects, vectors, tasks, run>>

-----------------------------------------------------------------------------
RunStep(r) ==
  \/ MarkProcessing(r)
  \/ ClearOld(r)
  \/ IndexChunks(r)
  \/ SeedCommit(r)
  \/ WorkerReturn(r)
  \/ RunFails(r)

DeleteStep(d) == DeleteObject(d) \/ DeleteRow(d)

Next ==
  \/ \E f \in Files :
       \/ \E k \in MaybeKB, by \in {"api", "seed"} : UploadFile(f, k, by)
       \/ UploadCommit(f)
       \/ UploadAbort(f)
       \/ ReprocessFile(f)
       \/ \E k \in KBs : AssociateFile(f, k)
       \/ \E r \in Runs : StartWorker(r, f) \/ StartSeed(r, f)
       \/ \E d \in Deletes : DeleteVectors(d, f)
  \/ \E r \in Runs : RunStep(r)
  \/ \E d \in Deletes : DeleteStep(d) \/ DeleteCrash(d)

Spec == Init /\ [][Next]_vars

\* A process that runs keeps running: a worker, the seed script and a DELETE
\* request take their next step unless they crash, and an idle worker takes a
\* waiting task.  Requests of clients, crashes and aborts are under no fairness.
FairSpec ==
  /\ Spec
  /\ \A r \in Runs : WF_vars(RunStep(r))
  /\ \A d \in Deletes : WF_vars(DeleteStep(d))
  /\ \A f \in Files : WF_vars(\E r \in Runs : StartWorker(r, f))

-----------------------------------------------------------------------------
(* Properties *)

\* Every variable has its type.
TypeOK ==
  /\ upload \in [Files -> Upload]
  /\ files \in [Files -> Row]
  /\ chunks \subseteq Point
  /\ lock \in [Files -> Runs \cup {Free}]
  /\ objects \subseteq Files
  /\ vectors \subseteq Point
  /\ tasks \subseteq Files
  /\ run \in [Runs -> Run]
  /\ deletes \in [Deletes -> Delete]

\* What a search of knowledge base k may find, whatever the query and the ranking.
\* Without Qdrant it finds nothing: the index in memory is the request's own.
Hits(k) == {v \in vectors : v.kb = k}

\* The hits that become evidence: those whose chunk row still exists.
Retrievable(k) == {v \in Hits(k) : \E c \in chunks : c.run = v.run}

\* Evidence never comes from a file whose row is deleted, nor from an indexing
\* that was rolled back or is still running, however indexing, crashes and a
\* deletion interleave.
EvidenceIsLive ==
  \A k \in KBs : \A v \in Retrievable(k) :
    Present(v.file) /\ run[v.run].phase = "committed"

\* A file reported as completed has its chunk rows (unless its text is blank),
\* whatever runs after it.
CompletedHasChunks ==
  \A f \in Files : files[f].status = "completed" =>
    f \in Blank \/ \E c \in chunks : c.file = f

\* The files row lock also keeps Qdrant in order: as long as its calls
\* succeed, the collection never holds two generations of one file.
OneVectorGeneration ==
  "qdrant" \notin Faults =>
    \A v1, v2 \in vectors : v1.file = v2.file => v1 = v2

\* A chunk row never carries a knowledge base of another tenant, though a run
\* uses the knowledge_base_id it loaded before it got the row lock.
ChunksStayInTenant ==
  \A c \in chunks : SameTenant(c.file, c.kb)

\* A committed file row has its bytes on disk unless a deletion of that file
\* removed them and has not (or not yet) removed the row.
RowHasObject ==
  \A f \in Files : Present(f) /\ f \notin objects =>
    \E d \in Deletes :
      deletes[d].file = f /\ deletes[d].phase \in {"unstored", "crashed"}

\* The row lock of a file is held by exactly one run in mid-transaction, and
\* such a run's row exists: a deletion has to wait for it.
LockDiscipline ==
  /\ \A r \in Runs : HoldsLock(r) =>
       lock[run[r].file] = r /\ Present(run[r].file)
  /\ \A f \in Files : lock[f] # Free =>
       HoldsLock(lock[f]) /\ run[lock[f]].file = f

\* Committed rows: only of committed uploads, in a durable status, and in a
\* knowledge base of their own tenant; so is the knowledge base a run loaded.
RowsAreSound ==
  /\ \A f \in Files :
       /\ Present(f) => upload[f].phase = "committed"
       /\ ~Present(f) => files[f].kb = NoKB
       /\ files[f].status \in {"absent", "pending", "completed"}
       /\ SameTenant(f, files[f].kb)
       /\ SameTenant(f, upload[f].kb)
  /\ \A r \in Runs : run[r].phase # "idle" => SameTenant(run[r].file, run[r].kb)

\* Chunk rows and points come from the run they name; a chunk row's run has
\* committed, and its file's row exists.
IndexIsSound ==
  /\ \A c \in chunks : /\ Present(c.file)
                       /\ run[c.run].phase = "committed"
                       /\ c = PointOf(c.run)
  /\ \A v \in vectors : /\ run[v.run].phase \in {"indexed", "committed", "discarded"}
                        /\ v = PointOf(v.run)

\* Between its delete and its upsert a run finds no point of its file.
ClearedMeansNoVector ==
  "qdrant" \notin Faults =>
    \A r \in Runs : run[r].phase = "cleared" =>
      \A v \in vectors : v.file # run[r].file

\* The bytes of an open upload are on disk: deletions only touch committed ones.
UploadHasBytes ==
  /\ \A f \in Files : upload[f].phase = "open" => f \in objects
  /\ \A d \in Deletes : deletes[d].phase # "idle" =>
       upload[deletes[d].file].phase = "committed"

\* The inductive invariant behind the safety theorems.
IInv ==
  /\ TypeOK
  /\ LockDiscipline
  /\ RowsAreSound
  /\ IndexIsSound
  /\ ClearedMeansNoVector
  /\ OneVectorGeneration
  /\ UploadHasBytes
  /\ RowHasObject
  /\ CompletedHasChunks

\* The refinement mapping: what FileCatalog says of a file without a row.
CatalogStatus(f) ==
  IF Present(f) THEN files[f].status
  ELSE IF upload[f].phase = "committed" THEN "gone" ELSE "unborn"

Catalog == INSTANCE FileCatalog WITH
  Generations <- Runs,
  status <- [f \in Files |-> CatalogStatus(f)],
  kb <- [f \in Files |-> files[f].kb],
  spent <- {r \in Runs : run[r].phase = "committed"}

\* The pipeline implements the catalogue: chunks are replaced as a whole and
\* together with the status, and a deleted file never comes back.
ImplementsCatalog == Catalog!Spec

\* A row lock taken by an indexing is always released, so that deletions,
\* re-associations and other indexings of the file are not blocked for ever.
LockReleased == \A f \in Files : lock[f] # Free ~> lock[f] = Free

\* A deletion that does not crash removes the row and leaves no bytes behind,
\* although indexings hold the row lock while it waits.
DeleteCompletes ==
  \A d \in Deletes, f \in Files :
    (deletes[d].phase = "unindexed" /\ deletes[d].file = f) ~>
      \/ deletes[d].phase = "crashed"
      \/ deletes[d].phase = "done" /\ ~Present(f) /\ f \notin objects

\* plan/12 and plan/13: a file that an undisturbed worker has indexed is
\* reported as completed (or failed).
UploadIsProcessed ==
  \A f \in Files :
    (f \in tasks /\ upload[f].phase = "committed") ~>
      files[f].status \in {"completed", "failed", "absent"}

\* plan/13: a file reported as completed is searchable, at least when no
\* indexing is in flight and nobody has asked for its deletion.
CompletedIsSearchable ==
  \A f \in Files \ Blank :
    /\ files[f].status = "completed"
    /\ lock[f] = Free
    /\ \A d \in Deletes : deletes[d].file # f
    => \E k \in KBs : \E v \in Retrievable(k) : v.file = f
=============================================================================
