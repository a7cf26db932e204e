------------------------ MODULE DocumentPipelineProofs ------------------------
(***************************************************************************)
(* Theorems about DocumentPipeline, for any number of files, knowledge     *)
(* bases, runs and deletions and any combination of faults.                *)
(***************************************************************************)
EXTENDS DocumentPipeline, TLAPS

(***************************************************************************)
(* Type correctness.  A field of one record of an array is assigned in most *)
(* actions: the first lemmas say, per array, that its type survives that.  *)
(***************************************************************************)
LEMMA UploadPhase ==
  ASSUME TypeOK, NEW f \in Files, NEW p \in {"none", "open", "committed", "aborted"}
  PROVE  [upload EXCEPT ![f].phase = p] \in [Files -> Upload]
<1>1. [upload[f] EXCEPT !.phase = p] \in Upload
  BY DEF TypeOK, Upload
<1>2. QED
  BY <1>1 DEF TypeOK

\* A write of processing_status keeps the rows well typed.
LEMMA FileStatus ==
  ASSUME TypeOK, NEW f \in Files, NEW s \in {"absent", "pending", "completed"}
  PROVE  [files EXCEPT ![f].status = s] \in [Files -> Row]
<1>1. [files[f] EXCEPT !.status = s] \in Row
  BY DEF TypeOK, Row
<1>2. QED
  BY <1>1 DEF TypeOK

\* A write of knowledge_base_id keeps the rows well typed.
LEMMA FileKB ==
  ASSUME TypeOK, NEW f \in Files, NEW k \in MaybeKB
  PROVE  [files EXCEPT ![f].kb = k] \in [Files -> Row]
<1>1. [files[f] EXCEPT !.kb = k] \in Row
  BY DEF TypeOK, Row
<1>2. QED
  BY <1>1 DEF TypeOK

\* A run that has started is a record with a file, whichever its phase.
LEMMA StartedRun ==
  ASSUME TypeOK, NEW r \in Runs, run[r].phase # "idle"
  PROVE  /\ run[r] \in [phase: {"loaded", "processing", "cleared", "indexed",
                                "committed", "discarded"},
                        caller: {"worker", "seed"}, file: Files, kb: MaybeKB]
         /\ run[r].file \in Files
         /\ run[r].kb \in MaybeKB
BY DEF TypeOK, Run, IdleRun

\* A run that has started keeps its type when it moves on.
LEMMA RunPhase ==
  ASSUME TypeOK, NEW r \in Runs, run[r].phase # "idle",
         NEW p \in {"loaded", "processing", "cleared", "indexed", "committed", "discarded"}
  PROVE  [run EXCEPT ![r].phase = p] \in [Runs -> Run]
<1>1. [run[r] EXCEPT !.phase = p] \in Run
  BY StartedRun DEF Run
<1>2. QED
  BY <1>1 DEF TypeOK

\* A deletion that has started is a record with a file.
LEMMA StartedDelete ==
  ASSUME TypeOK, NEW d \in Deletes, deletes[d].phase # "idle"
  PROVE  /\ deletes[d] \in [phase: {"unindexed", "unstored", "done", "crashed"},
                            file: Files]
         /\ deletes[d].file \in Files
BY DEF TypeOK, Delete, IdleDelete

\* A deletion that has started keeps its type when it moves on.
LEMMA DeletePhase ==
  ASSUME TypeOK, NEW d \in Deletes, deletes[d].phase # "idle",
         NEW p \in {"unindexed", "unstored", "done", "crashed"}
  PROVE  [deletes EXCEPT ![d].phase = p] \in [Deletes -> Delete]
<1>1. [deletes[d] EXCEPT !.phase = p] \in Delete
  BY StartedDelete DEF Delete
<1>2. QED
  BY <1>1 DEF TypeOK

\* A run that ends without a commit was under way.
LEMMA EndOfRun ==
  ASSUME NEW r, WorkerReturn(r) \/ RunFails(r)
  PROVE  run[r].phase \in {"loaded", "processing", "cleared", "indexed"} /\ Discard(r)
BY DEF WorkerReturn, RunFails, CannotProceed

\* The points a run makes are well typed.
LEMMA PointType ==
  ASSUME TypeOK, NEW r \in Runs, run[r].phase # "idle"
  PROVE  PointOf(r) \in Point /\ NewPoints(r) \subseteq Point
BY StartedRun DEF Point, PointOf, NewPoints

\* The initial state is well typed.
LEMMA InitType == Init => TypeOK
BY ConstantsOK DEF Init, TypeOK, Upload, Row, Run, IdleRun, Delete, IdleDelete, MaybeKB

\* Every step keeps the types: one action at a time.
LEMMA NextType == TypeOK /\ [Next]_vars => TypeOK'
<1> SUFFICES ASSUME TypeOK, [Next]_vars PROVE TypeOK'
  OBVIOUS
<1> USE DEF TypeOK
<1>1. ASSUME NEW f \in Files, NEW k \in MaybeKB, NEW by \in {"api", "seed"},
             UploadFile(f, k, by)
      PROVE  TypeOK'
  BY <1>1 DEF UploadFile, Upload
<1>2. ASSUME NEW f \in Files, UploadCommit(f) PROVE TypeOK'
  <2>1. [status |-> "pending", kb |-> upload[f].kb] \in Row
    BY DEF Row, Upload
  <2>2. QED
    BY <1>2, <2>1, UploadPhase DEF UploadCommit
<1>3. ASSUME NEW f \in Files, UploadAbort(f) PROVE TypeOK'
  BY <1>3, UploadPhase DEF UploadAbort
<1>4. ASSUME NEW f \in Files, ReprocessFile(f) PROVE TypeOK'
  BY <1>4, FileStatus DEF ReprocessFile
<1>5. ASSUME NEW f \in Files, NEW k \in KBs, AssociateFile(f, k) PROVE TypeOK'
  BY <1>5, FileKB DEF AssociateFile, MaybeKB
<1>6. ASSUME NEW f \in Files, NEW r \in Runs, NEW c \in {"worker", "seed"},
             Load(r, f, c)
      PROVE  run' \in [Runs -> Run]
  <2>1. files[f].kb \in MaybeKB
    BY DEF Row
  <2>2. QED
    BY <1>6, <2>1 DEF Load, Run
<1>7. ASSUME NEW f \in Files, NEW r \in Runs, StartWorker(r, f) \/ StartSeed(r, f)
      PROVE  TypeOK'
  BY <1>6, <1>7 DEF StartWorker, StartSeed
<1>8. ASSUME NEW f \in Files, NEW d \in Deletes, DeleteVectors(d, f) PROVE TypeOK'
  BY <1>8 DEF DeleteVectors, SetVectors, VectorsWithout, Delete
<1>9. ASSUME NEW r \in Runs, MarkProcessing(r) PROVE TypeOK'
  <2>1. /\ run[r].phase # "idle"
        /\ \/ run' = [run EXCEPT ![r].phase = "processing"]
           \/ run' = [run EXCEPT ![r].phase = "discarded"]
    BY <1>9 DEF MarkProcessing
  <2>2. run' \in [Runs -> Run]
    <3>1. /\ [run EXCEPT ![r].phase = "processing"] \in [Runs -> Run]
          /\ [run EXCEPT ![r].phase = "discarded"] \in [Runs -> Run]
      BY <2>1, RunPhase
    <3> QED BY <2>1, <3>1
  <2>3. lock' \in [Files -> Runs \cup {Free}]
    BY <1>9 DEF MarkProcessing
  <2>4. UNCHANGED <<upload, files, chunks, objects, vectors, tasks, deletes>>
    BY <1>9 DEF MarkProcessing
  <2> QED BY <2>2, <2>3, <2>4
<1>10. ASSUME NEW r \in Runs, ClearOld(r) PROVE TypeOK'
  BY <1>10, RunPhase DEF ClearOld, SetVectors, VectorsWithout
<1>11. ASSUME NEW r \in Runs, IndexChunks(r) PROVE TypeOK'
  BY <1>11, RunPhase, PointType DEF IndexChunks, SetVectors
<1>12. ASSUME NEW r \in Runs, SeedCommit(r) PROVE TypeOK'
  BY <1>12, RunPhase, StartedRun, PointType, FileStatus DEF SeedCommit, ChunksWithout
<1>13. ASSUME NEW r \in Runs, WorkerReturn(r) \/ RunFails(r) PROVE TypeOK'
  <2>1. run[r].phase # "idle" /\ Discard(r)
    BY <1>13, EndOfRun
  <2>2. QED
    BY <2>1, RunPhase, StartedRun DEF Discard
<1>14. ASSUME NEW d \in Deletes, DeleteObject(d) PROVE TypeOK'
  BY <1>14, DeletePhase DEF DeleteObject
<1>15. ASSUME NEW d \in Deletes, DeleteRow(d) PROVE TypeOK'
  <2>1. [status |-> "absent", kb |-> NoKB] \in Row
    BY DEF Row, MaybeKB
  <2>2. QED
    BY <1>15, <2>1, DeletePhase, StartedDelete DEF DeleteRow, ChunksWithout
<1>16. ASSUME NEW d \in Deletes, DeleteCrash(d) PROVE TypeOK'
  BY <1>16, DeletePhase DEF DeleteCrash
<1>17. CASE UNCHANGED vars
  BY <1>17 DEF vars
<1>18. QED
  BY <1>1, <1>2, <1>3, <1>4, <1>5, <1>7, <1>8, <1>9, <1>10, <1>11, <1>12,
     <1>13, <1>14, <1>15, <1>16, <1>17 DEF Next, RunStep, DeleteStep

\* Every variable keeps its type in every behaviour of the pipeline.
THEOREM TypeCorrect == Spec => []TypeOK
BY InitType, NextType, PTL DEF Spec

(***************************************************************************)
(* What an assignment to one field leaves alone.                           *)
(***************************************************************************)
LEMMA RunUpdate ==
  ASSUME TypeOK, NEW r \in Runs, run[r].phase # "idle", NEW p,
         run' = [run EXCEPT ![r].phase = p]
  PROVE  /\ run'[r].phase = p
         /\ run'[r].file = run[r].file
         /\ run'[r].kb = run[r].kb
         /\ run'[r].caller = run[r].caller
         /\ \A q \in Runs : q # r => run'[q] = run[q]
BY StartedRun DEF TypeOK

\* What a write of processing_status leaves alone.
LEMMA FileUpdate ==
  ASSUME TypeOK, NEW f \in Files, NEW s, files' = [files EXCEPT ![f].status = s]
  PROVE  /\ files'[f].status = s
         /\ files'[f].kb = files[f].kb
         /\ \A g \in Files : g # f => files'[g] = files[g]
<1>1. files[f] \in Row
  BY DEF TypeOK
<1>2. QED
  BY <1>1 DEF TypeOK, Row

\* What a write of knowledge_base_id leaves alone.
LEMMA KBUpdate ==
  ASSUME TypeOK, NEW f \in Files, NEW k, files' = [files EXCEPT ![f].kb = k]
  PROVE  /\ files'[f].kb = k
         /\ files'[f].status = files[f].status
         /\ \A g \in Files : g # f => files'[g] = files[g]
<1>1. files[f] \in Row
  BY DEF TypeOK
<1>2. QED
  BY <1>1 DEF TypeOK, Row

\* What the end of an upload leaves alone.
LEMMA UploadUpdate ==
  ASSUME TypeOK, NEW f \in Files, NEW p, upload' = [upload EXCEPT ![f].phase = p]
  PROVE  /\ upload'[f].phase = p
         /\ upload'[f].kb = upload[f].kb
         /\ \A g \in Files : g # f => upload'[g] = upload[g]
<1>1. upload[f] \in Upload
  BY DEF TypeOK
<1>2. QED
  BY <1>1 DEF TypeOK, Upload

\* What a step of a deletion leaves alone.
LEMMA DeleteUpdate ==
  ASSUME TypeOK, NEW d \in Deletes, deletes[d].phase # "idle", NEW p,
         deletes' = [deletes EXCEPT ![d].phase = p]
  PROVE  /\ deletes'[d].phase = p
         /\ deletes'[d].file = deletes[d].file
         /\ \A e \in Deletes : e # d => deletes'[e] = deletes[e]
BY StartedDelete DEF TypeOK

\* What the removal of a row leaves alone.
LEMMA RowRemoval ==
  ASSUME TypeOK, NEW f \in Files,
         files' = [files EXCEPT ![f] = [status |-> "absent", kb |-> NoKB]]
  PROVE  /\ files'[f].status = "absent"
         /\ files'[f].kb = NoKB
         /\ \A g \in Files : g # f => files'[g] = files[g]
BY DEF TypeOK

\* What loading a file does to a run: it remembers the knowledge base it saw.
LEMMA RunStart ==
  ASSUME TypeOK, NEW r \in Runs, NEW f \in Files, NEW c, Load(r, f, c)
  PROVE  /\ run[r].phase = "idle"
         /\ run'[r].phase = IF Present(f) THEN "loaded" ELSE "discarded"
         /\ run'[r].file = f
         /\ run'[r].kb = files[f].kb
         /\ \A q \in Runs : q # r => run'[q] = run[q]
BY DEF TypeOK, Load

(***************************************************************************)
(* The row lock.  A run holds the lock exactly while its phase says so, and *)
(* no other transaction changes a row whose lock is held.                  *)
(***************************************************************************)
LEMMA NextLock ==
  TypeOK /\ LockDiscipline /\ [Next]_vars => LockDiscipline'
<1> SUFFICES ASSUME TypeOK, LockDiscipline, [Next]_vars PROVE LockDiscipline'
  OBVIOUS
<1>1. ASSUME UNCHANGED <<files, lock, run>> PROVE LockDiscipline'
  BY <1>1 DEF LockDiscipline, HoldsLock, Present
<1>2. ASSUME UNCHANGED <<lock, run>>,
             \A f \in Files : lock[f] # Free /\ Present(f) => Present(f)'
      PROVE  LockDiscipline'
  <2>1. \A r \in Runs : HoldsLock(r) => run[r].file \in Files /\ r # Free
    BY StartedRun, ConstantsOK DEF HoldsLock
  <2>2. QED
    BY <1>2, <2>1 DEF LockDiscipline, HoldsLock, Present
<1>3. ASSUME NEW f \in Files, UploadCommit(f) PROVE LockDiscipline'
  <2>1. \A g \in Files : Present(g) => Present(g)'
    BY <1>3 DEF UploadCommit, Present, TypeOK
  <2>2. QED
    BY <1>2, <1>3, <2>1 DEF UploadCommit
<1>4. ASSUME NEW f \in Files, ReprocessFile(f) PROVE LockDiscipline'
  <2>1. \A g \in Files : Present(g) => Present(g)'
    BY <1>4, FileUpdate DEF ReprocessFile, Present
  <2>2. QED
    BY <1>2, <1>4, <2>1 DEF ReprocessFile
<1>5. ASSUME NEW f \in Files, NEW k \in KBs, AssociateFile(f, k) PROVE LockDiscipline'
  <2>1. \A g \in Files : Present(g) => Present(g)'
    BY <1>5, KBUpdate DEF AssociateFile, Present
  <2>2. QED
    BY <1>2, <1>5, <2>1 DEF AssociateFile
<1>6. ASSUME NEW d \in Deletes, DeleteRow(d) PROVE LockDiscipline'
  <2>1. \A g \in Files : lock[g] # Free /\ Present(g) => Present(g)'
    BY <1>6, RowRemoval, StartedDelete DEF DeleteRow, Present
  <2>2. QED
    BY <1>2, <1>6, <2>1 DEF DeleteRow
<1>7. ASSUME NEW f \in Files, NEW r \in Runs, StartWorker(r, f) \/ StartSeed(r, f)
      PROVE  LockDiscipline'
  <2>1. PICK c \in {"worker", "seed"} : Load(r, f, c)
    BY <1>7 DEF StartWorker, StartSeed
  <2>2. UNCHANGED <<files, lock>>
    BY <1>7 DEF StartWorker, StartSeed
  <2>3. QED
    BY <2>1, <2>2, RunStart DEF LockDiscipline, HoldsLock, Present, TypeOK
<1>8. ASSUME NEW r \in Runs, MarkProcessing(r) PROVE LockDiscipline'
  <2>1. run[r].phase # "idle" /\ run[r].file \in Files /\ r # Free
    BY <1>8, StartedRun, ConstantsOK DEF MarkProcessing
  <2>2. CASE Present(run[r].file)
    <3>1. run' = [run EXCEPT ![r].phase = "processing"]
      BY <1>8, <2>2 DEF MarkProcessing
    <3>2. lock[run[r].file] = Free /\ UNCHANGED files
      BY <1>8 DEF MarkProcessing
    <3>3. /\ lock'[run[r].file] = r
          /\ \A g \in Files : g # run[r].file => lock'[g] = lock[g]
      BY <1>8, <2>1, <2>2 DEF MarkProcessing, TypeOK
    <3>4. \A q \in Runs : HoldsLock(q) => q # r /\ run[q].file # run[r].file
      BY <1>8, <3>2, ConstantsOK DEF MarkProcessing, LockDiscipline, HoldsLock
    <3>5. ASSUME NEW q \in Runs, HoldsLock(q)'
          PROVE  (lock[run[q].file] = q /\ Present(run[q].file))'
      BY <2>1, <2>2, <3>1, <3>2, <3>3, <3>4, <3>5, RunUpdate, StartedRun
      DEF LockDiscipline, HoldsLock, Present
    <3>6. ASSUME NEW g \in Files, lock'[g] # Free
          PROVE  (HoldsLock(lock[g]) /\ run[lock[g]].file = g)'
      BY <2>1, <2>2, <3>1, <3>2, <3>3, <3>4, <3>6, RunUpdate
      DEF LockDiscipline, HoldsLock, TypeOK
    <3>7. QED
      BY <3>5, <3>6 DEF LockDiscipline
  <2>3. CASE ~Present(run[r].file)
    <3>1. run' = [run EXCEPT ![r].phase = "discarded"]
      BY <1>8, <2>3 DEF MarkProcessing
    <3>2. QED
      BY <1>8, <2>1, <2>3, <3>1, RunUpdate
      DEF MarkProcessing, LockDiscipline, HoldsLock, Present, TypeOK
  <2>4. QED
    BY <2>2, <2>3
<1>9. ASSUME NEW r \in Runs, ClearOld(r) \/ IndexChunks(r) PROVE LockDiscipline'
  <2>1. HoldsLock(r) /\ run[r].phase # "idle" /\ UNCHANGED <<files, lock>>
    BY <1>9 DEF ClearOld, IndexChunks, HoldsLock
  <2>2. PICK p \in {"cleared", "indexed"} : run' = [run EXCEPT ![r].phase = p]
    BY <1>9 DEF ClearOld, IndexChunks
  <2>3. QED
    BY <2>1, <2>2, RunUpdate DEF LockDiscipline, HoldsLock, Present, TypeOK
<1>10. ASSUME NEW r \in Runs, SeedCommit(r) PROVE LockDiscipline'
  <2>1. run[r].phase # "idle" /\ run[r].file \in Files /\ HoldsLock(r)
    BY <1>10, StartedRun DEF SeedCommit, HoldsLock
  <2>2. \A g \in Files : Present(g) => Present(g)'
    BY <1>10, <2>1, FileUpdate DEF SeedCommit, Present
  <2>3. QED
    BY <1>10, <2>1, <2>2, RunUpdate, StartedRun, ConstantsOK
    DEF SeedCommit, LockDiscipline, HoldsLock, TypeOK
<1>11. ASSUME NEW r \in Runs, WorkerReturn(r) \/ RunFails(r) PROVE LockDiscipline'
  <2>1. run[r].phase # "idle" /\ run[r].file \in Files /\ Discard(r)
    BY <1>11, EndOfRun, StartedRun
  <2>2. QED
    BY <2>1, RunUpdate, StartedRun, ConstantsOK
    DEF Discard, LockDiscipline, HoldsLock, Present, TypeOK
<1>12. QED
  BY <1>1, <1>3, <1>4, <1>5, <1>6, <1>7, <1>8, <1>9, <1>10, <1>11
  DEF Next, RunStep, DeleteStep, UploadFile, UploadAbort, DeleteVectors,
      DeleteObject, DeleteCrash, vars

(***************************************************************************)
(* Committed rows.  What a step does to the two tables a row's soundness    *)
(* depends on, then the soundness itself.                                  *)
(***************************************************************************)
LEMMA RowsStay ==
  ASSUME TypeOK, RowsAreSound, UNCHANGED <<upload, files>>,
         \A r \in Runs : run'[r].phase # "idle" =>
           SameTenant(run'[r].file, run'[r].kb)
  PROVE  RowsAreSound'
BY DEF RowsAreSound, Present, SameTenant

\* A run that moves on keeps the knowledge base it loaded in its tenant.
LEMMA RunsStay ==
  ASSUME RowsAreSound, NEW r \in Runs, run[r].phase # "idle",
         run'[r].file = run[r].file, run'[r].kb = run[r].kb,
         \A q \in Runs : q # r => run'[q] = run[q]
  PROVE  \A q \in Runs : run'[q].phase # "idle" =>
           SameTenant(run'[q].file, run'[q].kb)
BY DEF RowsAreSound, SameTenant

\* Every step keeps the committed rows sound.
LEMMA NextRows ==
  TypeOK /\ LockDiscipline /\ RowsAreSound /\ [Next]_vars => RowsAreSound'
<1> SUFFICES ASSUME TypeOK, LockDiscipline, RowsAreSound, [Next]_vars
             PROVE  RowsAreSound'
  OBVIOUS
<1>1. ASSUME UNCHANGED <<upload, files, run>> PROVE RowsAreSound'
  BY <1>1 DEF RowsAreSound, Present, SameTenant
<1>2. ASSUME NEW f \in Files, NEW k \in MaybeKB, NEW by \in {"api", "seed"},
             UploadFile(f, k, by)
      PROVE  RowsAreSound'
  <2>1. /\ upload[f].phase = "none" /\ SameTenant(f, k)
        /\ upload'[f] = [phase |-> "open", kb |-> k, by |-> by]
        /\ \A g \in Files : g # f => upload'[g] = upload[g]
        /\ UNCHANGED <<files, run>>
    BY <1>2 DEF UploadFile, TypeOK
  <2>2. QED
    BY <2>1 DEF RowsAreSound, Present, SameTenant
<1>3. ASSUME NEW f \in Files, UploadCommit(f) PROVE RowsAreSound'
  <2>1. /\ upload[f].phase = "open"
        /\ files'[f].status = "pending" /\ files'[f].kb = upload[f].kb
        /\ \A g \in Files : g # f => files'[g] = files[g]
        /\ UNCHANGED run
    BY <1>3 DEF UploadCommit, TypeOK
  <2>2. /\ upload'[f].phase = "committed" /\ upload'[f].kb = upload[f].kb
        /\ \A g \in Files : g # f => upload'[g] = upload[g]
    BY <1>3, UploadUpdate DEF UploadCommit
  <2>3. QED
    BY <2>1, <2>2 DEF RowsAreSound, Present, SameTenant
<1>4. ASSUME NEW f \in Files, UploadAbort(f) PROVE RowsAreSound'
  BY <1>4, UploadUpdate DEF UploadAbort, RowsAreSound, Present, SameTenant
<1>5. ASSUME NEW f \in Files, ReprocessFile(f) PROVE RowsAreSound'
  BY <1>5, FileUpdate DEF ReprocessFile, RowsAreSound, Present, SameTenant
<1>6. ASSUME NEW f \in Files, NEW k \in KBs, AssociateFile(f, k) PROVE RowsAreSound'
  BY <1>6, KBUpdate DEF AssociateFile, RowsAreSound, Present, SameTenant
<1>7. ASSUME NEW f \in Files, NEW r \in Runs, StartWorker(r, f) \/ StartSeed(r, f)
      PROVE  RowsAreSound'
  <2>1. PICK c \in {"worker", "seed"} : Load(r, f, c)
    BY <1>7 DEF StartWorker, StartSeed
  <2>2. \A q \in Runs : run'[q].phase # "idle" =>
          SameTenant(run'[q].file, run'[q].kb)
    BY <2>1, RunStart DEF RowsAreSound, SameTenant
  <2>3. QED
    BY <1>7, <2>2, RowsStay DEF StartWorker, StartSeed
<1>8. ASSUME NEW r \in Runs, NEW p, run[r].phase # "idle",
             run' = [run EXCEPT ![r].phase = p]
      PROVE  \A q \in Runs : run'[q].phase # "idle" =>
               SameTenant(run'[q].file, run'[q].kb)
  BY <1>8, RunUpdate, RunsStay
<1>9. ASSUME NEW r \in Runs, MarkProcessing(r) \/ ClearOld(r) \/ IndexChunks(r)
      PROVE  RowsAreSound'
  <2>1. \E p : run' = [run EXCEPT ![r].phase = p]
    BY <1>9 DEF MarkProcessing, ClearOld, IndexChunks
  <2>2. run[r].phase # "idle" /\ UNCHANGED <<upload, files>>
    BY <1>9 DEF MarkProcessing, ClearOld, IndexChunks
  <2>3. QED
    BY <1>8, <2>1, <2>2, RowsStay
<1>10. ASSUME NEW r \in Runs, WorkerReturn(r) \/ RunFails(r) PROVE RowsAreSound'
  <2>1. run[r].phase # "idle" /\ Discard(r)
    BY <1>10, EndOfRun
  <2>2. QED
    BY <1>8, <2>1, RowsStay DEF Discard
<1>11. ASSUME NEW r \in Runs, SeedCommit(r) PROVE RowsAreSound'
  <2>1. /\ run[r].phase # "idle" /\ run[r].file \in Files
        /\ Present(run[r].file) /\ UNCHANGED upload
    BY <1>11, StartedRun DEF SeedCommit, LockDiscipline, HoldsLock
  <2>2. \A q \in Runs : run'[q].phase # "idle" =>
          SameTenant(run'[q].file, run'[q].kb)
    BY <1>8, <1>11, <2>1 DEF SeedCommit
  <2>3. files' = [files EXCEPT ![run[r].file].status = "completed"]
    BY <1>11 DEF SeedCommit
  <2>4. QED
    BY <2>1, <2>2, <2>3, FileUpdate DEF RowsAreSound, Present, SameTenant
<1>12. ASSUME NEW d \in Deletes, DeleteRow(d) PROVE RowsAreSound'
  <2>1. deletes[d].file \in Files
    BY <1>12, StartedDelete DEF DeleteRow
  <2>2. QED
    BY <1>12, <2>1, RowRemoval DEF DeleteRow, RowsAreSound, Present, SameTenant
<1>13. QED
  BY <1>1, <1>2, <1>3, <1>4, <1>5, <1>6, <1>7, <1>9, <1>10, <1>11, <1>12
  DEF Next, RunStep, DeleteStep, DeleteVectors, DeleteObject, DeleteCrash, vars

(***************************************************************************)
(* Chunk rows and points.  One lemma per direction: what IndexIsSound says  *)
(* of old chunks and points survives, and new ones come from their run.    *)
(***************************************************************************)
LEMMA IndexStays ==
  ASSUME TypeOK, IndexIsSound,
         chunks' \subseteq chunks, vectors' \subseteq vectors,
         \A f \in Files : (\E c \in chunks' : c.file = f) /\ Present(f) => Present(f)',
         \A r \in Runs :
           run[r].phase \in {"indexed", "committed", "discarded"} =>
             /\ PointOf(r)' = PointOf(r)
             /\ run'[r].phase \in {"indexed", "committed", "discarded"}
             /\ run[r].phase = "committed" => run'[r].phase = "committed"
  PROVE  IndexIsSound'
<1>1. \A c \in chunks \cup vectors : c.run \in Runs /\ c.file \in Files
  BY DEF TypeOK, Point
<1>2. ASSUME NEW c \in chunks'
      PROVE  Present(c.file)' /\ run'[c.run].phase = "committed" /\ c = PointOf(c.run)'
  BY <1>1 DEF IndexIsSound
<1>3. ASSUME NEW v \in vectors'
      PROVE  /\ run'[v.run].phase \in {"indexed", "committed", "discarded"}
             /\ v = PointOf(v.run)'
  BY <1>1 DEF IndexIsSound
<1>4. QED
  BY <1>2, <1>3 DEF IndexIsSound, PointOf

\* Every step keeps chunk rows and points traceable to their runs; the rows of
\* a file that is being indexed cannot vanish, because of the row lock.
LEMMA NextIndex ==
  TypeOK /\ LockDiscipline /\ RowsAreSound /\ IndexIsSound /\ [Next]_vars
    => IndexIsSound'
<1> SUFFICES ASSUME TypeOK, LockDiscipline, RowsAreSound, IndexIsSound, [Next]_vars
             PROVE  IndexIsSound'
  OBVIOUS
<1>1. ASSUME UNCHANGED <<files, chunks, run>>, vectors' \subseteq vectors
      PROVE  IndexIsSound'
  BY <1>1, IndexStays DEF Present, PointOf
<1>2. ASSUME UNCHANGED <<chunks, vectors, run>>,
             \A g \in Files : Present(g) => Present(g)'
      PROVE  IndexIsSound'
  BY <1>2, IndexStays DEF PointOf
<1>3. ASSUME NEW f \in Files,
             \/ UploadCommit(f)
             \/ ReprocessFile(f)
             \/ \E k \in KBs : AssociateFile(f, k)
      PROVE  IndexIsSound'
  <2>1. ASSUME UploadCommit(f) PROVE \A g \in Files : Present(g) => Present(g)'
    BY <2>1 DEF UploadCommit, Present, TypeOK
  <2>2. ASSUME ReprocessFile(f) PROVE \A g \in Files : Present(g) => Present(g)'
    BY <2>2, FileUpdate DEF ReprocessFile, Present
  <2>3. ASSUME NEW k \in KBs, AssociateFile(f, k)
        PROVE  \A g \in Files : Present(g) => Present(g)'
    BY <2>3, KBUpdate DEF AssociateFile, Present
  <2>4. UNCHANGED <<chunks, vectors, run>>
    BY <1>3 DEF UploadCommit, ReprocessFile, AssociateFile
  <2>5. QED
    BY <1>2, <1>3, <2>1, <2>2, <2>3, <2>4
<1>4. ASSUME NEW f \in Files, NEW d \in Deletes, DeleteVectors(d, f)
      PROVE  IndexIsSound'
  BY <1>1, <1>4 DEF DeleteVectors, SetVectors, VectorsWithout
<1>5. ASSUME NEW d \in Deletes, DeleteRow(d) PROVE IndexIsSound'
  <2>1. \A g \in Files : g # deletes[d].file => files'[g] = files[g]
    BY <1>5, RowRemoval, StartedDelete DEF DeleteRow
  <2>2. QED
    BY <1>5, <2>1, IndexStays DEF DeleteRow, ChunksWithout, Present, PointOf
<1>6. ASSUME NEW r \in Runs, NEW p, run[r].phase \notin {"idle", "committed", "discarded"},
             p \in {"indexed", "discarded"} \/ run[r].phase # "indexed",
             run' = [run EXCEPT ![r].phase = p],
             UNCHANGED <<files, chunks>>, vectors' \subseteq vectors
      PROVE  IndexIsSound'
  BY <1>6, RunUpdate, IndexStays DEF PointOf, Present
<1>7. ASSUME NEW f \in Files, NEW r \in Runs, StartWorker(r, f) \/ StartSeed(r, f)
      PROVE  IndexIsSound'
  <2>1. PICK c \in {"worker", "seed"} : Load(r, f, c)
    BY <1>7 DEF StartWorker, StartSeed
  <2>2. run[r].phase = "idle" /\ \A q \in Runs : q # r => run'[q] = run[q]
    BY <2>1, RunStart
  <2>3. UNCHANGED <<files, chunks, vectors>>
    BY <1>7 DEF StartWorker, StartSeed
  <2>4. QED
    BY <2>2, <2>3, IndexStays DEF PointOf, Present
<1>8. ASSUME NEW r \in Runs, MarkProcessing(r) \/ ClearOld(r) PROVE IndexIsSound'
  <2>1. /\ run[r].phase \in {"loaded", "processing"}
        /\ \E p : run' = [run EXCEPT ![r].phase = p]
        /\ UNCHANGED <<files, chunks>>
        /\ vectors' \subseteq vectors
    BY <1>8 DEF MarkProcessing, ClearOld, SetVectors, VectorsWithout
  <2>2. QED
    BY <1>6, <2>1
<1>9. ASSUME NEW r \in Runs, IndexChunks(r) PROVE IndexIsSound'
  <2>1. /\ run[r].phase = "cleared"
        /\ run' = [run EXCEPT ![r].phase = "indexed"]
        /\ UNCHANGED <<files, chunks>>
        /\ vectors' \subseteq vectors \cup {PointOf(r)}
    BY <1>9 DEF IndexChunks, SetVectors, NewPoints
  <2>2. /\ run'[r].phase = "indexed" /\ PointOf(r)' = PointOf(r)
        /\ \A q \in Runs : q # r => run'[q] = run[q]
    BY <2>1, RunUpdate DEF PointOf
  <2>3. \A c \in chunks \cup vectors : c.run \in Runs
    BY DEF TypeOK, Point
  <2>4. PointOf(r).run = r
    BY DEF PointOf
  <2>5. ASSUME NEW c \in chunks'
        PROVE  Present(c.file)' /\ run'[c.run].phase = "committed" /\ c = PointOf(c.run)'
    BY <2>1, <2>2, <2>3 DEF IndexIsSound, Present, PointOf
  <2>6. ASSUME NEW v \in vectors'
        PROVE  /\ run'[v.run].phase \in {"indexed", "committed", "discarded"}
               /\ v = PointOf(v.run)'
    <3>1. CASE v = PointOf(r)
      BY <2>2, <2>4, <3>1
    <3>2. CASE v \in vectors
      BY <2>1, <2>2, <2>3, <3>2 DEF IndexIsSound, PointOf
    <3>3. QED
      BY <2>1, <3>1, <3>2
  <2>7. QED
    BY <2>5, <2>6 DEF IndexIsSound, PointOf
<1>10. ASSUME NEW r \in Runs, SeedCommit(r) PROVE IndexIsSound'
  <2>1. /\ run[r].phase = "indexed"
        /\ run' = [run EXCEPT ![r].phase = "committed"]
        /\ files' = [files EXCEPT ![run[r].file].status = "completed"]
        /\ chunks' \subseteq chunks \cup {PointOf(r)}
        /\ UNCHANGED vectors
    BY <1>10 DEF SeedCommit, ChunksWithout, NewPoints
  <2>2. /\ run'[r].phase = "committed" /\ PointOf(r)' = PointOf(r)
        /\ \A q \in Runs : q # r => run'[q] = run[q]
    BY <2>1, RunUpdate DEF PointOf
  <2>3. \A c \in chunks \cup vectors : c.run \in Runs /\ c.file \in Files
    BY DEF TypeOK, Point
  <2>4. \A g \in Files : Present(g) => Present(g)'
    BY <2>1, FileUpdate, StartedRun DEF Present
  <2>5. PointOf(r).run = r /\ PointOf(r).file \in Files /\ Present(PointOf(r).file)
    BY <2>1, StartedRun DEF PointOf, LockDiscipline, HoldsLock
  <2>6. ASSUME NEW c \in chunks'
        PROVE  Present(c.file)' /\ run'[c.run].phase = "committed" /\ c = PointOf(c.run)'
    <3>1. CASE c = PointOf(r)
      BY <2>2, <2>4, <2>5, <3>1
    <3>2. CASE c \in chunks
      BY <2>1, <2>2, <2>3, <2>4, <3>2 DEF IndexIsSound, PointOf
    <3>3. QED
      BY <2>1, <3>1, <3>2
  <2>7. ASSUME NEW v \in vectors'
        PROVE  /\ run'[v.run].phase \in {"indexed", "committed", "discarded"}
               /\ v = PointOf(v.run)'
    BY <2>1, <2>2, <2>3 DEF IndexIsSound, PointOf
  <2>8. QED
    BY <2>6, <2>7 DEF IndexIsSound, PointOf
<1>11. ASSUME NEW r \in Runs, WorkerReturn(r) \/ RunFails(r) PROVE IndexIsSound'
  <2>1. run[r].phase \in {"loaded", "processing", "cleared", "indexed"} /\ Discard(r)
    BY <1>11, EndOfRun
  <2>2. QED
    BY <1>6, <2>1 DEF Discard
<1>12. QED
  BY <1>1, <1>3, <1>4, <1>5, <1>7, <1>8, <1>9, <1>10, <1>11
  DEF Next, RunStep, DeleteStep, UploadFile, UploadAbort, DeleteObject, DeleteCrash, vars

(***************************************************************************)
(* One generation of vectors per file, as long as Qdrant answers.  Only a   *)
(* run in phase "cleared" adds points; it holds the row lock of its file,   *)
(* so no other run of that file is between its delete and its upsert.      *)
(***************************************************************************)
VectorOrder == ClearedMeansNoVector /\ OneVectorGeneration

\* The row lock keeps two runs of one file from being cleared together.
LEMMA OneClearedRun ==
  ASSUME LockDiscipline, NEW q \in Runs, NEW r \in Runs,
         run[q].phase = "cleared", run[r].phase = "cleared", run[q].file = run[r].file
  PROVE  q = r
BY DEF LockDiscipline, HoldsLock

\* Every step keeps one generation of points per file, as long as Qdrant answers.
LEMMA NextVectors ==
  TypeOK /\ LockDiscipline /\ VectorOrder /\ [Next]_vars => VectorOrder'
<1> SUFFICES ASSUME TypeOK, LockDiscipline, VectorOrder, [Next]_vars,
                    "qdrant" \notin Faults
             PROVE  VectorOrder'
  BY DEF VectorOrder, ClearedMeansNoVector, OneVectorGeneration
<1>1. ASSUME vectors' \subseteq vectors,
             \A q \in Runs : run'[q].phase = "cleared" =>
               run[q].phase = "cleared" /\ run'[q].file = run[q].file
      PROVE  VectorOrder'
  BY <1>1 DEF VectorOrder, ClearedMeansNoVector, OneVectorGeneration
<1>2. ASSUME NEW r \in Runs, NEW p, run[r].phase # "idle", p # "cleared",
             run' = [run EXCEPT ![r].phase = p], vectors' \subseteq vectors
      PROVE  VectorOrder'
  BY <1>1, <1>2, RunUpdate
<1>3. ASSUME NEW f \in Files, NEW r \in Runs, StartWorker(r, f) \/ StartSeed(r, f)
      PROVE  VectorOrder'
  <2>1. PICK c \in {"worker", "seed"} : Load(r, f, c)
    BY <1>3 DEF StartWorker, StartSeed
  <2>2. UNCHANGED vectors
    BY <1>3 DEF StartWorker, StartSeed
  <2>3. QED
    BY <1>1, <2>1, <2>2, RunStart
<1>4. ASSUME NEW r \in Runs, MarkProcessing(r) PROVE VectorOrder'
  BY <1>2, <1>4 DEF MarkProcessing
<1>5. ASSUME NEW r \in Runs, ClearOld(r) PROVE VectorOrder'
  <2>1. run[r].phase # "idle" /\ run' = [run EXCEPT ![r].phase = "cleared"]
    BY <1>5 DEF ClearOld
  <2>2. vectors' = VectorsWithout(run[r].file)
    BY <1>5 DEF ClearOld, SetVectors
  <2>3. QED
    BY <2>1, <2>2, RunUpdate
    DEF VectorsWithout, VectorOrder, ClearedMeansNoVector, OneVectorGeneration
<1>6. ASSUME NEW r \in Runs, IndexChunks(r) PROVE VectorOrder'
  <2>1. /\ run[r].phase = "cleared"
        /\ run' = [run EXCEPT ![r].phase = "indexed"]
        /\ vectors' \subseteq vectors \cup {PointOf(r)}
        /\ PointOf(r).file = run[r].file
    BY <1>6 DEF IndexChunks, SetVectors, NewPoints, PointOf
  <2>2. \A v \in vectors : v.file # run[r].file
    BY <2>1 DEF VectorOrder, ClearedMeansNoVector
  <2>3. /\ run'[r].phase = "indexed"
        /\ \A q \in Runs : q # r => run'[q] = run[q]
    BY <2>1, RunUpdate
  <2>4. OneVectorGeneration'
    BY <2>1, <2>2 DEF VectorOrder, OneVectorGeneration
  <2>5. ASSUME NEW q \in Runs, run'[q].phase = "cleared", NEW v \in vectors'
        PROVE  v.file # run'[q].file
    <3>1. q # r /\ run[q].phase = "cleared" /\ run'[q] = run[q]
      BY <2>3, <2>5
    <3>2. run[q].file # run[r].file
      BY <2>1, <3>1, OneClearedRun
    <3>3. CASE v = PointOf(r)
      BY <2>1, <3>1, <3>2, <3>3
    <3>4. CASE v \in vectors
      BY <3>1, <3>4 DEF VectorOrder, ClearedMeansNoVector
    <3>5. QED
      BY <2>1, <2>5, <3>3, <3>4
  <2>6. QED
    BY <2>4, <2>5 DEF VectorOrder, ClearedMeansNoVector
<1>7. ASSUME NEW r \in Runs, SeedCommit(r) PROVE VectorOrder'
  BY <1>2, <1>7 DEF SeedCommit
<1>8. ASSUME NEW r \in Runs, WorkerReturn(r) \/ RunFails(r) PROVE VectorOrder'
  <2>1. run[r].phase # "idle" /\ Discard(r)
    BY <1>8, EndOfRun
  <2>2. QED
    BY <1>2, <2>1 DEF Discard
<1>9. ASSUME UNCHANGED run, vectors' \subseteq vectors PROVE VectorOrder'
  BY <1>1, <1>9
<1>10. ASSUME NEW f \in Files, NEW d \in Deletes, DeleteVectors(d, f)
       PROVE  VectorOrder'
  BY <1>9, <1>10 DEF DeleteVectors, SetVectors, VectorsWithout
<1>11. QED
  BY <1>3, <1>4, <1>5, <1>6, <1>7, <1>8, <1>9, <1>10
  DEF Next, RunStep, DeleteStep, UploadFile, UploadCommit, UploadAbort, ReprocessFile,
      AssociateFile, DeleteObject, DeleteRow, DeleteCrash, vars

(***************************************************************************)
(* Rows and bytes.                                                         *)
(***************************************************************************)
BytesOrder == UploadHasBytes /\ RowHasObject

\* Rows keep their bytes when no step touches bytes, uploads or deletions.
LEMMA BytesStay ==
  ASSUME TypeOK, BytesOrder, UNCHANGED <<upload, objects, deletes>>,
         \A f \in Files : Present(f)' => Present(f)
  PROVE  BytesOrder'
BY DEF BytesOrder, UploadHasBytes, RowHasObject

\* Every step keeps bytes behind rows, except those of a deletion in progress.
LEMMA NextBytes ==
  TypeOK /\ LockDiscipline /\ RowsAreSound /\ BytesOrder /\ [Next]_vars => BytesOrder'
<1> SUFFICES ASSUME TypeOK, LockDiscipline, RowsAreSound, BytesOrder, [Next]_vars
             PROVE  BytesOrder'
  OBVIOUS
<1> USE DEF BytesOrder, UploadHasBytes, RowHasObject, Present
<1>1. ASSUME UNCHANGED <<upload, files, objects, deletes>> PROVE BytesOrder'
  BY <1>1
<1>2. ASSUME NEW f \in Files, NEW k \in MaybeKB, NEW by \in {"api", "seed"},
             UploadFile(f, k, by)
      PROVE  BytesOrder'
  <2>1. /\ upload[f].phase = "none" /\ upload'[f].phase = "open"
        /\ \A g \in Files : g # f => upload'[g] = upload[g]
    BY <1>2 DEF UploadFile, TypeOK
  <2>2. objects' = objects \cup {f} /\ UNCHANGED <<files, deletes>>
    BY <1>2 DEF UploadFile
  <2>3. QED
    BY <2>1, <2>2, StartedDelete
<1>3. ASSUME NEW f \in Files, UploadCommit(f) PROVE BytesOrder'
  <2>1. /\ upload'[f].phase = "committed"
        /\ \A g \in Files : g # f => upload'[g] = upload[g]
    BY <1>3, UploadUpdate DEF UploadCommit
  <2>2. /\ upload[f].phase = "open" /\ UNCHANGED <<objects, deletes>>
        /\ \A g \in Files : g # f => files'[g] = files[g]
    BY <1>3 DEF UploadCommit, TypeOK
  <2>3. QED
    BY <2>1, <2>2, StartedDelete
<1>4. ASSUME NEW f \in Files, UploadAbort(f) PROVE BytesOrder'
  <2>1. /\ upload'[f].phase = "aborted"
        /\ \A g \in Files : g # f => upload'[g] = upload[g]
    BY <1>4, UploadUpdate DEF UploadAbort
  <2>2. upload[f].phase = "open" /\ UNCHANGED <<files, objects, deletes>>
    BY <1>4 DEF UploadAbort
  <2>3. QED
    BY <2>1, <2>2, StartedDelete
<1>5. ASSUME NEW f \in Files, ReprocessFile(f) PROVE BytesOrder'
  BY <1>5, FileUpdate, BytesStay DEF ReprocessFile
<1>6. ASSUME NEW f \in Files, NEW k \in KBs, AssociateFile(f, k) PROVE BytesOrder'
  BY <1>6, KBUpdate, BytesStay DEF AssociateFile
<1>7. ASSUME NEW r \in Runs, SeedCommit(r) PROVE BytesOrder'
  <2>1. run[r].file \in Files /\ Present(run[r].file)
    BY <1>7, StartedRun DEF SeedCommit, LockDiscipline, HoldsLock
  <2>2. QED
    BY <1>7, <2>1, FileUpdate, BytesStay DEF SeedCommit
<1>8. ASSUME NEW f \in Files, NEW d \in Deletes, DeleteVectors(d, f) PROVE BytesOrder'
  <2>1. /\ deletes[d].phase = "idle" /\ upload[f].phase = "committed"
        /\ deletes'[d].file = f
        /\ \A e \in Deletes : e # d => deletes'[e] = deletes[e]
        /\ UNCHANGED <<upload, files, objects>>
    BY <1>8 DEF DeleteVectors, TypeOK, RowsAreSound
  <2>2. QED
    BY <2>1
<1>9. ASSUME NEW d \in Deletes, DeleteObject(d) PROVE BytesOrder'
  <2>1. /\ deletes'[d].phase = "unstored" /\ deletes'[d].file = deletes[d].file
        /\ \A e \in Deletes : e # d => deletes'[e] = deletes[e]
    BY <1>9, DeleteUpdate DEF DeleteObject
  <2>2. /\ deletes[d].phase = "unindexed"
        /\ objects' = objects \ {deletes[d].file} /\ UNCHANGED <<upload, files>>
    BY <1>9 DEF DeleteObject
  <2>3. QED
    BY <2>1, <2>2
<1>10. ASSUME NEW d \in Deletes, DeleteRow(d) PROVE BytesOrder'
  <2>1. /\ deletes'[d].file = deletes[d].file
        /\ \A e \in Deletes : e # d => deletes'[e] = deletes[e]
    BY <1>10, DeleteUpdate DEF DeleteRow
  <2>2. /\ files'[deletes[d].file].status = "absent"
        /\ \A g \in Files : g # deletes[d].file => files'[g] = files[g]
    <3>1. deletes[d].file \in Files
      BY <1>10, StartedDelete DEF DeleteRow
    <3>2. files' = [files EXCEPT ![deletes[d].file] = [status |-> "absent", kb |-> NoKB]]
      BY <1>10 DEF DeleteRow
    <3> QED BY <3>1, <3>2, RowRemoval
  <2>3. deletes[d].phase = "unstored" /\ UNCHANGED <<upload, objects>>
    BY <1>10 DEF DeleteRow
  <2>4. QED
    BY <2>1, <2>2, <2>3
<1>11. ASSUME NEW d \in Deletes, DeleteCrash(d) PROVE BytesOrder'
  <2>1. /\ deletes'[d].phase = "crashed" /\ deletes'[d].file = deletes[d].file
        /\ \A e \in Deletes : e # d => deletes'[e] = deletes[e]
    BY <1>11, DeleteUpdate DEF DeleteCrash
  <2>2. /\ deletes[d].phase \in {"unindexed", "unstored"}
        /\ UNCHANGED <<upload, files, objects>>
    BY <1>11 DEF DeleteCrash
  <2>3. QED
    BY <2>1, <2>2
<1>12. ASSUME NEW r \in Runs, WorkerReturn(r) \/ RunFails(r) PROVE BytesOrder'
  <2>1. Discard(r)
    BY <1>12, EndOfRun
  <2>2. QED
    BY <1>1, <2>1 DEF Discard
<1>13. ASSUME NEW f \in Files, NEW r \in Runs, StartWorker(r, f) \/ StartSeed(r, f)
       PROVE  BytesOrder'
  BY <1>1, <1>13 DEF StartWorker, StartSeed
<1>14. ASSUME NEW r \in Runs, MarkProcessing(r) \/ ClearOld(r) \/ IndexChunks(r)
       PROVE  BytesOrder'
  BY <1>1, <1>14 DEF MarkProcessing, ClearOld, IndexChunks
<1>15. CASE UNCHANGED vars
  BY <1>1, <1>15 DEF vars
<1> HIDE DEF BytesOrder
<1>16. QED
  BY <1>2, <1>3, <1>4, <1>5, <1>6, <1>7, <1>8, <1>9, <1>10, <1>11, <1>12, <1>13,
     <1>14, <1>15
  DEF Next, RunStep, DeleteStep

(***************************************************************************)
(* Completed files and their chunk rows.                                   *)
(***************************************************************************)
LEMMA CompletedStays ==
  ASSUME TypeOK, CompletedHasChunks, UNCHANGED chunks,
         \A f \in Files : files'[f].status = "completed" => files[f].status = "completed"
  PROVE  CompletedHasChunks'
BY DEF CompletedHasChunks

\* Every step keeps chunks behind the files reported as completed.
LEMMA NextCompleted ==
  TypeOK /\ CompletedHasChunks /\ [Next]_vars => CompletedHasChunks'
<1> SUFFICES ASSUME TypeOK, CompletedHasChunks, [Next]_vars PROVE CompletedHasChunks'
  OBVIOUS
<1>1. ASSUME UNCHANGED <<files, chunks>> PROVE CompletedHasChunks'
  BY <1>1, CompletedStays
<1>2. ASSUME NEW f \in Files, UploadCommit(f) PROVE CompletedHasChunks'
  <2>1. \A g \in Files : files'[g].status = "completed" => files[g].status = "completed"
    BY <1>2 DEF UploadCommit, TypeOK
  <2>2. QED
    BY <1>2, <2>1, CompletedStays DEF UploadCommit
<1>3. ASSUME NEW f \in Files, ReprocessFile(f) PROVE CompletedHasChunks'
  BY <1>3, FileUpdate, CompletedStays DEF ReprocessFile
<1>4. ASSUME NEW f \in Files, NEW k \in KBs, AssociateFile(f, k)
      PROVE  CompletedHasChunks'
  BY <1>4, KBUpdate, CompletedStays DEF AssociateFile
<1>5. ASSUME NEW r \in Runs, SeedCommit(r) PROVE CompletedHasChunks'
  <2>1. /\ run[r].file \in Files
        /\ files' = [files EXCEPT ![run[r].file].status = "completed"]
        /\ chunks' = ChunksWithout(run[r].file) \cup NewPoints(r)
    BY <1>5, StartedRun DEF SeedCommit
  <2>2. \A g \in Files : g # run[r].file => files'[g] = files[g]
    BY <2>1, FileUpdate
  <2>3. run[r].file \in Blank \/ \E c \in chunks' : c.file = run[r].file
    <3>1. PointOf(r).file = run[r].file
      BY DEF PointOf
    <3>2. QED
      BY <2>1, <3>1 DEF NewPoints
  <2>4. \A g \in Files \ {run[r].file} :
          (\E c \in chunks : c.file = g) => \E c \in chunks' : c.file = g
    BY <2>1 DEF ChunksWithout
  <2>5. QED
    BY <2>2, <2>3, <2>4 DEF CompletedHasChunks
<1>6. ASSUME NEW d \in Deletes, DeleteRow(d) PROVE CompletedHasChunks'
  <2>1. /\ files'[deletes[d].file].status = "absent"
        /\ \A g \in Files : g # deletes[d].file => files'[g] = files[g]
    BY <1>6, RowRemoval, StartedDelete DEF DeleteRow
  <2>2. \A g \in Files \ {deletes[d].file} :
          (\E c \in chunks : c.file = g) => \E c \in chunks' : c.file = g
    BY <1>6 DEF DeleteRow, ChunksWithout
  <2>3. QED
    BY <2>1, <2>2 DEF CompletedHasChunks
<1>7. ASSUME NEW r \in Runs, WorkerReturn(r) \/ RunFails(r) PROVE CompletedHasChunks'
  <2>1. Discard(r)
    BY <1>7, EndOfRun
  <2>2. QED
    BY <1>1, <2>1 DEF Discard
<1>8. ASSUME NEW r \in Runs, MarkProcessing(r) \/ ClearOld(r) \/ IndexChunks(r)
      PROVE  CompletedHasChunks'
  BY <1>1, <1>8 DEF MarkProcessing, ClearOld, IndexChunks
<1>9. QED
  BY <1>1, <1>2, <1>3, <1>4, <1>5, <1>6, <1>7, <1>8
  DEF Next, RunStep, DeleteStep, UploadFile, UploadAbort, StartWorker, StartSeed,
      DeleteVectors, DeleteObject, DeleteCrash, vars

(***************************************************************************)
(* The inductive invariant and the safety theorems.                        *)
(***************************************************************************)
LEMMA InitIInv == Init => IInv
<1> SUFFICES ASSUME Init PROVE IInv
  OBVIOUS
<1>1. TypeOK
  BY InitType
<1>2. /\ \A f \in Files : /\ ~Present(f) /\ files[f].kb = NoKB /\ lock[f] = Free
                          /\ files[f].status = "absent"
                          /\ upload[f].phase = "none" /\ upload[f].kb = NoKB
      /\ \A r \in Runs : run[r].phase = "idle"
      /\ \A d \in Deletes : deletes[d].phase = "idle"
      /\ chunks = {} /\ vectors = {}
  BY DEF Init, Present, IdleRun, IdleDelete
<1>3. LockDiscipline /\ RowsAreSound
  BY <1>2 DEF LockDiscipline, RowsAreSound, HoldsLock, SameTenant
<1>4. /\ IndexIsSound /\ ClearedMeansNoVector /\ OneVectorGeneration
      /\ UploadHasBytes /\ RowHasObject /\ CompletedHasChunks
  BY <1>2 DEF IndexIsSound, ClearedMeansNoVector, OneVectorGeneration, UploadHasBytes,
              RowHasObject, CompletedHasChunks
<1>5. QED
  BY <1>1, <1>3, <1>4 DEF IInv

\* The strengthened invariant is inductive.
LEMMA NextIInv == IInv /\ [Next]_vars => IInv'
BY NextType, NextLock, NextRows, NextIndex, NextVectors, NextBytes, NextCompleted
DEF IInv, VectorOrder, BytesOrder

\* The inductive invariant holds in every reachable state: among others, a row
\* lock belongs to one run in mid-transaction, whose row nobody removes.
THEOREM Invariant == Spec => []IInv
BY InitIInv, NextIInv, PTL DEF Spec

\* Retrieved evidence comes from an existing file and a committed indexing: a
\* point counts only with a chunk row of its run, and a chunk row is there only
\* while its file is and only once its run has committed.
THEOREM EvidenceLive == Spec => []EvidenceIsLive
<1>1. IInv => EvidenceIsLive
  <2> SUFFICES ASSUME IInv, NEW k \in KBs, NEW v \in vectors, NEW c \in chunks,
                      c.run = v.run
               PROVE  Present(v.file) /\ run[v.run].phase = "committed"
    BY DEF EvidenceIsLive, Retrievable, Hits
  <2> QED
    BY DEF IInv, IndexIsSound
<1>2. QED
  BY <1>1, Invariant, PTL

\* A chunk row carries a knowledge base of its file's tenant, since the run
\* that wrote it loaded a row whose knowledge base was of that tenant.
THEOREM TenantsSeparate == Spec => []ChunksStayInTenant
<1>1. IInv => ChunksStayInTenant
  <2> SUFFICES ASSUME IInv, NEW c \in chunks PROVE SameTenant(c.file, c.kb)
    BY DEF ChunksStayInTenant
  <2>1. c = PointOf(c.run) /\ c.run \in Runs /\ run[c.run].phase = "committed"
    BY DEF IInv, IndexIsSound, TypeOK, Point
  <2>2. SameTenant(run[c.run].file, run[c.run].kb)
    BY <2>1 DEF IInv, RowsAreSound
  <2>3. c.file = run[c.run].file /\ c.kb = run[c.run].kb
    BY <2>1 DEF PointOf
  <2>4. QED
    BY <2>2, <2>3
<1>2. QED
  BY <1>1, Invariant, PTL

\* The row lock serialises Qdrant too: without Qdrant failures no two points of
\* one file are of different runs.
THEOREM OneGeneration == Spec => []OneVectorGeneration
BY Invariant, PTL DEF IInv

\* A completed file has chunk rows unless its text is blank, however the runs that
\* replace them fail (document_pipeline_service.py:67).
THEOREM CompletedBacked == Spec => []CompletedHasChunks
BY Invariant, PTL DEF IInv

\* A committed row has its bytes unless a deletion of that file took them
\* (file_service.py:134).
THEOREM RowsBacked == Spec => []RowHasObject
BY Invariant, PTL DEF IInv

(***************************************************************************)
(* The pipeline implements the catalogue.                                  *)
(***************************************************************************)
LEMMA CatalogStutter ==
  ASSUME UNCHANGED <<files, chunks>>,
         \A f \in Files :
           Present(f) \/ (upload'[f].phase = "committed" <=> upload[f].phase = "committed"),
         \A r \in Runs : run'[r].phase = "committed" <=> run[r].phase = "committed"
  PROVE  UNCHANGED Catalog!vars
BY DEF Catalog!vars, CatalogStatus, Present

\* A run that goes from one phase to another, neither of them "committed".
LEMMA RunStutter ==
  ASSUME TypeOK, NEW r \in Runs, NEW p, run[r].phase \notin {"idle", "committed"},
         p # "committed", run' = [run EXCEPT ![r].phase = p],
         UNCHANGED <<upload, files, chunks>>
  PROVE  UNCHANGED Catalog!vars
BY RunUpdate, CatalogStutter

\* The pipeline starts where the catalogue starts.
LEMMA InitCatalog == Init => Catalog!Init
BY DEF Init, Catalog!Init, CatalogStatus, Present, IdleRun

\* The commit of an upload is the catalogue's Register.
LEMMA CommitRegisters ==
  ASSUME IInv, NEW f \in Files, NEW k, k = upload[f].kb, UploadCommit(f)
  PROVE  Catalog!Register(f, k)
<1>1. /\ TypeOK /\ upload[f].phase = "open" /\ SameTenant(f, k) /\ ~Present(f)
      /\ UNCHANGED <<chunks, run>>
  BY DEF UploadCommit, IInv, RowsAreSound
<1>2. /\ upload'[f].phase = "committed"
      /\ \A g \in Files : g # f => upload'[g] = upload[g]
  BY <1>1, UploadUpdate DEF UploadCommit
<1>3. /\ files'[f].status = "pending" /\ files'[f].kb = k
      /\ \A g \in Files : g # f => files'[g] = files[g]
  BY <1>1 DEF UploadCommit, TypeOK
<1>4. QED
  BY <1>1, <1>2, <1>3 DEF Catalog!Register, Catalog!SameTenant, SameTenant, CatalogStatus, Present

\* The commit of the seed script's indexing is the catalogue's Publish.
LEMMA SeedPublishes ==
  ASSUME IInv, NEW r \in Runs, NEW f, NEW k, f = run[r].file, k = run[r].kb,
         SeedCommit(r)
  PROVE  Catalog!Publish(f, r, k)
<1>1. /\ TypeOK /\ run[r].phase = "indexed" /\ HoldsLock(r)
      /\ run' = [run EXCEPT ![r].phase = "committed"]
      /\ files' = [files EXCEPT ![f].status = "completed"]
      /\ chunks' = ChunksWithout(f) \cup NewPoints(r)
      /\ UNCHANGED upload
  BY DEF SeedCommit, IInv, HoldsLock
<1>2. f \in Files /\ k \in MaybeKB /\ run[r].phase # "idle"
  BY <1>1, StartedRun
<1>3. Present(f) /\ SameTenant(f, k) /\ files[f].status \in {"pending", "completed"}
  BY <1>1, <1>2 DEF IInv, LockDiscipline, RowsAreSound, Present
<1>4. /\ files'[f].status = "completed" /\ files'[f].kb = files[f].kb
      /\ \A g \in Files : g # f => files'[g] = files[g]
  BY <1>1, <1>2, FileUpdate
<1>5. /\ run'[r].phase = "committed"
      /\ \A q \in Runs : q # r => run'[q] = run[q]
  BY <1>1, <1>2, RunUpdate
<1>6. {q \in Runs : run'[q].phase = "committed"} =
        {q \in Runs : run[q].phase = "committed"} \cup {r}
  BY <1>5
<1>7. Catalog!Generation(f, r, k) = NewPoints(r)
  BY DEF Catalog!Generation, NewPoints, PointOf
<1>8. chunks \ Catalog!ChunksOf(f) = ChunksWithout(f)
  BY DEF Catalog!ChunksOf, ChunksWithout
<1>9. Catalog!Known(f) /\ Catalog!SameTenant(f, k)
  BY <1>2, <1>3 DEF Catalog!Known, Catalog!SameTenant, SameTenant, CatalogStatus
<1>10. r \notin {q \in Runs : run[q].phase = "committed"}
  BY <1>1
<1>11. [g \in Files |-> CatalogStatus(g)'] =
         [[g \in Files |-> CatalogStatus(g)] EXCEPT ![f] = "completed"]
  <2>1. CatalogStatus(f)' = "completed"
    BY <1>4 DEF CatalogStatus, Present
  <2>2. \A g \in Files : g # f => CatalogStatus(g)' = CatalogStatus(g)
    BY <1>1, <1>4 DEF CatalogStatus, Present
  <2>3. QED
    BY <1>2, <2>1, <2>2
<1>12. [g \in Files |-> files'[g].kb] = [g \in Files |-> files[g].kb]
  BY <1>4
<1>13. QED
  BY <1>1, <1>6, <1>7, <1>8, <1>9, <1>10, <1>11, <1>12 DEF Catalog!Publish

\* A reprocess request is the catalogue's Reset.
LEMMA ReprocessResets ==
  ASSUME IInv, NEW f \in Files, ReprocessFile(f) PROVE Catalog!Reset(f)
<1>1. /\ TypeOK /\ files[f].status = "completed"
      /\ UNCHANGED <<upload, chunks, run>>
  BY DEF ReprocessFile, IInv, RowsAreSound
<1>2. /\ files'[f].status = "pending" /\ files'[f].kb = files[f].kb
      /\ \A g \in Files : g # f => files'[g] = files[g]
  BY <1>1, FileUpdate DEF ReprocessFile
<1>3. QED
  BY <1>1, <1>2 DEF Catalog!Reset, Catalog!Known, CatalogStatus, Present

\* An association is the catalogue's Assign.
LEMMA AssociateAssigns ==
  ASSUME IInv, NEW f \in Files, NEW k \in KBs, AssociateFile(f, k)
  PROVE  Catalog!Assign(f, k)
<1>1. /\ TypeOK /\ Present(f) /\ SameTenant(f, k) /\ k # NoKB
      /\ files[f].status \in {"pending", "completed"}
      /\ UNCHANGED <<upload, chunks, run>>
  BY ConstantsOK DEF AssociateFile, IInv, RowsAreSound, Present
<1>2. /\ files'[f].kb = k /\ files'[f].status = files[f].status
      /\ \A g \in Files : g # f => files'[g] = files[g]
  BY <1>1, KBUpdate DEF AssociateFile
<1>3. QED
  BY <1>1, <1>2 DEF Catalog!Assign, Catalog!Known, Catalog!SameTenant, SameTenant, CatalogStatus, Present

\* The DELETE of the row is the catalogue's Remove, or nothing if the row is gone.
LEMMA DeleteRemoves ==
  ASSUME IInv, NEW d \in Deletes, NEW f, f = deletes[d].file, DeleteRow(d)
  PROVE  Catalog!Remove(f) \/ UNCHANGED Catalog!vars
<1>1. /\ TypeOK /\ f \in Files
      /\ chunks' = ChunksWithout(f)
      /\ UNCHANGED <<upload, run>>
  BY StartedDelete DEF DeleteRow, IInv
<1>2. /\ files'[f].status = "absent" /\ files'[f].kb = NoKB
      /\ \A g \in Files : g # f => files'[g] = files[g]
  BY <1>1, RowRemoval DEF DeleteRow
<1>3. CASE Present(f)
  <2>1. files[f].status \in {"pending", "completed"} /\ upload[f].phase = "committed"
    BY <1>1, <1>3 DEF IInv, RowsAreSound, Present
  <2>2. chunks \ Catalog!ChunksOf(f) = ChunksWithout(f)
    BY DEF Catalog!ChunksOf, ChunksWithout
  <2>3. Catalog!Remove(f)
    BY <1>1, <1>2, <1>3, <2>1, <2>2 DEF Catalog!Remove, Catalog!Known, CatalogStatus, Present
  <2>4. QED
    BY <1>1, <2>3
<1>4. CASE ~Present(f)
  <2>1. chunks' = chunks
    BY <1>1, <1>4 DEF IInv, IndexIsSound, ChunksWithout
  <2>2. files[f].kb = NoKB
    BY <1>1, <1>4 DEF IInv, RowsAreSound
  <2>3. UNCHANGED Catalog!vars
    BY <1>1, <1>2, <1>4, <2>1, <2>2 DEF Catalog!vars, CatalogStatus, Present
  <2>4. QED
    BY <1>1, <2>3
<1>5. QED
  BY <1>3, <1>4

\* Every step of the pipeline is a catalogue step or a stutter.
LEMMA NextCatalog == IInv /\ [Next]_vars => [Catalog!Next]_(Catalog!vars)
<1> SUFFICES ASSUME IInv, [Next]_vars PROVE Catalog!Next \/ UNCHANGED Catalog!vars
  OBVIOUS
<1>0. TypeOK
  BY DEF IInv
<1>1. ASSUME UNCHANGED <<upload, files, chunks, run>> PROVE UNCHANGED Catalog!vars
  BY <1>1, CatalogStutter
<1>2. ASSUME NEW f \in Files, NEW k \in MaybeKB, NEW by \in {"api", "seed"},
             UploadFile(f, k, by)
      PROVE  UNCHANGED Catalog!vars
  BY <1>0, <1>2, CatalogStutter DEF UploadFile, TypeOK
<1>3. ASSUME NEW f \in Files, UploadCommit(f) PROVE Catalog!Next
  <2>1. PICK k \in MaybeKB : k = upload[f].kb
    BY <1>0 DEF TypeOK, Upload
  <2>2. Catalog!Register(f, k)
    BY <1>3, <2>1, CommitRegisters
  <2>3. QED
    BY <2>1, <2>2 DEF Catalog!Next, MaybeKB
<1>4. ASSUME NEW f \in Files, UploadAbort(f) PROVE UNCHANGED Catalog!vars
  BY <1>0, <1>4, UploadUpdate, CatalogStutter DEF UploadAbort
<1>5. ASSUME NEW f \in Files, ReprocessFile(f) PROVE Catalog!Next
  BY <1>5, ReprocessResets DEF Catalog!Next
<1>6. ASSUME NEW f \in Files, NEW k \in KBs, AssociateFile(f, k) PROVE Catalog!Next
  BY <1>6, AssociateAssigns DEF Catalog!Next
<1>7. ASSUME NEW f \in Files, NEW r \in Runs, StartWorker(r, f) \/ StartSeed(r, f)
      PROVE  UNCHANGED Catalog!vars
  <2>1. PICK c \in {"worker", "seed"} : Load(r, f, c)
    BY <1>7 DEF StartWorker, StartSeed
  <2>2. UNCHANGED <<upload, files, chunks>>
    BY <1>7 DEF StartWorker, StartSeed
  <2>3. QED
    BY <1>0, <2>1, <2>2, RunStart, CatalogStutter
<1>8. ASSUME NEW r \in Runs, MarkProcessing(r) \/ ClearOld(r) \/ IndexChunks(r)
      PROVE  UNCHANGED Catalog!vars
  <2>1. /\ run[r].phase \in {"loaded", "processing", "cleared"}
        /\ \E p \in {"processing", "cleared", "indexed", "discarded"} :
             run' = [run EXCEPT ![r].phase = p]
        /\ UNCHANGED <<upload, files, chunks>>
    BY <1>8 DEF MarkProcessing, ClearOld, IndexChunks
  <2>2. QED
    BY <1>0, <2>1, RunStutter
<1>9. ASSUME NEW r \in Runs, WorkerReturn(r) \/ RunFails(r)
      PROVE  UNCHANGED Catalog!vars
  <2>1. run[r].phase \in {"loaded", "processing", "cleared", "indexed"} /\ Discard(r)
    BY <1>9, EndOfRun
  <2>2. QED
    BY <1>0, <2>1, RunStutter DEF Discard
<1>10. ASSUME NEW r \in Runs, SeedCommit(r) PROVE Catalog!Next
  <2>1. PICK f \in Files, k \in MaybeKB : f = run[r].file /\ k = run[r].kb
    BY <1>0, <1>10, StartedRun DEF SeedCommit
  <2>2. Catalog!Publish(f, r, k)
    BY <1>10, <2>1, SeedPublishes
  <2>3. QED
    BY <2>1, <2>2 DEF Catalog!Next, MaybeKB
<1>11. ASSUME NEW d \in Deletes, DeleteRow(d) PROVE Catalog!Next \/ UNCHANGED Catalog!vars
  <2>1. PICK f \in Files : f = deletes[d].file
    BY <1>0, <1>11, StartedDelete DEF DeleteRow
  <2>2. Catalog!Remove(f) \/ UNCHANGED Catalog!vars
    BY <1>11, <2>1, DeleteRemoves
  <2>3. QED
    BY <2>1, <2>2 DEF Catalog!Next
<1>12. ASSUME NEW f \in Files, NEW d \in Deletes, DeleteVectors(d, f)
       PROVE  UNCHANGED Catalog!vars
  BY <1>1, <1>12 DEF DeleteVectors
<1>13. ASSUME NEW d \in Deletes, DeleteObject(d) \/ DeleteCrash(d)
       PROVE  UNCHANGED Catalog!vars
  BY <1>1, <1>13 DEF DeleteObject, DeleteCrash
<1>14. CASE UNCHANGED vars
  BY <1>1, <1>14 DEF vars
<1>15. QED
  BY <1>2, <1>3, <1>4, <1>5, <1>6, <1>7, <1>8, <1>9, <1>10, <1>11, <1>12, <1>13, <1>14
  DEF Next, RunStep, DeleteStep

\* The three stores, the row lock and the workers together behave as the
\* catalogue: a file's chunks change only as a whole, with its status, by a
\* fresh generation, and a deleted file stays deleted.
THEOREM PipelineImplementsCatalog == Spec => ImplementsCatalog
BY InitCatalog, NextCatalog, Invariant, PTL DEF Spec, ImplementsCatalog, Catalog!Spec
(***************************************************************************)
(* What is left of a deletion, and of the lock, when time is not looked at. *)
(***************************************************************************)

\* A deletion that removed the bytes, or the row, has removed them for good.
Lasts(d) ==
  /\ deletes[d].phase \in {"unstored", "done"} => deletes[d].file \notin objects
  /\ deletes[d].phase = "done" => ~Present(deletes[d].file)

DeletionsLast == \A d \in Deletes : Lasts(d)

\* Of a file whose deletion is done there is no row, no chunk row and no byte, and nobody
\* is indexing it: however the deletion met runs, crashes and other deletions.
DeletedForGood ==
  \A d \in Deletes : deletes[d].phase = "done" =>
    LET f == deletes[d].file IN
    /\ ~Present(f) /\ f \notin objects
    /\ \A c \in chunks : c.file # f
    /\ \A r \in Runs : run[r].file = f => ~HoldsLock(r)

\* Only an upload brings bytes or rows, and a file is uploaded once
\* (file_service.py:128-140).
LEMMA NextDeletions == IInv /\ DeletionsLast /\ [Next]_vars => DeletionsLast'
<1> SUFFICES ASSUME IInv, DeletionsLast, [Next]_vars, NEW d \in Deletes
             PROVE  Lasts(d)'
  BY DEF DeletionsLast
<1>0. TypeOK /\ RowsAreSound /\ UploadHasBytes /\ LockDiscipline
  BY DEF IInv
<1>1. deletes[d].phase # "idle" => /\ deletes[d].file \in Files
                                   /\ upload[deletes[d].file].phase = "committed"
  BY <1>0, StartedDelete DEF UploadHasBytes
<1>2. ASSUME UNCHANGED deletes, objects' \subseteq objects,
             \A f \in Files : Present(f)' => Present(f)
      PROVE  Lasts(d)'
  BY <1>1, <1>2 DEF DeletionsLast, Lasts, Present
<1>3. ASSUME UNCHANGED <<files, deletes>>, objects' \subseteq objects
      PROVE  Lasts(d)'
  BY <1>2, <1>3 DEF Present
<1>4. ASSUME NEW f \in Files, NEW k \in MaybeKB, NEW by \in {"api", "seed"},
             UploadFile(f, k, by)
      PROVE  Lasts(d)'
  BY <1>1, <1>4 DEF UploadFile, DeletionsLast, Lasts, Present
<1>5. ASSUME NEW f \in Files, UploadCommit(f)
      PROVE  Lasts(d)'
  <2>1. upload[f].phase = "open" /\ UNCHANGED <<objects, deletes>>
    BY <1>5 DEF UploadCommit
  <2>2. \A g \in Files : g # f => files'[g] = files[g]
    BY <1>0, <1>5 DEF UploadCommit, TypeOK
  <2>3. QED
    BY <1>1, <2>1, <2>2 DEF DeletionsLast, Lasts, Present
<1>6. ASSUME NEW f \in Files, ReprocessFile(f) \/ \E k \in KBs : AssociateFile(f, k)
      PROVE  UNCHANGED <<objects, deletes>> /\ \A g \in Files : Present(g)' => Present(g)
  BY <1>0, <1>6, FileUpdate, KBUpdate DEF ReprocessFile, AssociateFile, Present
<1>7. ASSUME NEW r \in Runs, SeedCommit(r)
      PROVE  UNCHANGED <<objects, deletes>> /\ \A g \in Files : Present(g)' => Present(g)
  <2>1. run[r].file \in Files /\ Present(run[r].file)
    BY <1>0, <1>7, StartedRun DEF SeedCommit, LockDiscipline, HoldsLock
  <2>2. QED
    BY <1>0, <1>7, <2>1, FileUpdate DEF SeedCommit, Present
<1>8. ASSUME NEW e \in Deletes, DeleteObject(e) \/ DeleteRow(e) \/ DeleteCrash(e)
      PROVE  Lasts(d)'
  <2>1. /\ deletes[e].phase # "idle" /\ deletes[e].file \in Files
        /\ deletes'[e].file = deletes[e].file
        /\ \A c \in Deletes : c # e => deletes'[c] = deletes[c]
    BY <1>0, <1>8, StartedDelete, DeleteUpdate DEF DeleteObject, DeleteRow, DeleteCrash
  <2>2. CASE DeleteObject(e)
    <3>1. /\ deletes'[e].phase = "unstored" /\ UNCHANGED files
          /\ objects' = objects \ {deletes[e].file}
      BY <1>0, <2>1, <2>2, DeleteUpdate DEF DeleteObject
    <3>2. QED
      BY <2>1, <3>1 DEF DeletionsLast, Lasts, Present
  <2>3. CASE DeleteRow(e)
    <3>1. /\ deletes[e].phase = "unstored" /\ UNCHANGED objects
          /\ files' = [files EXCEPT ![deletes[e].file] = [status |-> "absent", kb |-> NoKB]]
      BY <2>3 DEF DeleteRow
    <3>2. /\ ~Present(deletes[e].file)'
          /\ \A g \in Files : g # deletes[e].file => files'[g] = files[g]
      BY <1>0, <2>1, <3>1, RowRemoval DEF Present
    <3>3. QED
      BY <1>1, <2>1, <3>1, <3>2 DEF DeletionsLast, Lasts, Present
  <2>4. CASE DeleteCrash(e)
    <3>1. deletes'[e].phase = "crashed" /\ UNCHANGED <<files, objects>>
      BY <1>0, <2>1, <2>4, DeleteUpdate DEF DeleteCrash
    <3>2. QED
      BY <2>1, <3>1 DEF DeletionsLast, Lasts, Present
  <2>5. QED
    BY <1>8, <2>2, <2>3, <2>4
<1>9. ASSUME NEW f \in Files, NEW e \in Deletes, DeleteVectors(e, f)
      PROVE  Lasts(d)'
  <2>1. /\ deletes'[e].phase = "unindexed" /\ UNCHANGED <<files, objects>>
        /\ \A c \in Deletes : c # e => deletes'[c] = deletes[c]
    BY <1>0, <1>9 DEF DeleteVectors, TypeOK
  <2>2. QED
    BY <2>1 DEF DeletionsLast, Lasts, Present
<1>10. ASSUME NEW r \in Runs, RunStep(r), ~SeedCommit(r)
       PROVE  UNCHANGED <<files, objects, deletes>>
  BY <1>10 DEF RunStep, MarkProcessing, ClearOld, IndexChunks, WorkerReturn, RunFails, Discard
<1>11. ASSUME NEW f \in Files,
              UploadAbort(f) \/ \E r \in Runs : StartWorker(r, f) \/ StartSeed(r, f)
       PROVE  UNCHANGED <<files, objects, deletes>>
  BY <1>11 DEF UploadAbort, StartWorker, StartSeed
<1>12. CASE UNCHANGED vars
  BY <1>3, <1>12 DEF vars
<1>13. QED
  BY <1>2, <1>3, <1>4, <1>5, <1>6, <1>7, <1>8, <1>9, <1>10, <1>11, <1>12
  DEF Next, DeleteStep

\* The safety that is behind DeleteCompletes: what a deletion that ends has removed
\* stays removed, and no run puts anything back (file_service.py:128-140).
THEOREM DeletionsHold == Spec => []DeletedForGood
<1>1. Init => DeletionsLast
  BY DEF Init, DeletionsLast, Lasts, IdleDelete
<1>2. IInv /\ DeletionsLast => DeletedForGood
  <2> SUFFICES ASSUME IInv, DeletionsLast, NEW d \in Deletes, deletes[d].phase = "done"
               PROVE  LET f == deletes[d].file IN
                      /\ ~Present(f) /\ f \notin objects
                      /\ \A c \in chunks : c.file # f
                      /\ \A r \in Runs : run[r].file = f => ~HoldsLock(r)
    BY DEF DeletedForGood
  <2> QED
    BY DEF DeletionsLast, Lasts, IInv, IndexIsSound, LockDiscipline
<1>3. QED
  BY <1>1, <1>2, NextDeletions, Invariant, PTL DEF Spec

\* The steps that an indexing in mid-transaction still has before it ends.
StepsLeft(r) ==
  CASE run[r].phase = "processing" -> 3
    [] run[r].phase = "cleared" -> 2
    [] run[r].phase = "indexed" -> 1
    [] OTHER -> 0

\* Each step of the holder of a row lock brings its end nearer or is its end, no step
\* of anybody else changes how far it is, and nobody is handed the lock by another.
LocksMoveOn ==
  [][\A f \in Files, r \in Runs : lock[f] = r =>
       /\ StepsLeft(r) \in 1 .. 3
       /\ \/ lock'[f] = r /\ run'[r] = run[r] /\ ~RunStep(r)
          \/ lock'[f] = r /\ StepsLeft(r)' < StepsLeft(r)
          \/ lock'[f] = Free /\ StepsLeft(r)' = 0]_vars

\* Who holds the lock of f waits for nobody: a step ends its transaction or brings it
\* forward (document_pipeline_service.py:48-122).
THEOREM LocksEnd == Spec => LocksMoveOn
<1> DEFINE MovesOn(f, r) ==
             /\ StepsLeft(r) \in 1 .. 3
             /\ \/ lock'[f] = r /\ run'[r] = run[r] /\ ~RunStep(r)
                \/ lock'[f] = r /\ StepsLeft(r)' < StepsLeft(r)
                \/ lock'[f] = Free /\ StepsLeft(r)' = 0
           Step == \A f \in Files, r \in Runs : lock[f] = r => MovesOn(f, r)
<1>1. IInv /\ [Next]_vars => [Step]_vars
  <2> SUFFICES ASSUME IInv, Next, NEW f \in Files, NEW r \in Runs, lock[f] = r
               PROVE  MovesOn(f, r)
    OBVIOUS
  <2>0. TypeOK /\ LockDiscipline
    BY DEF IInv
  <2>1. HoldsLock(r) /\ run[r].file = f
    BY <2>0, ConstantsOK DEF LockDiscipline
  <2>2. StepsLeft(r) \in 1 .. 3
    BY <2>1 DEF StepsLeft, HoldsLock
  <2>3. ASSUME RunStep(r) PROVE MovesOn(f, r)
    <3>1. \A p : run' = [run EXCEPT ![r].phase = p] => run'[r].phase = p
      BY <2>0 DEF TypeOK
    <3>2. CASE MarkProcessing(r)
      BY <2>1, <3>2 DEF MarkProcessing, HoldsLock
    <3>3. CASE ClearOld(r) \/ IndexChunks(r)
      BY <2>1, <2>2, <3>1, <3>3 DEF ClearOld, IndexChunks, StepsLeft
    <3>4. CASE SeedCommit(r)
      <4>1. lock'[f] = Free /\ run'[r].phase = "committed"
        BY <2>0, <2>1, <3>1, <3>4 DEF SeedCommit, TypeOK
      <4>2. QED
        BY <2>2, <4>1 DEF StepsLeft
    <3>5. CASE WorkerReturn(r) \/ RunFails(r)
      <4>1. Discard(r)
        BY <3>5, EndOfRun
      <4>2. lock'[f] = Free /\ run'[r].phase = "discarded"
        BY <2>0, <2>1, <3>1, <4>1 DEF Discard, TypeOK
      <4>3. QED
        BY <2>2, <4>2 DEF StepsLeft
    <3>6. QED
      BY <2>3, <3>2, <3>3, <3>4, <3>5 DEF RunStep
  <2>4. ASSUME NEW q \in Runs, RunStep(q), q # r PROVE lock'[f] = r /\ run'[r] = run[r]
    <3>1. run[q].file \in Files \/ run[q].phase = "idle"
      BY <2>0, StartedRun
    <3>2. CASE MarkProcessing(q)
      <4>1. run[q].file # f
        BY <3>2, ConstantsOK DEF MarkProcessing
      <4>2. QED
        BY <2>0, <2>4, <3>2, <4>1 DEF MarkProcessing, TypeOK
    <3>3. CASE ClearOld(q) \/ IndexChunks(q)
      BY <2>0, <2>4, <3>3 DEF ClearOld, IndexChunks, TypeOK
    <3>4. CASE SeedCommit(q)
      <4>1. run[q].file # f
        BY <2>0, <2>4, <3>4 DEF SeedCommit, LockDiscipline, HoldsLock
      <4>2. QED
        BY <2>0, <2>4, <3>4, <4>1 DEF SeedCommit, TypeOK
    <3>5. CASE WorkerReturn(q) \/ RunFails(q)
      <4>1. Discard(q)
        BY <3>5, EndOfRun
      <4>2. QED
        BY <2>0, <2>4, <4>1 DEF Discard, TypeOK
    <3>6. QED
      BY <2>4, <3>2, <3>3, <3>4, <3>5 DEF RunStep
  <2>5. ASSUME NEW q \in Runs, NEW g \in Files, StartWorker(q, g) \/ StartSeed(q, g)
        PROVE  lock'[f] = r /\ run'[r] = run[r]
    <3>1. UNCHANGED lock /\ run[q].phase = "idle" /\ \A p \in Runs : p # q => run'[p] = run[p]
      BY <2>0, <2>5 DEF StartWorker, StartSeed, Load, TypeOK
    <3>2. QED
      BY <2>1, <3>1 DEF HoldsLock
  <2>6. ASSUME UNCHANGED <<lock, run>> PROVE lock'[f] = r /\ run'[r] = run[r]
    BY <2>6
  <2>7. (lock'[f] = r /\ run'[r] = run[r]) \/ RunStep(r)
    BY <2>4, <2>5, <2>6
       DEF Next, UploadFile, UploadCommit, UploadAbort, ReprocessFile, AssociateFile,
           DeleteVectors, DeleteStep, DeleteObject, DeleteRow, DeleteCrash
  <2>8. QED
    BY <2>2, <2>3, <2>7
<1>2. QED
  BY <1>1, Invariant, PTL DEF Spec, LocksMoveOn

(***************************************************************************)
(* Files that nobody will index.                                           *)
(***************************************************************************)
Seeds(r, f) == run[r].phase # "idle" /\ run[r].caller = "seed" /\ run[r].file = f

\* The seed script indexes only what it uploaded, each file once.
SeedsOnce ==
  \A r \in Runs, f \in Files : Seeds(r, f) =>
    /\ upload[f].phase = "committed" /\ upload[f].by = "seed"
    /\ \A q \in Runs : Seeds(q, f) => q = r

\* A pending file that came through the API, or whose seed run has ended.
Abandoned(f) ==
  /\ files[f].status = "pending"
  /\ \/ upload[f].by = "api"
     \/ \E r \in Runs : Seeds(r, f) /\ run[r].phase \in {"committed", "discarded"}

\* Such a file is pending until it is deleted: neither its task, nor reprocessing it, nor
\* the next start of the seed script changes that.
PendingForGood ==
  [][\A f \in Files : Abandoned(f) => Abandoned(f)' \/ files'[f].status = "absent"]_vars

\* What a run is and whose it is stays once it has started, and its end is final.
LEMMA RunsLast ==
  ASSUME TypeOK, [Next]_vars, NEW r \in Runs, run[r].phase # "idle"
  PROVE  /\ run'[r].phase # "idle" /\ run'[r].file = run[r].file
         /\ run'[r].caller = run[r].caller
         /\ run[r].phase \in {"committed", "discarded"} => run'[r] = run[r]
<1>1. ASSUME NEW q \in Runs, RunStep(q)
      PROVE  /\ run[q].phase \in {"loaded", "processing", "cleared", "indexed"}
             /\ \E p \in {"processing", "cleared", "indexed", "committed", "discarded"} :
                  run' = [run EXCEPT ![q].phase = p]
  BY <1>1, EndOfRun
     DEF RunStep, MarkProcessing, ClearOld, IndexChunks, SeedCommit, Discard
<1>2. ASSUME NEW q \in Runs, RunStep(q), q = r
      PROVE  /\ run'[r].phase # "idle" /\ run'[r].file = run[r].file
             /\ run'[r].caller = run[r].caller
  <2>1. PICK p \in {"processing", "cleared", "indexed", "committed", "discarded"} :
          run' = [run EXCEPT ![r].phase = p]
    BY <1>1, <1>2
  <2>2. QED
    BY <2>1, RunUpdate
<1>3. ASSUME NEW q \in Runs, RunStep(q), q # r PROVE run'[r] = run[r]
  BY <1>1, <1>3 DEF TypeOK
<1>4. ASSUME NEW q \in Runs, NEW f \in Files, StartWorker(q, f) \/ StartSeed(q, f)
      PROVE  run'[r] = run[r]
  BY <1>4 DEF StartWorker, StartSeed, Load, TypeOK
<1>5. (\E q \in Runs : RunStep(q)) \/ run'[r] = run[r]
  BY <1>4 DEF Next, UploadFile, UploadCommit, UploadAbort, ReprocessFile, AssociateFile,
              DeleteVectors, DeleteStep, DeleteObject, DeleteRow, DeleteCrash, vars
<1>6. QED
  BY <1>1, <1>2, <1>3, <1>5

\* A run of the seed script begins only with the seed script.
LEMMA SeedBegins ==
  ASSUME TypeOK, [Next]_vars, NEW r \in Runs, NEW f \in Files, Seeds(r, f)', ~Seeds(r, f)
  PROVE  StartSeed(r, f)
<1>1. run[r].phase = "idle"
  BY RunsLast DEF Seeds
<1>2. ASSUME NEW q \in Runs, RunStep(q) PROVE run'[r] = run[r]
  <2>1. q # r
    BY <1>1, <1>2, EndOfRun
       DEF RunStep, MarkProcessing, ClearOld, IndexChunks, SeedCommit
  <2>2. QED
    BY <1>2, <2>1, EndOfRun
       DEF RunStep, MarkProcessing, ClearOld, IndexChunks, SeedCommit, Discard, TypeOK
<1>3. ASSUME NEW q \in Runs, NEW g \in Files, StartWorker(q, g) PROVE ~Seeds(r, f)'
  BY <1>1, <1>3 DEF StartWorker, Load, Seeds, TypeOK
<1>4. ASSUME NEW q \in Runs, NEW g \in Files, StartSeed(q, g) PROVE q = r /\ g = f
  BY <1>1, <1>4 DEF StartSeed, Load, Seeds, TypeOK
<1>5. run'[r] # run[r]
  BY <1>1 DEF Seeds
<1>6. QED
  BY <1>2, <1>3, <1>4, <1>5
     DEF Next, UploadFile, UploadCommit, UploadAbort, ReprocessFile, AssociateFile,
         DeleteVectors, DeleteStep, DeleteObject, DeleteRow, DeleteCrash, vars

\* Who uploaded a file is settled with its upload.
LEMMA UploadsLast ==
  ASSUME TypeOK, [Next]_vars, NEW f \in Files, upload[f].phase = "committed"
  PROVE  upload'[f] = upload[f]
<1>1. ASSUME NEW g \in Files, NEW k \in MaybeKB, NEW by \in {"api", "seed"},
             UploadFile(g, k, by)
      PROVE  upload'[f] = upload[f]
  BY <1>1 DEF UploadFile, TypeOK
<1>2. ASSUME NEW g \in Files, UploadCommit(g) \/ UploadAbort(g)
      PROVE  upload'[f] = upload[f]
  BY <1>2 DEF UploadCommit, UploadAbort, TypeOK
<1>3. QED
  BY <1>1, <1>2
     DEF Next, ReprocessFile, AssociateFile, StartWorker, StartSeed, DeleteVectors, RunStep,
         MarkProcessing, ClearOld, IndexChunks, SeedCommit, WorkerReturn, RunFails, Discard,
         DeleteStep, DeleteObject, DeleteRow, DeleteCrash, vars

\* The seed script looks for its earlier runs (seed_admin.py:167).
LEMMA NextSeeds == TypeOK /\ SeedsOnce /\ [Next]_vars => SeedsOnce'
<1> SUFFICES ASSUME TypeOK, SeedsOnce, [Next]_vars, NEW r \in Runs, NEW f \in Files,
                    Seeds(r, f)'
             PROVE  /\ upload'[f].phase = "committed" /\ upload'[f].by = "seed"
                    /\ \A q \in Runs : Seeds(q, f)' => q = r
  BY DEF SeedsOnce
<1>1. Seeds(r, f) \/ StartSeed(r, f)
  BY SeedBegins
<1>2. upload[f].phase = "committed" /\ upload[f].by = "seed"
  BY <1>1 DEF SeedsOnce, StartSeed
<1>3. ASSUME NEW q \in Runs, Seeds(q, f)' PROVE q = r
  <2>1. Seeds(q, f) \/ StartSeed(q, f)
    BY <1>3, SeedBegins
  <2>2. CASE Seeds(q, f) /\ Seeds(r, f)
    BY <2>2 DEF SeedsOnce
  <2>3. CASE StartSeed(r, f)
    <3>1. ~Seeds(q, f)
      BY <2>3 DEF StartSeed, Seeds
    <3>2. StartSeed(q, f)
      BY <2>1, <3>1
    <3>3. run[q].phase = "idle" /\ run'[q].phase # "idle"
      BY <1>3, <3>2 DEF StartSeed, Load, Seeds
    <3>4. QED
      BY <2>3, <3>3 DEF StartSeed, Load, TypeOK
  <2>4. CASE StartSeed(q, f)
    <3>1. ~Seeds(r, f)
      BY <2>4 DEF StartSeed, Seeds
    <3>2. QED
      BY <1>1, <2>3, <3>1
  <2>5. QED
    BY <1>1, <2>1, <2>2, <2>3, <2>4
<1>4. QED
  BY <1>2, <1>3, UploadsLast

\* Only a commit of the seed script completes a file: the worker never commits, and
\* reprocessing sends no task (file_service.py:149, workers/tasks.py:19).
THEOREM AbandonedStay == Spec => PendingForGood
<1> DEFINE Step == \A f \in Files :
             Abandoned(f) => Abandoned(f)' \/ files'[f].status = "absent"
<1>1. Init => SeedsOnce
  BY DEF Init, SeedsOnce, Seeds, IdleRun
<1>2. IInv /\ SeedsOnce /\ [Next]_vars => [Step]_vars
  <2> SUFFICES ASSUME IInv, SeedsOnce, Next, NEW f \in Files, Abandoned(f),
                      files'[f].status # "absent"
               PROVE  Abandoned(f)'
    OBVIOUS
  <2>0. TypeOK
    BY DEF IInv
  <2>1. files[f].status = "pending" /\ upload[f].phase = "committed"
    BY DEF Abandoned, IInv, RowsAreSound, Present
  <2>2. upload'[f] = upload[f]
    BY <2>0, <2>1, UploadsLast
  <2>3. ASSUME NEW r \in Runs, Seeds(r, f), run[r].phase \in {"committed", "discarded"}
        PROVE  Seeds(r, f)' /\ run'[r].phase \in {"committed", "discarded"}
    <3>1. run[r].phase # "idle"
      BY <2>3 DEF Seeds
    <3>2. run'[r] = run[r]
      BY <2>0, <2>3, <3>1, RunsLast
    <3>3. QED
      BY <2>3, <3>2 DEF Seeds
  <2>4. ASSUME NEW r \in Runs, SeedCommit(r) PROVE run[r].file # f
    <3>1. SUFFICES ASSUME run[r].file = f PROVE FALSE
      OBVIOUS
    <3>2. Seeds(r, f) /\ run[r].phase = "indexed"
      BY <2>4, <3>1 DEF SeedCommit, Seeds
    <3>3. upload[f].by = "seed" /\ \A q \in Runs : Seeds(q, f) => q = r
      BY <3>2 DEF SeedsOnce
    <3>4. QED
      BY <3>2, <3>3 DEF Abandoned
  <2>5. files'[f].status = "pending"
    <3>1. ASSUME NEW r \in Runs, SeedCommit(r) PROVE files'[f] = files[f]
      BY <2>0, <2>4, <3>1 DEF SeedCommit, TypeOK
    <3>2. ASSUME NEW g \in Files, UploadCommit(g) \/ ReprocessFile(g)
          PROVE  files'[f] = files[f]
      BY <2>0, <2>1, <3>2 DEF UploadCommit, ReprocessFile, TypeOK
    <3>3. ASSUME NEW g \in Files, NEW k \in KBs, AssociateFile(g, k)
          PROVE  files'[f].status = files[f].status
      BY <2>0, <3>3, KBUpdate DEF AssociateFile
    <3>4. ASSUME NEW d \in Deletes, DeleteRow(d) PROVE files'[f] = files[f]
      BY <2>0, <3>4 DEF DeleteRow, TypeOK
    <3>5. QED
      BY <2>1, <3>1, <3>2, <3>3, <3>4
         DEF Next, UploadFile, UploadAbort, StartWorker, StartSeed, DeleteVectors, RunStep,
             MarkProcessing, ClearOld, IndexChunks, WorkerReturn, RunFails, Discard,
             DeleteStep, DeleteObject, DeleteCrash
  <2>6. QED
    BY <2>2, <2>3, <2>5 DEF Abandoned
<1>3. QED
  BY <1>1, <1>2, NextSeeds, Invariant, TypeCorrect, PTL DEF Spec, PendingForGood
=============================================================================
