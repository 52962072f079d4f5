------------------------- MODULE ShardedBuildProofs -------------------------
(* Invariance proofs for ShardedBuild, for any workers, chunks and bounds, *)
(* and the proof that it implements BuildLife.                             *)
EXTENDS ShardedBuild, TLAPS, FiniteSetTheorems

(***************************************************************************)
(* The inductive invariant.  FinishedIsComplete needs what every copy of   *)
(* the row says, StartsBounded the claims that have not begun to render,   *)
(* and both that a handler is at a step that suits its row.                *)
(***************************************************************************)

\* The steps of an ingest alone, and of a chunk alone.
IngestSteps == {"load", "mark", "discover", "handoff", "complete", "abort", "enqueue", "inline",
                "fatal", "givefail"}
ChunkSteps  == {"chunk", "budget", "render", "record", "reconcile"}

\* A handler works on a row that was queued, and on one of its own kind.
TaskInv ==
  \A w \in Workers :
    /\ task[w] = NoRow <=> pc[w] = "idle"
    /\ task[w] \in Rows => row[task[w]] # "absent"
    /\ pc[w] \in IngestSteps => task[w] = Ingest
    /\ pc[w] \in ChunkSteps => task[w] \in Rows \ {Ingest}

\* Which error a handler can be carrying at a step.
ErrInv ==
  \A w \in Workers :
    /\ pc[w] \in {"idle", "load", "mark", "discover", "enqueue", "handoff", "inline", "complete",
                  "chunk", "budget", "render", "finish"} => err[w] = "none"
    /\ pc[w] \in {"record", "reconcile", "post"} => err[w] \in {"none", "timeout", "gaveup"}

\* Whoever calls the build ready, the row or a copy of it, has all results.
ResultsInv ==
  /\ FinishedIsComplete
  /\ \A w \in Workers : mem[w].status = "ready" \/ pc[w] = "complete" => results = Chunks

\* The chunk rows there are: those of the batches enqueued so far.
BatchInv ==
  /\ row[Ingest] # "absent"
  /\ \A r \in Rows \ {Ingest} : row[r] = "absent" <=> r[1] > batches
  /\ \A r \in Rows : row[r] = "absent" => starts[r] = 0

\* The claims of a row that may still begin to render.
Beginning(r) == {w \in Workers : task[w] = r /\ pc[w] \in {"chunk", "budget"}}

\* Every render begun, and every one that may, has had a claim of its own.
StartsInv ==
  \A r \in Rows : row[r] # "gone" =>
    /\ starts[r] <= MaxTaskAttempts
    /\ attempts[r] <= MaxTaskAttempts => starts[r] + Cardinality(Beginning(r)) <= attempts[r]

\* Only a save that has read the row has columns to write.
SavingInv == \A w \in Workers : saving[w] # Idle => pc[w] \in Saves

\* A large build is only finished by a chunk: no ingest of it ever saves "ready".
CopyInv ==
  size = "large" => \A w \in Workers :
    /\ pc[w] \notin {"inline", "complete", "fatal"}
    /\ pc[w] \in {"discover", "enqueue", "handoff"} => mem[w].status = "running"
    /\ pc[w] = "mark" /\ saving[w] # Idle => mem[w].status = "running"
    /\ pc[w] = "abort" /\ saving[w] # Idle => mem[w].status = "failed"

IInv == TypeOK /\ TaskInv /\ ErrInv /\ ResultsInv /\ BatchInv /\ StartsInv
        /\ SavingInv /\ CopyInv

----------------------------------------------------------------------------
(* Types.                                                                  *)

\* The ends of a step, and the steps of a save, keep the handlers' state in its type.
LEMMA GoesType ==
  ASSUME WorkTypeOK, NEW w \in Workers, NEW s \in Steps, NEW e \in Errors, Goes(w, s, e)
  PROVE  WorkTypeOK'
<1>1. NoCopy \in Copies
  BY DEF NoCopy, Copies, Statuses
<1>2. mem' \in [Workers -> Copies]
  BY <1>1 DEF WorkTypeOK, Goes
<1>3. saving' \in [Workers -> {Idle} \cup SUBSET Columns]
  BY DEF WorkTypeOK, Goes
<1>4. QED
  BY <1>2, <1>3 DEF WorkTypeOK, Goes

\* A handler that ends leaves the handlers' state in its type.
LEMMA DoneType ==
  ASSUME WorkTypeOK, NEW w \in Workers, Done(w)
  PROVE  WorkTypeOK'
<1>1. NoCopy \in Copies
  BY DEF NoCopy, Copies, Statuses
<1>2. mem' \in [Workers -> Copies]
  BY <1>1 DEF WorkTypeOK, Done
<1>3. saving' \in [Workers -> {Idle} \cup SUBSET Columns]
  BY DEF WorkTypeOK, Done
<1>4. QED
  BY <1>2, <1>3 DEF WorkTypeOK, Done, Steps, Errors

\* What each save makes of the copy, and of the status in it.
LEMMA EditedType ==
  ASSUME WorkTypeOK, NEW w \in Workers, pc[w] \in Saves
  PROVE  /\ Edited(w) \in Copies
         /\ pc[w] = "mark" => Edited(w).status = "running"
         /\ pc[w] = "complete" => Edited(w).status = "ready"
         /\ pc[w] = "abort" => Edited(w).status = "failed"
         /\ pc[w] \in {"discover", "handoff"} => Edited(w).status = mem[w].status
<1>1. mem[w] \in Copies
  BY DEF WorkTypeOK
<1>2. CASE pc[w] = "mark"
  <2>1. Edited(w) = [mem[w] EXCEPT !.status = "running", !.owner = w]
    BY <1>2 DEF Edited
  <2>2. QED
    BY <1>1, <1>2, <2>1 DEF Copies, Statuses
<1>3. CASE pc[w] = "discover"
  <2>1. Edited(w) = [mem[w] EXCEPT !.expected = TRUE]
    BY <1>3 DEF Edited
  <2>2. QED
    BY <1>1, <1>3, <2>1 DEF Copies
<1>4. CASE pc[w] = "handoff"
  <2>1. Edited(w) = [mem[w] EXCEPT !.owner = NoWorker]
    BY <1>4 DEF Edited
  <2>2. QED
    BY <1>1, <1>4, <2>1 DEF Copies
<1>5. CASE pc[w] = "complete"
  <2>1. Edited(w) = [mem[w] EXCEPT !.status = "ready"]
    BY <1>5 DEF Edited
  <2>2. QED
    BY <1>1, <1>5, <2>1 DEF Copies, Statuses
<1>6. CASE pc[w] = "abort"
  <2>1. Edited(w) = [mem[w] EXCEPT !.status = "failed"]
    BY <1>6 DEF Edited
  <2>2. QED
    BY <1>1, <1>6, <2>1 DEF Copies, Statuses
<1>7. QED
  BY <1>2, <1>3, <1>4, <1>5, <1>6 DEF Saves

\* What follows a save, step by step.
LEMMA FollowingSteps ==
  /\ Following("mark") = "discover"
  /\ Following("discover") = IF size = "small" THEN "inline" ELSE "enqueue"
  /\ Following("handoff") = "finish"
  /\ Following("complete") = "post"
  /\ Following("abort") = "error"
BY DEF Following

\* So do the ways a chunk goes on after its reconcile ...
LEMMA ContinuesType ==
  ASSUME WorkTypeOK, NEW w \in Workers, Continues(w)
  PROVE  WorkTypeOK'
BY GoesType, DoneType DEF Continues, Steps, Saves, Errors

\* ... the bookkeeping of a retry ...
LEMMA BooksType ==
  ASSUME WorkTypeOK, NEW w \in Workers, Books(w)
  PROVE  WorkTypeOK'
BY GoesType, DoneType DEF Books, Steps, Saves, Errors

\* ... and a death.
LEMMA DiesType ==
  ASSUME WorkTypeOK, NEW w \in Workers, Dies(w)
  PROVE  WorkTypeOK'
BY DoneType DEF Dies

\* No step takes a handler's state out of its type.
LEMMA WorkTyped ==
  ASSUME IInv, Next
  PROVE  WorkTypeOK'
<1>1. UNCHANGED workVars => WorkTypeOK'
  BY DEF WorkTypeOK, IInv, TypeOK, workVars
<1>2. WorkTypeOK
  BY DEF IInv, TypeOK
<1>3. /\ Saves \cup {"load", "enqueue", "inline", "fatal", "chunk", "budget", "render", "record",
                   "reconcile", "post", "finish", "error", "giveup", "givefail"} \subseteq Steps
      /\ {"none", "transient", "permanent", "timeout", "gaveup"} \subseteq Errors
      /\ {"mark", "discover", "handoff", "complete", "abort"} \subseteq Saves
  BY DEF Steps, Saves, Errors
<1>4. /\ \A w \in Workers : mem[w] \in Copies /\ pc[w] \in Steps /\ err[w] \in Errors
      /\ build \in Copies
  BY DEF IInv, TypeOK, WorkTypeOK, BuildTypeOK
<1>5. CASE TimePasses
  BY <1>5, <1>1, <1>2, <1>3, <1>4 DEF TimePasses
<1>6. ASSUME NEW r \in Rows, LockExpires(r) PROVE WorkTypeOK'
  BY <1>6, <1>1, <1>2, <1>3, <1>4 DEF LockExpires
<1>7. ASSUME NEW w \in Workers, NEW r \in Rows, ClaimTask(w, r) PROVE WorkTypeOK'
  BY <1>7, <1>1, <1>2, <1>3, <1>4 DEF ClaimTask, WorkTypeOK
<1>8. ASSUME NEW w \in Workers, Handler(w) PROVE WorkTypeOK'
  <2>1. CASE IngestLoads(w)
    BY <2>1, <1>1, <1>2, <1>3, <1>4 DEF IngestLoads, WorkTypeOK
  <2>2. CASE SaveReads(w)
    <3>1. Edited(w) \in Copies
      BY <2>2, <1>2, EditedType DEF SaveReads
    <3>2. {c \in Columns : Edited(w)[c] # build[c]} \in SUBSET Columns
      OBVIOUS
    <3>3. QED
      BY <2>2, <1>2, <3>1, <3>2 DEF SaveReads, WorkTypeOK
  <2>3. CASE SaveWrites(w)
    <3>1. Following(pc[w]) \in Steps
      BY <2>3, FollowingSteps DEF SaveWrites, Saves, Steps
    <3>2. QED
      BY <2>3, <1>2, <1>4, <3>1, GoesType DEF SaveWrites
  <2>4. CASE EnqueueRenderChunks(w)
    BY <2>4, <1>1, <1>2, <1>3, <1>4, GoesType DEF EnqueueRenderChunks
  <2>5. CASE InlineRenders(w)
    BY <2>5, <1>1, <1>2, <1>3, <1>4, GoesType DEF InlineRenders
  <2>6. CASE ChunkLoads(w)
    BY <2>6, <1>1, <1>2, <1>3, <1>4, GoesType DEF ChunkLoads
  <2>7. CASE CheckBudget(w)
    BY <2>7, <1>1, <1>2, <1>3, <1>4, GoesType DEF CheckBudget
  <2>8. CASE RenderChunk(w)
    BY <2>8, <1>1, <1>2, <1>3, <1>4, GoesType DEF RenderChunk
  <2>9. CASE PoisonKills(w)
    BY <2>9, <1>1, <1>2, <1>3, <1>4, DiesType DEF PoisonKills
  <2>10. CASE RecordFailures(w)
    BY <2>10, <1>1, <1>2, <1>3, <1>4, GoesType DEF RecordFailures
  <2>11. CASE Reconcile(w)
    BY <2>11, <1>1, <1>2, <1>3, <1>4, GoesType, ContinuesType DEF Reconcile
  <2>12. CASE CompleteBuild(w)
    BY <2>12, <1>1, <1>2, <1>3, <1>4, ContinuesType DEF CompleteBuild
  <2>13. CASE FinishTask(w)
    BY <2>13, <1>1, <1>2, <1>3, <1>4, DoneType DEF FinishTask
  <2>14. CASE FailTask(w)
    BY <2>14, <1>1, <1>2, <1>3, <1>4, DoneType, BooksType DEF FailTask
  <2>15. CASE GiveUpOnTask(w)
    BY <2>15, <1>1, <1>2, <1>3, <1>4, GoesType, DoneType DEF GiveUpOnTask
  <2>16. CASE GiveUpOnBuild(w)
    BY <2>16, <1>1, <1>2, <1>3, <1>4, DoneType DEF GiveUpOnBuild
  <2>17. CASE FatalDeletes(w)
    BY <2>17, <1>1, <1>2, <1>3, <1>4, DiesType DEF FatalDeletes
  <2>18. QED
    BY <1>8, <2>1, <2>2, <2>3, <2>4, <2>5, <2>6, <2>7, <2>8, <2>9, <2>10, <2>11, <2>12, <2>13,
      <2>14, <2>15, <2>16, <2>17 DEF Handler
<1>9. ASSUME NEW w \in Workers, Fault(w) PROVE WorkTypeOK'
  <2>1. CASE EnqueueReplyLost(w)
    BY <2>1, <1>1, <1>2, <1>3, <1>4, GoesType DEF EnqueueReplyLost
  <2>2. CASE FinishFails(w)
    BY <2>2, <1>1, <1>2, <1>3, <1>4, GoesType DEF FinishFails
  <2>3. CASE FailTaskFails(w)
    BY <2>3, <1>1, <1>2, <1>3, <1>4, BooksType DEF FailTaskFails
  <2>4. CASE GiveUpFails(w)
    BY <2>4, <1>1, <1>2, <1>3, <1>4, DoneType DEF GiveUpFails
  <2>5. CASE ChunkWedges(w)
    BY <2>5, <1>1, <1>2, <1>3, <1>4, DiesType DEF ChunkWedges
  <2>6. CASE InlineWedges(w)
    BY <2>6, <1>1, <1>2, <1>3, <1>4, GoesType DEF InlineWedges
  <2>7. CASE ReclaimErrs(w)
    BY <2>7, <1>1, <1>2, <1>3, <1>4 DEF ReclaimErrs
  <2>8. ASSUME NEW e \in {"transient", "permanent", "timeout"}, IngestErrs(w, e) PROVE WorkTypeOK'
    BY <2>8, <1>1, <1>2, <1>3, <1>4, GoesType DEF IngestErrs
  <2>9. ASSUME NEW e \in {"transient", "permanent", "timeout"}, ChunkErrs(w, e) PROVE WorkTypeOK'
    BY <2>9, <1>1, <1>2, <1>3, <1>4, GoesType, DoneType DEF ChunkErrs
  <2>10. QED
    BY <1>9, <2>1, <2>2, <2>3, <2>4, <2>5, <2>6, <2>7, <2>8, <2>9 DEF Fault
<1>10. ASSUME NEW w \in Workers, Sweep(w) PROVE WorkTypeOK'
  <2>1. CASE SweepSelects(w)
    BY <2>1, <1>1, <1>2, <1>3, <1>4 DEF SweepSelects
  <2>2. CASE SweepFails(w)
    BY <2>2, <1>1, <1>2, <1>3, <1>4 DEF SweepFails
  <2>3. CASE SweepDeletes(w)
    BY <2>3, <1>1, <1>2, <1>3, <1>4 DEF SweepDeletes
  <2>4. QED
    BY <1>10, <2>1, <2>2, <2>3 DEF Sweep
<1>11. ASSUME NEW w \in Workers, Shutdown(w) PROVE WorkTypeOK'
  <2>1. CASE ShutdownReleases(w)
    BY <2>1, <1>1, <1>2, <1>3, <1>4 DEF ShutdownReleases
  <2>2. CASE ShutdownResets(w)
    BY <2>2, <1>1, <1>2, <1>3, <1>4 DEF ShutdownResets
  <2>3. CASE ShutdownExits(w)
    BY <2>3, <1>1, <1>2, <1>3, <1>4, DiesType DEF ShutdownExits
  <2>4. QED
    BY <1>11, <2>1, <2>2, <2>3 DEF Shutdown
<1>12. ASSUME NEW w \in Workers, Reclaim(w) PROVE WorkTypeOK'
  <2>1. CASE ReclaimUnlocks(w)
    BY <2>1, <1>1, <1>2, <1>3, <1>4 DEF ReclaimUnlocks
  <2>2. CASE ReclaimRequeues(w)
    BY <2>2, <1>1, <1>2, <1>3, <1>4 DEF ReclaimRequeues
  <2>3. CASE ReclaimFails(w)
    BY <2>3, <1>1, <1>2, <1>3, <1>4 DEF ReclaimFails
  <2>4. CASE ReclaimDeletes(w)
    BY <2>4, <1>1, <1>2, <1>3, <1>4 DEF ReclaimDeletes
  <2>5. QED
    BY <1>12, <2>1, <2>2, <2>3, <2>4 DEF Reclaim
<1>13. ASSUME NEW w \in Workers, HandleShutdownSignal(w) PROVE WorkTypeOK'
  BY <1>13, <1>1, <1>2, <1>3, <1>4 DEF HandleShutdownSignal
<1>14. ASSUME NEW w \in Workers, Crash(w) PROVE WorkTypeOK'
  BY <1>14, <1>1, <1>2, <1>3, <1>4, DiesType DEF Crash
<1>15. ASSUME NEW w \in Workers, Boot(w) PROVE WorkTypeOK'
  BY <1>15, <1>1, <1>2, <1>3, <1>4 DEF Boot
<1>16. QED
  BY <1>5, <1>6, <1>7, <1>8, <1>9, <1>10, <1>11, <1>12, <1>13, <1>14, <1>15 DEF Next

\* An unlock and a delete keep the queue in its types.
LEMMA ReleaseType ==
  ASSUME RowTypeOK, NEW r \in Rows, ReleaseLock(r), UNCHANGED countVars
  PROVE  RowTypeOK'
BY DEF RowTypeOK, ReleaseLock, Queued, countVars

\* A delete keeps the queue in its types.
LEMMA DeleteType ==
  ASSUME RowTypeOK, NEW r \in Rows, DeleteTask(r), UNCHANGED countVars
  PROVE  RowTypeOK'
BY DEF RowTypeOK, DeleteTask, Queued, countVars

\* No step takes the queue rows or the histories out of their types.
LEMMA RowTyped ==
  ASSUME IInv, Next
  PROVE  RowTypeOK'
<1>1. UNCHANGED <<rowVars, countVars>> => RowTypeOK'
  BY DEF RowTypeOK, IInv, TypeOK, rowVars, countVars
<1>2. RowTypeOK /\ Ingest \in Rows
  BY DEF IInv, TypeOK, Rows
<1>3. \A w \in Workers : task[w] \in Rows \/ (pc[w] = "idle" /\ task[w] = NoRow)
  BY DEF IInv, TypeOK, WorkTypeOK, TaskInv
<1>4. CASE TimePasses
  BY <1>4, <1>1, <1>2, <1>3 DEF TimePasses
<1>5. ASSUME NEW r \in Rows, LockExpires(r) PROVE RowTypeOK'
  BY <1>5, <1>1, <1>2, <1>3 DEF LockExpires, RowTypeOK, countVars
<1>6. ASSUME NEW w \in Workers, NEW r \in Rows, ClaimTask(w, r) PROVE RowTypeOK'
  BY <1>6, <1>1, <1>2, <1>3, BuildAssumption DEF ClaimTask, RowTypeOK, countVars
<1>7. ASSUME NEW w \in Workers, Handler(w) PROVE RowTypeOK'
  <2>1. CASE IngestLoads(w)
    BY <2>1, <1>1, <1>2, <1>3 DEF IngestLoads
  <2>2. CASE SaveReads(w)
    BY <2>2, <1>1, <1>2, <1>3 DEF SaveReads
  <2>3. CASE SaveWrites(w)
    BY <2>3, <1>1, <1>2, <1>3 DEF SaveWrites
  <2>4. CASE EnqueueRenderChunks(w)
    BY <2>4, <1>1, <1>2, <1>3, BuildAssumption DEF EnqueueRenderChunks, InsertChunks, RowTypeOK
  <2>5. CASE InlineRenders(w)
    BY <2>5, <1>1, <1>2, <1>3 DEF InlineRenders
  <2>6. CASE ChunkLoads(w)
    BY <2>6, <1>1, <1>2, <1>3 DEF ChunkLoads
  <2>7. CASE CheckBudget(w)
    BY <2>7, <1>1, <1>2, <1>3 DEF CheckBudget, RowTypeOK, rowVars
  <2>8. CASE RenderChunk(w)
    BY <2>8, <1>1, <1>2, <1>3 DEF RenderChunk
  <2>9. CASE PoisonKills(w)
    BY <2>9, <1>1, <1>2, <1>3 DEF PoisonKills, Dies
  <2>10. CASE RecordFailures(w)
    BY <2>10, <1>1, <1>2, <1>3 DEF RecordFailures
  <2>11. CASE Reconcile(w)
    BY <2>11, <1>1, <1>2, <1>3 DEF Reconcile
  <2>12. CASE CompleteBuild(w)
    BY <2>12, <1>1, <1>2, <1>3 DEF CompleteBuild, RowTypeOK, rowVars
  <2>13. CASE FinishTask(w)
    BY <2>13, <1>1, <1>2, <1>3, DeleteType DEF FinishTask, countVars
  <2>14. CASE FailTask(w)
    BY <2>14, <1>1, <1>2, <1>3, DeleteType, ReleaseType DEF FailTask, countVars
  <2>15. CASE GiveUpOnTask(w)
    BY <2>15, <1>1, <1>2, <1>3, DeleteType DEF GiveUpOnTask, countVars
  <2>16. CASE GiveUpOnBuild(w)
    BY <2>16, <1>1, <1>2, <1>3 DEF GiveUpOnBuild
  <2>17. CASE FatalDeletes(w)
    BY <2>17, <1>1, <1>2, <1>3, DeleteType DEF FatalDeletes, countVars, Dies
  <2>18. QED
    BY <1>7, <2>1, <2>2, <2>3, <2>4, <2>5, <2>6, <2>7, <2>8, <2>9, <2>10, <2>11, <2>12, <2>13,
      <2>14, <2>15, <2>16, <2>17 DEF Handler
<1>8. ASSUME NEW w \in Workers, Fault(w) PROVE RowTypeOK'
  <2>1. CASE EnqueueReplyLost(w)
    BY <2>1, <1>1, <1>2, <1>3, BuildAssumption DEF EnqueueReplyLost, InsertChunks, RowTypeOK
  <2>2. CASE FinishFails(w)
    BY <2>2, <1>1, <1>2, <1>3 DEF FinishFails
  <2>3. CASE FailTaskFails(w)
    BY <2>3, <1>1, <1>2, <1>3 DEF FailTaskFails
  <2>4. CASE GiveUpFails(w)
    BY <2>4, <1>1, <1>2, <1>3 DEF GiveUpFails
  <2>5. CASE ChunkWedges(w)
    BY <2>5, <1>1, <1>2, <1>3, DeleteType, ReleaseType DEF ChunkWedges, countVars, Dies
  <2>6. CASE InlineWedges(w)
    BY <2>6, <1>1, <1>2, <1>3 DEF InlineWedges
  <2>7. CASE ReclaimErrs(w)
    BY <2>7, <1>1, <1>2, <1>3 DEF ReclaimErrs
  <2>8. ASSUME NEW e \in {"transient", "permanent", "timeout"}, IngestErrs(w, e) PROVE RowTypeOK'
    BY <2>8, <1>1, <1>2, <1>3 DEF IngestErrs
  <2>9. ASSUME NEW e \in {"transient", "permanent", "timeout"}, ChunkErrs(w, e) PROVE RowTypeOK'
    BY <2>9, <1>1, <1>2, <1>3 DEF ChunkErrs
  <2>10. QED
    BY <1>8, <2>1, <2>2, <2>3, <2>4, <2>5, <2>6, <2>7, <2>8, <2>9 DEF Fault
<1>9. ASSUME NEW w \in Workers, Sweep(w) PROVE RowTypeOK'
  <2>1. CASE SweepSelects(w)
    BY <2>1, <1>1, <1>2, <1>3 DEF SweepSelects
  <2>2. CASE SweepFails(w)
    BY <2>2, <1>1, <1>2, <1>3 DEF SweepFails
  <2>3. CASE SweepDeletes(w)
    BY <2>3, <1>1, <1>2, <1>3 DEF SweepDeletes, RowTypeOK, countVars
  <2>4. QED
    BY <1>9, <2>1, <2>2, <2>3 DEF Sweep
<1>10. ASSUME NEW w \in Workers, Shutdown(w) PROVE RowTypeOK'
  <2>1. CASE ShutdownReleases(w)
    BY <2>1, <1>1, <1>2, <1>3, DeleteType, ReleaseType DEF ShutdownReleases, countVars
  <2>2. CASE ShutdownResets(w)
    BY <2>2, <1>1, <1>2, <1>3 DEF ShutdownResets
  <2>3. CASE ShutdownExits(w)
    BY <2>3, <1>1, <1>2, <1>3 DEF ShutdownExits, Dies
  <2>4. QED
    BY <1>10, <2>1, <2>2, <2>3 DEF Shutdown
<1>11. ASSUME NEW w \in Workers, Reclaim(w) PROVE RowTypeOK'
  <2>1. CASE ReclaimUnlocks(w)
    BY <2>1, <1>1, <1>2, <1>3, DeleteType, ReleaseType DEF ReclaimUnlocks, countVars
  <2>2. CASE ReclaimRequeues(w)
    BY <2>2, <1>1, <1>2, <1>3 DEF ReclaimRequeues
  <2>3. CASE ReclaimFails(w)
    BY <2>3, <1>1, <1>2, <1>3 DEF ReclaimFails
  <2>4. CASE ReclaimDeletes(w)
    BY <2>4, <1>1, <1>2, <1>3, DeleteType DEF ReclaimDeletes, countVars
  <2>5. QED
    BY <1>11, <2>1, <2>2, <2>3, <2>4 DEF Reclaim
<1>12. ASSUME NEW w \in Workers, HandleShutdownSignal(w) PROVE RowTypeOK'
  BY <1>12, <1>1, <1>2, <1>3 DEF HandleShutdownSignal
<1>13. ASSUME NEW w \in Workers, Crash(w) PROVE RowTypeOK'
  BY <1>13, <1>1, <1>2, <1>3 DEF Crash, Dies
<1>14. ASSUME NEW w \in Workers, Boot(w) PROVE RowTypeOK'
  BY <1>14, <1>1, <1>2, <1>3 DEF Boot
<1>15. QED
  BY <1>4, <1>5, <1>6, <1>7, <1>8, <1>9, <1>10, <1>11, <1>12, <1>13, <1>14 DEF Next

\* The chunk of a chunk row is one of the build's.
LEMMA ChunkOfType ==
  ASSUME NEW r \in Rows \ {Ingest}
  PROVE  ChunkOf(r) \in Chunks
BY DEF Rows, Ingest, ChunkOf

\* A status update keeps the build row in its type.
LEMMA BecomesType ==
  ASSUME BuildTypeOK, NEW s \in Statuses, NEW o \in Workers \cup {NoWorker}, Becomes(s, o)
  PROVE  build' \in Copies /\ updated' = "fresh"
BY DEF BuildTypeOK, Becomes, Copies

\* No step takes the build row or its results out of their types.
LEMMA BuildTyped ==
  ASSUME IInv, Next
  PROVE  BuildTypeOK'
<1>1. UNCHANGED <<buildVars, beat, results>> => BuildTypeOK'
  BY DEF BuildTypeOK, IInv, TypeOK, buildVars
<1>2. BuildTypeOK /\ build.owner \in Workers \cup {NoWorker}
  BY DEF IInv, TypeOK, BuildTypeOK, Copies
<1>3. {"pending", "running", "ready", "failed"} \subseteq Statuses
  BY DEF Statuses
<1>4. CASE TimePasses
  BY <1>4, <1>1, <1>2 DEF TimePasses, BuildTypeOK
<1>5. ASSUME NEW r \in Rows, LockExpires(r) PROVE BuildTypeOK'
  BY <1>5, <1>1, <1>2 DEF LockExpires
<1>6. ASSUME NEW w \in Workers, NEW r \in Rows, ClaimTask(w, r) PROVE BuildTypeOK'
  BY <1>6, <1>1, <1>2 DEF ClaimTask
<1>7. ASSUME NEW w \in Workers, Handler(w) PROVE BuildTypeOK'
  <2>1. CASE IngestLoads(w)
    BY <2>1, <1>1, <1>2 DEF IngestLoads
  <2>2. CASE SaveReads(w)
    BY <2>2, <1>1, <1>2 DEF SaveReads
  <2>3. CASE SaveWrites(w)
    <3>1. mem[w] \in Copies /\ build \in Copies
      BY DEF IInv, TypeOK, WorkTypeOK, BuildTypeOK
    <3>2. build' = [status |-> IF "status" \in saving[w] THEN mem[w].status ELSE build.status,
                    owner |-> IF "owner" \in saving[w] THEN mem[w].owner ELSE build.owner,
                    expected |-> IF "expected" \in saving[w] THEN mem[w].expected
                                ELSE build.expected]
      BY <2>3, <3>1 DEF SaveWrites, Copies, Columns
    <3>3. build' \in Copies
      BY <3>1, <3>2 DEF Copies
    <3>4. QED
      BY <2>3, <1>2, <3>3 DEF SaveWrites, BuildTypeOK
  <2>4. CASE EnqueueRenderChunks(w)
    BY <2>4, <1>1, <1>2 DEF EnqueueRenderChunks
  <2>5. CASE InlineRenders(w)
    BY <2>5, <1>1, <1>2 DEF InlineRenders, BuildTypeOK, buildVars
  <2>6. CASE ChunkLoads(w)
    BY <2>6, <1>1, <1>2 DEF ChunkLoads
  <2>7. CASE CheckBudget(w)
    BY <2>7, <1>1, <1>2 DEF CheckBudget
  <2>8. CASE RenderChunk(w)
    <3>1. ChunkOf(task[w]) \in Chunks
      BY <2>8, ChunkOfType DEF RenderChunk, IInv, TaskInv, ChunkSteps
    <3>2. QED
      BY <2>8, <1>2, <3>1 DEF RenderChunk, BuildTypeOK, buildVars
  <2>9. CASE PoisonKills(w)
    BY <2>9, <1>1, <1>2 DEF PoisonKills, Dies
  <2>10. CASE RecordFailures(w)
    <3>1. ChunkOf(task[w]) \in Chunks
      BY <2>10, ChunkOfType DEF RecordFailures, IInv, TaskInv, ChunkSteps
    <3>2. QED
      BY <2>10, <1>2, <3>1 DEF RecordFailures, BuildTypeOK, buildVars
  <2>11. CASE Reconcile(w)
    <3>1. build' \in Copies /\ updated' \in {"fresh", "old"}
      BY <2>11, <1>2, <1>3, BecomesType DEF Reconcile, BuildTypeOK, buildVars
    <3>2. QED
      BY <2>11, <1>2, <3>1 DEF Reconcile, BuildTypeOK
  <2>12. CASE CompleteBuild(w)
    BY <2>12, <1>1, <1>2 DEF CompleteBuild
  <2>13. CASE FinishTask(w)
    BY <2>13, <1>1, <1>2 DEF FinishTask
  <2>14. CASE FailTask(w)
    BY <2>14, <1>1, <1>2 DEF FailTask
  <2>15. CASE GiveUpOnTask(w)
    BY <2>15, <1>1, <1>2 DEF GiveUpOnTask
  <2>16. CASE GiveUpOnBuild(w)
    <3>1. build' \in Copies /\ updated' \in {"fresh", "old"}
      BY <2>16, <1>2, <1>3, BecomesType DEF GiveUpOnBuild, BuildTypeOK, buildVars
    <3>2. QED
      BY <2>16, <1>2, <3>1 DEF GiveUpOnBuild, BuildTypeOK
  <2>17. CASE FatalDeletes(w)
    BY <2>17, <1>1, <1>2 DEF FatalDeletes, Dies
  <2>18. QED
    BY <1>7, <2>1, <2>2, <2>3, <2>4, <2>5, <2>6, <2>7, <2>8, <2>9, <2>10, <2>11, <2>12, <2>13,
      <2>14, <2>15, <2>16, <2>17 DEF Handler
<1>8. ASSUME NEW w \in Workers, Fault(w) PROVE BuildTypeOK'
  <2>1. CASE EnqueueReplyLost(w)
    BY <2>1, <1>1, <1>2 DEF EnqueueReplyLost
  <2>2. CASE FinishFails(w)
    BY <2>2, <1>1, <1>2 DEF FinishFails
  <2>3. CASE FailTaskFails(w)
    BY <2>3, <1>1, <1>2 DEF FailTaskFails
  <2>4. CASE GiveUpFails(w)
    BY <2>4, <1>1, <1>2 DEF GiveUpFails
  <2>5. CASE ChunkWedges(w)
    BY <2>5, <1>1, <1>2 DEF ChunkWedges, Dies
  <2>6. CASE InlineWedges(w)
    <3>1. build' \in Copies /\ updated' \in {"fresh", "old"}
      BY <2>6, <1>2, <1>3, BecomesType DEF InlineWedges, BuildTypeOK, buildVars
    <3>2. QED
      BY <2>6, <1>2, <3>1 DEF InlineWedges, BuildTypeOK
  <2>7. CASE ReclaimErrs(w)
    BY <2>7, <1>1, <1>2 DEF ReclaimErrs
  <2>8. ASSUME NEW e \in {"transient", "permanent", "timeout"}, IngestErrs(w, e) PROVE BuildTypeOK'
    BY <2>8, <1>1, <1>2 DEF IngestErrs
  <2>9. ASSUME NEW e \in {"transient", "permanent", "timeout"}, ChunkErrs(w, e) PROVE BuildTypeOK'
    BY <2>9, <1>1, <1>2 DEF ChunkErrs
  <2>10. QED
    BY <1>8, <2>1, <2>2, <2>3, <2>4, <2>5, <2>6, <2>7, <2>8, <2>9 DEF Fault
<1>9. ASSUME NEW w \in Workers, Sweep(w) PROVE BuildTypeOK'
  <2>1. CASE SweepSelects(w)
    BY <2>1, <1>1, <1>2 DEF SweepSelects
  <2>2. CASE SweepFails(w)
    <3>1. build' \in Copies /\ updated' \in {"fresh", "old"}
      BY <2>2, <1>2, <1>3, BecomesType DEF SweepFails, BuildTypeOK, buildVars
    <3>2. QED
      BY <2>2, <1>2, <3>1 DEF SweepFails, BuildTypeOK
  <2>3. CASE SweepDeletes(w)
    BY <2>3, <1>1, <1>2 DEF SweepDeletes
  <2>4. QED
    BY <1>9, <2>1, <2>2, <2>3 DEF Sweep
<1>10. ASSUME NEW w \in Workers, Shutdown(w) PROVE BuildTypeOK'
  <2>1. CASE ShutdownReleases(w)
    BY <2>1, <1>1, <1>2 DEF ShutdownReleases
  <2>2. CASE ShutdownResets(w)
    <3>1. build' \in Copies /\ updated' \in {"fresh", "old"}
      BY <2>2, <1>2, <1>3, BecomesType DEF ShutdownResets, BuildTypeOK, buildVars
    <3>2. QED
      BY <2>2, <1>2, <3>1 DEF ShutdownResets, BuildTypeOK
  <2>3. CASE ShutdownExits(w)
    BY <2>3, <1>1, <1>2 DEF ShutdownExits, Dies
  <2>4. QED
    BY <1>10, <2>1, <2>2, <2>3 DEF Shutdown
<1>11. ASSUME NEW w \in Workers, Reclaim(w) PROVE BuildTypeOK'
  <2>1. CASE ReclaimUnlocks(w)
    BY <2>1, <1>1, <1>2 DEF ReclaimUnlocks
  <2>2. CASE ReclaimRequeues(w)
    <3>1. build' \in Copies /\ updated' \in {"fresh", "old"}
      BY <2>2, <1>2, <1>3, BecomesType DEF ReclaimRequeues, BuildTypeOK, buildVars
    <3>2. QED
      BY <2>2, <1>2, <3>1 DEF ReclaimRequeues, BuildTypeOK
  <2>3. CASE ReclaimFails(w)
    <3>1. build' \in Copies /\ updated' \in {"fresh", "old"}
      BY <2>3, <1>2, <1>3, BecomesType DEF ReclaimFails, BuildTypeOK, buildVars
    <3>2. QED
      BY <2>3, <1>2, <3>1 DEF ReclaimFails, BuildTypeOK
  <2>4. CASE ReclaimDeletes(w)
    BY <2>4, <1>1, <1>2 DEF ReclaimDeletes
  <2>5. QED
    BY <1>11, <2>1, <2>2, <2>3, <2>4 DEF Reclaim
<1>12. ASSUME NEW w \in Workers, HandleShutdownSignal(w) PROVE BuildTypeOK'
  BY <1>12, <1>1, <1>2 DEF HandleShutdownSignal
<1>13. ASSUME NEW w \in Workers, Crash(w) PROVE BuildTypeOK'
  BY <1>13, <1>1, <1>2 DEF Crash, Dies
<1>14. ASSUME NEW w \in Workers, Boot(w) PROVE BuildTypeOK'
  BY <1>14, <1>1, <1>2 DEF Boot
<1>15. QED
  BY <1>4, <1>5, <1>6, <1>7, <1>8, <1>9, <1>10, <1>11, <1>12, <1>13, <1>14 DEF Next

\* A count set within its bound keeps the retry counts in their type.
LEMMA FailsType ==
  ASSUME ModeTypeOK, NEW w \in Workers, NEW r, NEW n \in 0 .. MaxRetryCount
  PROVE  [fails EXCEPT ![w][r] = n] \in [Workers -> [Rows -> 0 .. MaxRetryCount]]
<1>1. [fails[w] EXCEPT ![r] = n] \in [Rows -> 0 .. MaxRetryCount]
  BY DEF ModeTypeOK
<1>2. QED
  BY <1>1 DEF ModeTypeOK

\* The bookkeeping of a retry does so.
LEMMA BooksFails ==
  ASSUME ModeTypeOK, NEW w \in Workers, task[w] \in Rows, Books(w)
  PROVE  fails' \in [Workers -> [Rows -> 0 .. MaxRetryCount]]
<1>1. MaxRetryCount \in Nat /\ fails[w][task[w]] \in 0 .. MaxRetryCount
  BY BuildAssumption DEF ModeTypeOK
<1>2. CASE UNCHANGED fails
  BY <1>2 DEF ModeTypeOK
<1>3. CASE fails' = [fails EXCEPT ![w][task[w]] = 0]
  BY <1>1, <1>3, FailsType
<1>4. CASE fails[w][task[w]] < MaxRetryCount /\ fails' = [fails EXCEPT ![w][task[w]] = @ + 1]
  <2>1. fails[w][task[w]] + 1 \in 0 .. MaxRetryCount
    BY <1>1, <1>4
  <2>2. [fails EXCEPT ![w][task[w]] = fails[w][task[w]] + 1]
          \in [Workers -> [Rows -> 0 .. MaxRetryCount]]
    BY <2>1, FailsType
  <2>3. QED
    BY <1>4, <2>2
<1>5. QED
  BY <1>2, <1>3, <1>4 DEF Books

\* A death does so.
LEMMA DiesMode ==
  ASSUME ModeTypeOK, NEW w \in Workers, Dies(w)
  PROVE  ModeTypeOK'
<1>1. [r \in Rows |-> 0] \in [Rows -> 0 .. MaxRetryCount]
  BY BuildAssumption
<1>2. QED
  BY <1>1 DEF ModeTypeOK, Dies

\* No step takes what a worker does as a whole out of its type.
LEMMA ModeTyped ==
  ASSUME IInv, Next
  PROVE  ModeTypeOK'
<1>1. UNCHANGED <<mode, fails, sweep>> => ModeTypeOK'
  BY DEF ModeTypeOK, IInv, TypeOK
<1>2. ModeTypeOK
  BY DEF IInv, TypeOK
<1>3. \A w \in Workers : task[w] \in Rows \/ pc[w] = "idle"
  BY DEF IInv, TypeOK, WorkTypeOK, TaskInv
<1>4. CASE TimePasses
  BY <1>4, <1>1, <1>2 DEF TimePasses, workVars
<1>5. ASSUME NEW r \in Rows, LockExpires(r) PROVE ModeTypeOK'
  BY <1>5, <1>1, <1>2 DEF LockExpires, workVars
<1>6. ASSUME NEW w \in Workers, NEW r \in Rows, ClaimTask(w, r) PROVE ModeTypeOK'
  BY <1>6, <1>1, <1>2 DEF ClaimTask
<1>7. ASSUME NEW w \in Workers, Handler(w) PROVE ModeTypeOK'
  <2>1. CASE IngestLoads(w)
    BY <2>1, <1>1, <1>2 DEF IngestLoads
  <2>2. CASE SaveReads(w)
    BY <2>2, <1>1, <1>2 DEF SaveReads
  <2>3. CASE SaveWrites(w)
    BY <2>3, <1>1, <1>2 DEF SaveWrites
  <2>4. CASE EnqueueRenderChunks(w)
    BY <2>4, <1>1, <1>2 DEF EnqueueRenderChunks
  <2>5. CASE InlineRenders(w)
    BY <2>5, <1>1, <1>2 DEF InlineRenders
  <2>6. CASE ChunkLoads(w)
    BY <2>6, <1>1, <1>2 DEF ChunkLoads
  <2>7. CASE CheckBudget(w)
    BY <2>7, <1>1, <1>2 DEF CheckBudget
  <2>8. CASE RenderChunk(w)
    BY <2>8, <1>1, <1>2 DEF RenderChunk
  <2>9. CASE PoisonKills(w)
    BY <2>9, <1>1, <1>2, DiesMode DEF PoisonKills
  <2>10. CASE RecordFailures(w)
    BY <2>10, <1>1, <1>2 DEF RecordFailures
  <2>11. CASE Reconcile(w)
    BY <2>11, <1>1, <1>2 DEF Reconcile
  <2>12. CASE CompleteBuild(w)
    BY <2>12, <1>1, <1>2 DEF CompleteBuild
  <2>13. CASE FinishTask(w)
    <3>1. 0 \in 0 .. MaxRetryCount
      BY BuildAssumption
    <3>2. fails' \in [Workers -> [Rows -> 0 .. MaxRetryCount]]
      BY <2>13, <1>2, <3>1, FailsType DEF FinishTask
    <3>3. QED
      BY <2>13, <1>2, <3>2 DEF FinishTask, ModeTypeOK
  <2>14. CASE FailTask(w)
    <3>1. fails' \in [Workers -> [Rows -> 0 .. MaxRetryCount]]
      BY <2>14, <1>2, <1>3, BooksFails DEF FailTask, ModeTypeOK
    <3>2. QED
      BY <2>14, <1>2, <3>1 DEF FailTask, ModeTypeOK
  <2>15. CASE GiveUpOnTask(w)
    BY <2>15, <1>1, <1>2 DEF GiveUpOnTask
  <2>16. CASE GiveUpOnBuild(w)
    BY <2>16, <1>1, <1>2 DEF GiveUpOnBuild
  <2>17. CASE FatalDeletes(w)
    BY <2>17, <1>1, <1>2, DiesMode DEF FatalDeletes
  <2>18. QED
    BY <1>7, <2>1, <2>2, <2>3, <2>4, <2>5, <2>6, <2>7, <2>8, <2>9, <2>10, <2>11, <2>12, <2>13,
      <2>14, <2>15, <2>16, <2>17 DEF Handler
<1>8. ASSUME NEW w \in Workers, Fault(w) PROVE ModeTypeOK'
  <2>1. CASE EnqueueReplyLost(w)
    BY <2>1, <1>1, <1>2 DEF EnqueueReplyLost
  <2>2. CASE FinishFails(w)
    BY <2>2, <1>1, <1>2 DEF FinishFails
  <2>3. CASE FailTaskFails(w)
    <3>1. fails' \in [Workers -> [Rows -> 0 .. MaxRetryCount]]
      BY <2>3, <1>2, <1>3, BooksFails DEF FailTaskFails, ModeTypeOK
    <3>2. QED
      BY <2>3, <1>2, <3>1 DEF FailTaskFails, ModeTypeOK
  <2>4. CASE GiveUpFails(w)
    BY <2>4, <1>1, <1>2 DEF GiveUpFails
  <2>5. CASE ChunkWedges(w)
    BY <2>5, <1>1, <1>2, DiesMode DEF ChunkWedges
  <2>6. CASE InlineWedges(w)
    BY <2>6, <1>1, <1>2 DEF InlineWedges
  <2>7. CASE ReclaimErrs(w)
    BY <2>7, <1>1, <1>2 DEF ReclaimErrs, workVars, ModeTypeOK
  <2>8. ASSUME NEW e \in {"transient", "permanent", "timeout"}, IngestErrs(w, e) PROVE ModeTypeOK'
    BY <2>8, <1>1, <1>2 DEF IngestErrs
  <2>9. ASSUME NEW e \in {"transient", "permanent", "timeout"}, ChunkErrs(w, e) PROVE ModeTypeOK'
    BY <2>9, <1>1, <1>2 DEF ChunkErrs
  <2>10. QED
    BY <1>8, <2>1, <2>2, <2>3, <2>4, <2>5, <2>6, <2>7, <2>8, <2>9 DEF Fault
<1>9. ASSUME NEW w \in Workers, Sweep(w) PROVE ModeTypeOK'
  <2>1. CASE SweepSelects(w)
    BY <2>1, <1>1, <1>2 DEF SweepSelects, workVars, ModeTypeOK, Stuck
  <2>2. CASE SweepFails(w)
    BY <2>2, <1>1, <1>2 DEF SweepFails, workVars, ModeTypeOK
  <2>3. CASE SweepDeletes(w)
    BY <2>3, <1>1, <1>2 DEF SweepDeletes, workVars, ModeTypeOK
  <2>4. QED
    BY <1>9, <2>1, <2>2, <2>3 DEF Sweep
<1>10. ASSUME NEW w \in Workers, Shutdown(w) PROVE ModeTypeOK'
  <2>1. CASE ShutdownReleases(w)
    BY <2>1, <1>1, <1>2 DEF ShutdownReleases, workVars, ModeTypeOK
  <2>2. CASE ShutdownResets(w)
    BY <2>2, <1>1, <1>2 DEF ShutdownResets, workVars, ModeTypeOK
  <2>3. CASE ShutdownExits(w)
    BY <2>3, <1>1, <1>2, DiesMode DEF ShutdownExits
  <2>4. QED
    BY <1>10, <2>1, <2>2, <2>3 DEF Shutdown
<1>11. ASSUME NEW w \in Workers, Reclaim(w) PROVE ModeTypeOK'
  <2>1. CASE ReclaimUnlocks(w)
    BY <2>1, <1>1, <1>2 DEF ReclaimUnlocks, workVars, ModeTypeOK
  <2>2. CASE ReclaimRequeues(w)
    BY <2>2, <1>1, <1>2 DEF ReclaimRequeues, workVars, ModeTypeOK
  <2>3. CASE ReclaimFails(w)
    BY <2>3, <1>1, <1>2 DEF ReclaimFails, workVars, ModeTypeOK
  <2>4. CASE ReclaimDeletes(w)
    BY <2>4, <1>1, <1>2 DEF ReclaimDeletes, workVars, ModeTypeOK
  <2>5. QED
    BY <1>11, <2>1, <2>2, <2>3, <2>4 DEF Reclaim
<1>12. ASSUME NEW w \in Workers, HandleShutdownSignal(w) PROVE ModeTypeOK'
  BY <1>12, <1>1, <1>2 DEF HandleShutdownSignal, workVars, ModeTypeOK
<1>13. ASSUME NEW w \in Workers, Crash(w) PROVE ModeTypeOK'
  BY <1>13, <1>1, <1>2, DiesMode DEF Crash
<1>14. ASSUME NEW w \in Workers, Boot(w) PROVE ModeTypeOK'
  BY <1>14, <1>1, <1>2 DEF Boot, workVars, ModeTypeOK
<1>15. QED
  BY <1>4, <1>5, <1>6, <1>7, <1>8, <1>9, <1>10, <1>11, <1>12, <1>13, <1>14 DEF Next

\* No step takes the bounded counters past their bounds.
LEMMA EnvTyped ==
  ASSUME IInv, Next
  PROVE  EnvTypeOK'
<1>1. UNCHANGED envVars => EnvTypeOK'
  BY DEF EnvTypeOK, IInv, TypeOK, envVars
<1>2. SpendsFault => EnvTypeOK'
  BY BuildAssumption DEF EnvTypeOK, IInv, TypeOK, SpendsFault
<1>3. CASE TimePasses
  BY <1>3, <1>1, <1>2 DEF TimePasses
<1>4. ASSUME NEW r \in Rows, LockExpires(r) PROVE EnvTypeOK'
  BY <1>4, <1>1, <1>2 DEF LockExpires
<1>5. ASSUME NEW w \in Workers, NEW r \in Rows, ClaimTask(w, r) PROVE EnvTypeOK'
  BY <1>5, <1>1, <1>2 DEF ClaimTask
<1>6. ASSUME NEW w \in Workers, Handler(w) PROVE EnvTypeOK'
  <2>1. CASE IngestLoads(w)
    BY <2>1, <1>1, <1>2 DEF IngestLoads
  <2>2. CASE SaveReads(w)
    BY <2>2, <1>1, <1>2 DEF SaveReads
  <2>3. CASE SaveWrites(w)
    BY <2>3, <1>1, <1>2 DEF SaveWrites
  <2>4. CASE EnqueueRenderChunks(w)
    BY <2>4, <1>1, <1>2 DEF EnqueueRenderChunks
  <2>5. CASE InlineRenders(w)
    BY <2>5, <1>1, <1>2 DEF InlineRenders
  <2>6. CASE ChunkLoads(w)
    BY <2>6, <1>1, <1>2 DEF ChunkLoads
  <2>7. CASE CheckBudget(w)
    BY <2>7, <1>1, <1>2 DEF CheckBudget
  <2>8. CASE RenderChunk(w)
    BY <2>8, <1>1, <1>2 DEF RenderChunk
  <2>9. CASE PoisonKills(w)
    BY <2>9, <1>1, <1>2 DEF PoisonKills
  <2>10. CASE RecordFailures(w)
    BY <2>10, <1>1, <1>2 DEF RecordFailures
  <2>11. CASE Reconcile(w)
    BY <2>11, <1>1, <1>2 DEF Reconcile
  <2>12. CASE CompleteBuild(w)
    BY <2>12, <1>1, <1>2 DEF CompleteBuild
  <2>13. CASE FinishTask(w)
    BY <2>13, <1>1, <1>2 DEF FinishTask
  <2>14. CASE FailTask(w)
    BY <2>14, <1>1, <1>2 DEF FailTask
  <2>15. CASE GiveUpOnTask(w)
    BY <2>15, <1>1, <1>2 DEF GiveUpOnTask
  <2>16. CASE GiveUpOnBuild(w)
    BY <2>16, <1>1, <1>2 DEF GiveUpOnBuild
  <2>17. CASE FatalDeletes(w)
    BY <2>17, <1>1, <1>2 DEF FatalDeletes
  <2>18. QED
    BY <1>6, <2>1, <2>2, <2>3, <2>4, <2>5, <2>6, <2>7, <2>8, <2>9, <2>10, <2>11, <2>12, <2>13,
      <2>14, <2>15, <2>16, <2>17 DEF Handler
<1>7. ASSUME NEW w \in Workers, Fault(w) PROVE EnvTypeOK'
  <2>1. CASE EnqueueReplyLost(w)
    BY <2>1, <1>1, <1>2 DEF EnqueueReplyLost
  <2>2. CASE FinishFails(w)
    BY <2>2, <1>1, <1>2 DEF FinishFails
  <2>3. CASE FailTaskFails(w)
    BY <2>3, <1>1, <1>2 DEF FailTaskFails
  <2>4. CASE GiveUpFails(w)
    BY <2>4, <1>1, <1>2 DEF GiveUpFails
  <2>5. CASE ChunkWedges(w)
    BY <2>5, <1>1, <1>2 DEF ChunkWedges
  <2>6. CASE InlineWedges(w)
    BY <2>6, <1>1, <1>2 DEF InlineWedges
  <2>7. CASE ReclaimErrs(w)
    BY <2>7, <1>1, <1>2 DEF ReclaimErrs
  <2>8. ASSUME NEW e \in {"transient", "permanent", "timeout"}, IngestErrs(w, e) PROVE EnvTypeOK'
    BY <2>8, <1>1, <1>2 DEF IngestErrs
  <2>9. ASSUME NEW e \in {"transient", "permanent", "timeout"}, ChunkErrs(w, e) PROVE EnvTypeOK'
    BY <2>9, <1>1, <1>2 DEF ChunkErrs
  <2>10. QED
    BY <1>7, <2>1, <2>2, <2>3, <2>4, <2>5, <2>6, <2>7, <2>8, <2>9 DEF Fault
<1>8. ASSUME NEW w \in Workers, Sweep(w) PROVE EnvTypeOK'
  <2>1. CASE SweepSelects(w)
    BY <2>1, <1>1, <1>2 DEF SweepSelects
  <2>2. CASE SweepFails(w)
    BY <2>2, <1>1, <1>2 DEF SweepFails
  <2>3. CASE SweepDeletes(w)
    BY <2>3, <1>1, <1>2 DEF SweepDeletes
  <2>4. QED
    BY <1>8, <2>1, <2>2, <2>3 DEF Sweep
<1>9. ASSUME NEW w \in Workers, Shutdown(w) PROVE EnvTypeOK'
  <2>1. CASE ShutdownReleases(w)
    BY <2>1, <1>1, <1>2 DEF ShutdownReleases
  <2>2. CASE ShutdownResets(w)
    BY <2>2, <1>1, <1>2 DEF ShutdownResets
  <2>3. CASE ShutdownExits(w)
    BY <2>3, <1>1, <1>2 DEF ShutdownExits
  <2>4. QED
    BY <1>9, <2>1, <2>2, <2>3 DEF Shutdown
<1>10. ASSUME NEW w \in Workers, Reclaim(w) PROVE EnvTypeOK'
  <2>1. CASE ReclaimUnlocks(w)
    BY <2>1, <1>1, <1>2 DEF ReclaimUnlocks
  <2>2. CASE ReclaimRequeues(w)
    BY <2>2, <1>1, <1>2 DEF ReclaimRequeues
  <2>3. CASE ReclaimFails(w)
    BY <2>3, <1>1, <1>2 DEF ReclaimFails
  <2>4. CASE ReclaimDeletes(w)
    BY <2>4, <1>1, <1>2 DEF ReclaimDeletes
  <2>5. QED
    BY <1>10, <2>1, <2>2, <2>3, <2>4 DEF Reclaim
<1>11. ASSUME NEW w \in Workers, HandleShutdownSignal(w) PROVE EnvTypeOK'
  BY <1>11, <1>1, <1>2, BuildAssumption DEF HandleShutdownSignal, IInv, TypeOK, EnvTypeOK
<1>12. ASSUME NEW w \in Workers, Crash(w) PROVE EnvTypeOK'
  BY <1>12, <1>1, <1>2, BuildAssumption DEF Crash, IInv, TypeOK, EnvTypeOK
<1>13. ASSUME NEW w \in Workers, Boot(w) PROVE EnvTypeOK'
  BY <1>13, <1>1, <1>2 DEF Boot
<1>14. QED
  BY <1>3, <1>4, <1>5, <1>6, <1>7, <1>8, <1>9, <1>10, <1>11, <1>12, <1>13 DEF Next

\* No step breaks the types.
LEMMA Typed ==
  ASSUME IInv, Next
  PROVE  TypeOK'
BY WorkTyped, BuildTyped, RowTyped, ModeTyped, EnvTyped DEF TypeOK

----------------------------------------------------------------------------
(* Tasks, errors and batches.                                              *)

\* A chunk row is a pair of a batch and a chunk.
LEMMA RowsType ==
  /\ Ingest \in Rows /\ NoRow \notin Rows
  /\ \A r \in Rows \ {Ingest} : r[1] \in 1 .. MaxBatches /\ ChunkOf(r) \in Chunks
<1>1. Rows \subseteq Nat \X Nat
  <2>1. 1 .. MaxBatches \subseteq Nat /\ Chunks \subseteq Nat
    BY BuildAssumption
  <2>2. (1 .. MaxBatches) \X Chunks \subseteq Nat \X Nat
    BY <2>1
  <2>3. QED
    BY <2>2 DEF Rows, Ingest
<1>2. Ingest \in Rows /\ NoRow \notin Rows
  BY <1>1, BuildAssumption DEF Rows
<1>3. QED
  BY <1>2 DEF Rows, ChunkOf

\* Every step leaves the handlers with rows that exist and that suit their steps.
LEMMA TaskHeld ==
  ASSUME IInv, Next
  PROVE  TaskInv'
<1>1. /\ task \in [Workers -> Rows \cup {NoRow}] /\ pc \in [Workers -> Steps]
      /\ row \in [Rows -> {"absent", "free", "locked", "stale", "gone"}]
      /\ batches \in 0 .. MaxBatches
  BY DEF IInv, TypeOK, WorkTypeOK, RowTypeOK
<1>2. Ingest \in Rows /\ NoRow \notin Rows /\ \A r \in Rows \ {Ingest} : r[1] \in 1 .. MaxBatches
  BY RowsType
<1>3. TaskInv
  BY DEF IInv
<1>4. UNCHANGED <<task, pc, row>> => TaskInv'
  BY <1>3 DEF TaskInv
<1>5. CASE TimePasses
  BY <1>5, <1>1, <1>2, <1>3, <1>4 DEF TimePasses, TaskInv, IngestSteps, ChunkSteps, Queued,
    rowVars, workVars
<1>6. ASSUME NEW r \in Rows, LockExpires(r) PROVE TaskInv'
  BY <1>6, <1>1, <1>2, <1>3, <1>4 DEF LockExpires, TaskInv, IngestSteps, ChunkSteps, workVars
<1>7. ASSUME NEW w \in Workers, NEW r \in Rows, ClaimTask(w, r) PROVE TaskInv'
  BY <1>7, <1>1, <1>2, <1>3, <1>4 DEF ClaimTask, TaskInv, IngestSteps, ChunkSteps
<1>8. ASSUME NEW w \in Workers, Handler(w) PROVE TaskInv'
  <2>1. CASE IngestLoads(w)
    BY <2>1, <1>1, <1>2, <1>3, <1>4 DEF IngestLoads, TaskInv, IngestSteps, ChunkSteps, rowVars
  <2>2. CASE SaveReads(w)
    BY <2>2, <1>1, <1>2, <1>3, <1>4 DEF SaveReads, TaskInv, IngestSteps, ChunkSteps, rowVars
  <2>3. CASE SaveWrites(w)
    BY <2>3, <1>1, <1>2, <1>3, <1>4, FollowingSteps DEF SaveWrites, TaskInv, IngestSteps,
      ChunkSteps, Goes, rowVars, Saves
  <2>4. CASE EnqueueRenderChunks(w)
    BY <2>4, <1>1, <1>2, <1>3, <1>4 DEF EnqueueRenderChunks, TaskInv, IngestSteps, ChunkSteps,
      Goes, InsertChunks
  <2>5. CASE InlineRenders(w)
    BY <2>5, <1>1, <1>2, <1>3, <1>4 DEF InlineRenders, TaskInv, IngestSteps, ChunkSteps, Goes,
      rowVars
  <2>6. CASE ChunkLoads(w)
    BY <2>6, <1>1, <1>2, <1>3, <1>4 DEF ChunkLoads, TaskInv, IngestSteps, ChunkSteps, Goes,
      rowVars
  <2>7. CASE CheckBudget(w)
    BY <2>7, <1>1, <1>2, <1>3, <1>4 DEF CheckBudget, TaskInv, IngestSteps, ChunkSteps, Goes,
      Queued, rowVars
  <2>8. CASE RenderChunk(w)
    BY <2>8, <1>1, <1>2, <1>3, <1>4 DEF RenderChunk, TaskInv, IngestSteps, ChunkSteps, Goes,
      rowVars
  <2>9. CASE PoisonKills(w)
    BY <2>9, <1>1, <1>2, <1>3, <1>4 DEF PoisonKills, TaskInv, IngestSteps, ChunkSteps, Done,
      Dies, rowVars
  <2>10. CASE RecordFailures(w)
    BY <2>10, <1>1, <1>2, <1>3, <1>4 DEF RecordFailures, TaskInv, IngestSteps, ChunkSteps,
      Goes, rowVars
  <2>11. CASE Reconcile(w)
    BY <2>11, <1>1, <1>2, <1>3, <1>4 DEF Reconcile, TaskInv, IngestSteps, ChunkSteps, Goes,
      Done, Continues, rowVars
  <2>12. CASE CompleteBuild(w)
    BY <2>12, <1>1, <1>2, <1>3, <1>4 DEF CompleteBuild, TaskInv, IngestSteps, ChunkSteps, Goes,
      Done, Continues, rowVars
  <2>13. CASE FinishTask(w)
    BY <2>13, <1>1, <1>2, <1>3, <1>4 DEF FinishTask, TaskInv, IngestSteps, ChunkSteps, Done,
      Queued, DeleteTask
  <2>14. CASE FailTask(w)
    BY <2>14, <1>1, <1>2, <1>3, <1>4 DEF FailTask, TaskInv, IngestSteps, ChunkSteps, Goes,
      Done, Queued, ReleaseLock, DeleteTask, Books
  <2>15. CASE GiveUpOnTask(w)
    BY <2>15, <1>1, <1>2, <1>3, <1>4 DEF GiveUpOnTask, TaskInv, IngestSteps, ChunkSteps, Goes,
      Done, Queued, DeleteTask
  <2>16. CASE GiveUpOnBuild(w)
    BY <2>16, <1>1, <1>2, <1>3, <1>4 DEF GiveUpOnBuild, TaskInv, IngestSteps, ChunkSteps, Done,
      rowVars
  <2>17. CASE FatalDeletes(w)
    BY <2>17, <1>1, <1>2, <1>3, <1>4 DEF FatalDeletes, TaskInv, IngestSteps, ChunkSteps, Done,
      Queued, DeleteTask, Dies
  <2>18. QED
    BY <1>8, <2>1, <2>2, <2>3, <2>4, <2>5, <2>6, <2>7, <2>8, <2>9, <2>10, <2>11, <2>12, <2>13,
      <2>14, <2>15, <2>16, <2>17 DEF Handler
<1>9. ASSUME NEW w \in Workers, Fault(w) PROVE TaskInv'
  <2>1. CASE EnqueueReplyLost(w)
    BY <2>1, <1>1, <1>2, <1>3, <1>4 DEF EnqueueReplyLost, TaskInv, IngestSteps, ChunkSteps,
      Goes, InsertChunks
  <2>2. CASE FinishFails(w)
    BY <2>2, <1>1, <1>2, <1>3, <1>4 DEF FinishFails, TaskInv, IngestSteps, ChunkSteps, Goes,
      rowVars
  <2>3. CASE FailTaskFails(w)
    BY <2>3, <1>1, <1>2, <1>3, <1>4 DEF FailTaskFails, TaskInv, IngestSteps, ChunkSteps, Goes,
      Done, Books, rowVars
  <2>4. CASE GiveUpFails(w)
    BY <2>4, <1>1, <1>2, <1>3, <1>4 DEF GiveUpFails, TaskInv, IngestSteps, ChunkSteps, Done,
      rowVars
  <2>5. CASE ChunkWedges(w)
    BY <2>5, <1>1, <1>2, <1>3, <1>4 DEF ChunkWedges, TaskInv, IngestSteps, ChunkSteps, Done,
      Queued, ReleaseLock, Dies
  <2>6. CASE InlineWedges(w)
    BY <2>6, <1>1, <1>2, <1>3, <1>4 DEF InlineWedges, TaskInv, IngestSteps, ChunkSteps, Goes,
      rowVars
  <2>7. CASE ReclaimErrs(w)
    BY <2>7, <1>1, <1>2, <1>3, <1>4 DEF ReclaimErrs, TaskInv, IngestSteps, ChunkSteps, rowVars,
      workVars
  <2>8. ASSUME NEW e \in {"transient", "permanent", "timeout"}, IngestErrs(w, e) PROVE TaskInv'
    BY <2>8, <1>1, <1>2, <1>3, <1>4 DEF IngestErrs, TaskInv, IngestSteps, ChunkSteps, Goes,
      rowVars
  <2>9. ASSUME NEW e \in {"transient", "permanent", "timeout"}, ChunkErrs(w, e) PROVE TaskInv'
    BY <2>9, <1>1, <1>2, <1>3, <1>4 DEF ChunkErrs, TaskInv, IngestSteps, ChunkSteps, Goes,
      Done, rowVars
  <2>10. QED
    BY <1>9, <2>1, <2>2, <2>3, <2>4, <2>5, <2>6, <2>7, <2>8, <2>9 DEF Fault
<1>10. ASSUME NEW w \in Workers, Sweep(w) PROVE TaskInv'
  <2>1. CASE SweepSelects(w)
    BY <2>1, <1>1, <1>2, <1>3, <1>4 DEF SweepSelects, TaskInv, IngestSteps, ChunkSteps,
      rowVars, workVars
  <2>2. CASE SweepFails(w)
    BY <2>2, <1>1, <1>2, <1>3, <1>4 DEF SweepFails, TaskInv, IngestSteps, ChunkSteps, rowVars,
      workVars
  <2>3. CASE SweepDeletes(w)
    BY <2>3, <1>1, <1>2, <1>3, <1>4 DEF SweepDeletes, TaskInv, IngestSteps, ChunkSteps, Queued,
      workVars
  <2>4. QED
    BY <1>10, <2>1, <2>2, <2>3 DEF Sweep
<1>11. ASSUME NEW w \in Workers, Shutdown(w) PROVE TaskInv'
  <2>1. CASE ShutdownReleases(w)
    BY <2>1, <1>1, <1>2, <1>3, <1>4 DEF ShutdownReleases, TaskInv, IngestSteps, ChunkSteps,
      Queued, ReleaseLock, rowVars, workVars
  <2>2. CASE ShutdownResets(w)
    BY <2>2, <1>1, <1>2, <1>3, <1>4 DEF ShutdownResets, TaskInv, IngestSteps, ChunkSteps,
      rowVars, workVars
  <2>3. CASE ShutdownExits(w)
    BY <2>3, <1>1, <1>2, <1>3, <1>4 DEF ShutdownExits, TaskInv, IngestSteps, ChunkSteps, Done,
      Dies, rowVars
  <2>4. QED
    BY <1>11, <2>1, <2>2, <2>3 DEF Shutdown
<1>12. ASSUME NEW w \in Workers, Reclaim(w) PROVE TaskInv'
  <2>1. CASE ReclaimUnlocks(w)
    BY <2>1, <1>1, <1>2, <1>3, <1>4 DEF ReclaimUnlocks, TaskInv, IngestSteps, ChunkSteps,
      Queued, ReleaseLock, workVars
  <2>2. CASE ReclaimRequeues(w)
    BY <2>2, <1>1, <1>2, <1>3, <1>4 DEF ReclaimRequeues, TaskInv, IngestSteps, ChunkSteps,
      rowVars, workVars
  <2>3. CASE ReclaimFails(w)
    BY <2>3, <1>1, <1>2, <1>3, <1>4 DEF ReclaimFails, TaskInv, IngestSteps, ChunkSteps, Queued,
      rowVars, workVars
  <2>4. CASE ReclaimDeletes(w)
    BY <2>4, <1>1, <1>2, <1>3, <1>4 DEF ReclaimDeletes, TaskInv, IngestSteps, ChunkSteps,
      Queued, DeleteTask, workVars
  <2>5. QED
    BY <1>12, <2>1, <2>2, <2>3, <2>4 DEF Reclaim
<1>13. ASSUME NEW w \in Workers, HandleShutdownSignal(w) PROVE TaskInv'
  BY <1>13, <1>1, <1>2, <1>3, <1>4 DEF HandleShutdownSignal, TaskInv, IngestSteps, ChunkSteps,
    rowVars, workVars
<1>14. ASSUME NEW w \in Workers, Crash(w) PROVE TaskInv'
  BY <1>14, <1>1, <1>2, <1>3, <1>4 DEF Crash, TaskInv, IngestSteps, ChunkSteps, Done, Dies,
    rowVars
<1>15. ASSUME NEW w \in Workers, Boot(w) PROVE TaskInv'
  BY <1>15, <1>1, <1>2, <1>3, <1>4 DEF Boot, TaskInv, IngestSteps, ChunkSteps, rowVars,
    workVars
<1>16. QED
  BY <1>5, <1>6, <1>7, <1>8, <1>9, <1>10, <1>11, <1>12, <1>13, <1>14, <1>15 DEF Next

\* Every step leaves the handlers with errors that suit their steps.
LEMMA ErrorsFit ==
  ASSUME IInv, Next
  PROVE  ErrInv'
<1>1. pc \in [Workers -> Steps] /\ err \in [Workers -> Errors]
  BY DEF IInv, TypeOK, WorkTypeOK
<1>2. ErrInv
  BY DEF IInv
<1>3. CASE TimePasses
  BY <1>3, <1>1, <1>2 DEF TimePasses, ErrInv, workVars
<1>4. ASSUME NEW r \in Rows, LockExpires(r) PROVE ErrInv'
  BY <1>4, <1>1, <1>2 DEF LockExpires, ErrInv, workVars
<1>5. ASSUME NEW w \in Workers, NEW r \in Rows, ClaimTask(w, r) PROVE ErrInv'
  BY <1>5, <1>1, <1>2 DEF ClaimTask, ErrInv, IInv, TaskInv
<1>6. ASSUME NEW w \in Workers, Handler(w) PROVE ErrInv'
  <2>1. CASE IngestLoads(w)
    BY <2>1, <1>1, <1>2 DEF IngestLoads, ErrInv
  <2>2. CASE SaveReads(w)
    BY <2>2, <1>1, <1>2 DEF SaveReads, ErrInv
  <2>3. CASE SaveWrites(w)
    BY <2>3, <1>1, <1>2, FollowingSteps DEF SaveWrites, ErrInv, Goes, Saves
  <2>4. CASE EnqueueRenderChunks(w)
    BY <2>4, <1>1, <1>2 DEF EnqueueRenderChunks, ErrInv, Goes
  <2>5. CASE InlineRenders(w)
    BY <2>5, <1>1, <1>2 DEF InlineRenders, ErrInv, Goes
  <2>6. CASE ChunkLoads(w)
    BY <2>6, <1>1, <1>2 DEF ChunkLoads, ErrInv, Goes
  <2>7. CASE CheckBudget(w)
    BY <2>7, <1>1, <1>2 DEF CheckBudget, ErrInv, Goes
  <2>8. CASE RenderChunk(w)
    BY <2>8, <1>1, <1>2 DEF RenderChunk, ErrInv, Goes
  <2>9. CASE PoisonKills(w)
    BY <2>9, <1>1, <1>2 DEF PoisonKills, ErrInv, Done, Dies
  <2>10. CASE RecordFailures(w)
    BY <2>10, <1>1, <1>2 DEF RecordFailures, ErrInv, Goes
  <2>11. CASE Reconcile(w)
    BY <2>11, <1>1, <1>2 DEF Reconcile, ErrInv, Goes, Done, Continues
  <2>12. CASE CompleteBuild(w)
    BY <2>12, <1>1, <1>2 DEF CompleteBuild, ErrInv, Goes, Done, Continues
  <2>13. CASE FinishTask(w)
    BY <2>13, <1>1, <1>2 DEF FinishTask, ErrInv, Done
  <2>14. CASE FailTask(w)
    BY <2>14, <1>1, <1>2 DEF FailTask, ErrInv, Goes, Done, Books
  <2>15. CASE GiveUpOnTask(w)
    BY <2>15, <1>1, <1>2 DEF GiveUpOnTask, ErrInv, Goes, Done
  <2>16. CASE GiveUpOnBuild(w)
    BY <2>16, <1>1, <1>2 DEF GiveUpOnBuild, ErrInv, Done
  <2>17. CASE FatalDeletes(w)
    BY <2>17, <1>1, <1>2 DEF FatalDeletes, ErrInv, Done, Dies
  <2>18. QED
    BY <1>6, <2>1, <2>2, <2>3, <2>4, <2>5, <2>6, <2>7, <2>8, <2>9, <2>10, <2>11, <2>12, <2>13,
      <2>14, <2>15, <2>16, <2>17 DEF Handler
<1>7. ASSUME NEW w \in Workers, Fault(w) PROVE ErrInv'
  <2>1. CASE EnqueueReplyLost(w)
    BY <2>1, <1>1, <1>2 DEF EnqueueReplyLost, ErrInv, Goes
  <2>2. CASE FinishFails(w)
    BY <2>2, <1>1, <1>2 DEF FinishFails, ErrInv, Goes
  <2>3. CASE FailTaskFails(w)
    BY <2>3, <1>1, <1>2 DEF FailTaskFails, ErrInv, Goes, Done, Books
  <2>4. CASE GiveUpFails(w)
    BY <2>4, <1>1, <1>2 DEF GiveUpFails, ErrInv, Done
  <2>5. CASE ChunkWedges(w)
    BY <2>5, <1>1, <1>2 DEF ChunkWedges, ErrInv, Done, Dies
  <2>6. CASE InlineWedges(w)
    BY <2>6, <1>1, <1>2 DEF InlineWedges, ErrInv, Goes
  <2>7. CASE ReclaimErrs(w)
    BY <2>7, <1>1, <1>2 DEF ReclaimErrs, ErrInv, workVars
  <2>8. ASSUME NEW e \in {"transient", "permanent", "timeout"}, IngestErrs(w, e) PROVE ErrInv'
    BY <2>8, <1>1, <1>2 DEF IngestErrs, ErrInv, Goes
  <2>9. ASSUME NEW e \in {"transient", "permanent", "timeout"}, ChunkErrs(w, e) PROVE ErrInv'
    BY <2>9, <1>1, <1>2 DEF ChunkErrs, ErrInv, Goes, Done
  <2>10. QED
    BY <1>7, <2>1, <2>2, <2>3, <2>4, <2>5, <2>6, <2>7, <2>8, <2>9 DEF Fault
<1>8. ASSUME NEW w \in Workers, Sweep(w) PROVE ErrInv'
  <2>1. CASE SweepSelects(w)
    BY <2>1, <1>1, <1>2 DEF SweepSelects, ErrInv, workVars
  <2>2. CASE SweepFails(w)
    BY <2>2, <1>1, <1>2 DEF SweepFails, ErrInv, workVars
  <2>3. CASE SweepDeletes(w)
    BY <2>3, <1>1, <1>2 DEF SweepDeletes, ErrInv, workVars
  <2>4. QED
    BY <1>8, <2>1, <2>2, <2>3 DEF Sweep
<1>9. ASSUME NEW w \in Workers, Shutdown(w) PROVE ErrInv'
  <2>1. CASE ShutdownReleases(w)
    BY <2>1, <1>1, <1>2 DEF ShutdownReleases, ErrInv, workVars
  <2>2. CASE ShutdownResets(w)
    BY <2>2, <1>1, <1>2 DEF ShutdownResets, ErrInv, workVars
  <2>3. CASE ShutdownExits(w)
    BY <2>3, <1>1, <1>2 DEF ShutdownExits, ErrInv, Done, Dies
  <2>4. QED
    BY <1>9, <2>1, <2>2, <2>3 DEF Shutdown
<1>10. ASSUME NEW w \in Workers, Reclaim(w) PROVE ErrInv'
  <2>1. CASE ReclaimUnlocks(w)
    BY <2>1, <1>1, <1>2 DEF ReclaimUnlocks, ErrInv, workVars
  <2>2. CASE ReclaimRequeues(w)
    BY <2>2, <1>1, <1>2 DEF ReclaimRequeues, ErrInv, workVars
  <2>3. CASE ReclaimFails(w)
    BY <2>3, <1>1, <1>2 DEF ReclaimFails, ErrInv, workVars
  <2>4. CASE ReclaimDeletes(w)
    BY <2>4, <1>1, <1>2 DEF ReclaimDeletes, ErrInv, workVars
  <2>5. QED
    BY <1>10, <2>1, <2>2, <2>3, <2>4 DEF Reclaim
<1>11. ASSUME NEW w \in Workers, HandleShutdownSignal(w) PROVE ErrInv'
  BY <1>11, <1>1, <1>2 DEF HandleShutdownSignal, ErrInv, workVars
<1>12. ASSUME NEW w \in Workers, Crash(w) PROVE ErrInv'
  BY <1>12, <1>1, <1>2 DEF Crash, ErrInv, Done, Dies
<1>13. ASSUME NEW w \in Workers, Boot(w) PROVE ErrInv'
  BY <1>13, <1>1, <1>2 DEF Boot, ErrInv, workVars
<1>14. QED
  BY <1>3, <1>4, <1>5, <1>6, <1>7, <1>8, <1>9, <1>10, <1>11, <1>12, <1>13 DEF Next

\* Rows come into being batch by batch and never stop having been.
LEMMA BatchesFit ==
  ASSUME IInv, Next
  PROVE  BatchInv'
<1>1. /\ task \in [Workers -> Rows \cup {NoRow}] /\ pc \in [Workers -> Steps]
      /\ row \in [Rows -> {"absent", "free", "locked", "stale", "gone"}]
      /\ batches \in 0 .. MaxBatches
  BY DEF IInv, TypeOK, WorkTypeOK, RowTypeOK
<1>2. Ingest \in Rows /\ NoRow \notin Rows /\ \A r \in Rows \ {Ingest} : r[1] \in 1 .. MaxBatches
  BY RowsType
<1>3. BatchInv
  BY DEF IInv
<1>4. MaxBatches \in Nat /\ starts \in [Rows -> Nat] /\ TaskInv
  BY BuildAssumption DEF IInv, TypeOK, RowTypeOK
<1>5. CASE TimePasses
  BY <1>5, <1>1, <1>2, <1>3 DEF TimePasses, BatchInv, Queued, rowVars, countVars
<1>6. ASSUME NEW r \in Rows, LockExpires(r) PROVE BatchInv'
  BY <1>6, <1>1, <1>2, <1>3 DEF LockExpires, BatchInv, countVars
<1>7. ASSUME NEW w \in Workers, NEW r \in Rows, ClaimTask(w, r) PROVE BatchInv'
  BY <1>7, <1>1, <1>2, <1>3 DEF ClaimTask, BatchInv, countVars
<1>8. ASSUME NEW w \in Workers, Handler(w) PROVE BatchInv'
  <2>1. CASE IngestLoads(w)
    BY <2>1, <1>1, <1>2, <1>3 DEF IngestLoads, BatchInv, rowVars, countVars
  <2>2. CASE SaveReads(w)
    BY <2>2, <1>1, <1>2, <1>3 DEF SaveReads, BatchInv, rowVars, countVars
  <2>3. CASE SaveWrites(w)
    BY <2>3, <1>1, <1>2, <1>3 DEF SaveWrites, BatchInv, rowVars, countVars
  <2>4. CASE EnqueueRenderChunks(w)
    <3>1. /\ batches' = batches + 1 /\ batches < MaxBatches /\ starts' = starts
          /\ \A r \in Rows : row'[r] = IF r # Ingest /\ r[1] = batches' THEN "free" ELSE row[r]
      BY <2>4 DEF EnqueueRenderChunks, InsertChunks
    <3>2. row'[Ingest] # "absent"
      BY <1>2, <1>3, <3>1 DEF BatchInv
    <3>3. \A r \in Rows \ {Ingest} : row'[r] = "absent" <=> r[1] > batches'
      BY <1>1, <1>2, <1>3, <1>4, <3>1 DEF BatchInv
    <3>4. \A r \in Rows : row'[r] = "absent" => starts'[r] = 0
      BY <1>3, <3>1 DEF BatchInv
    <3>5. QED
      BY <3>2, <3>3, <3>4 DEF BatchInv
  <2>5. CASE InlineRenders(w)
    BY <2>5, <1>1, <1>2, <1>3 DEF InlineRenders, BatchInv, rowVars, countVars
  <2>6. CASE ChunkLoads(w)
    BY <2>6, <1>1, <1>2, <1>3 DEF ChunkLoads, BatchInv, rowVars, countVars
  <2>7. CASE CheckBudget(w)
    <3>1. task[w] \in Rows => row[task[w]] # "absent"
      BY <1>4 DEF TaskInv
    <3>2. QED
      BY <2>7, <1>1, <1>3, <1>4, <3>1 DEF CheckBudget, BatchInv, rowVars
  <2>8. CASE RenderChunk(w)
    BY <2>8, <1>1, <1>2, <1>3 DEF RenderChunk, BatchInv, rowVars, countVars
  <2>9. CASE PoisonKills(w)
    BY <2>9, <1>1, <1>2, <1>3 DEF PoisonKills, BatchInv, Dies, rowVars, countVars
  <2>10. CASE RecordFailures(w)
    BY <2>10, <1>1, <1>2, <1>3 DEF RecordFailures, BatchInv, rowVars, countVars
  <2>11. CASE Reconcile(w)
    BY <2>11, <1>1, <1>2, <1>3 DEF Reconcile, BatchInv, rowVars, countVars
  <2>12. CASE CompleteBuild(w)
    BY <2>12, <1>1, <1>2, <1>3 DEF CompleteBuild, BatchInv, rowVars
  <2>13. CASE FinishTask(w)
    BY <2>13, <1>1, <1>2, <1>3 DEF FinishTask, BatchInv, Queued, DeleteTask, countVars
  <2>14. CASE FailTask(w)
    BY <2>14, <1>1, <1>2, <1>3 DEF FailTask, BatchInv, Queued, ReleaseLock, DeleteTask,
      countVars
  <2>15. CASE GiveUpOnTask(w)
    BY <2>15, <1>1, <1>2, <1>3 DEF GiveUpOnTask, BatchInv, Queued, DeleteTask, countVars
  <2>16. CASE GiveUpOnBuild(w)
    BY <2>16, <1>1, <1>2, <1>3 DEF GiveUpOnBuild, BatchInv, rowVars, countVars
  <2>17. CASE FatalDeletes(w)
    BY <2>17, <1>1, <1>2, <1>3 DEF FatalDeletes, BatchInv, Queued, DeleteTask, Dies, countVars
  <2>18. QED
    BY <1>8, <2>1, <2>2, <2>3, <2>4, <2>5, <2>6, <2>7, <2>8, <2>9, <2>10, <2>11, <2>12, <2>13,
      <2>14, <2>15, <2>16, <2>17 DEF Handler
<1>9. ASSUME NEW w \in Workers, Fault(w) PROVE BatchInv'
  <2>1. CASE EnqueueReplyLost(w)
    <3>1. /\ batches' = batches + 1 /\ batches < MaxBatches /\ starts' = starts
          /\ \A r \in Rows : row'[r] = IF r # Ingest /\ r[1] = batches' THEN "free" ELSE row[r]
      BY <2>1 DEF EnqueueReplyLost, InsertChunks
    <3>2. row'[Ingest] # "absent"
      BY <1>2, <1>3, <3>1 DEF BatchInv
    <3>3. \A r \in Rows \ {Ingest} : row'[r] = "absent" <=> r[1] > batches'
      BY <1>1, <1>2, <1>3, <1>4, <3>1 DEF BatchInv
    <3>4. \A r \in Rows : row'[r] = "absent" => starts'[r] = 0
      BY <1>3, <3>1 DEF BatchInv
    <3>5. QED
      BY <3>2, <3>3, <3>4 DEF BatchInv
  <2>2. CASE FinishFails(w)
    BY <2>2, <1>1, <1>2, <1>3 DEF FinishFails, BatchInv, rowVars, countVars
  <2>3. CASE FailTaskFails(w)
    BY <2>3, <1>1, <1>2, <1>3 DEF FailTaskFails, BatchInv, rowVars, countVars
  <2>4. CASE GiveUpFails(w)
    BY <2>4, <1>1, <1>2, <1>3 DEF GiveUpFails, BatchInv, rowVars, countVars
  <2>5. CASE ChunkWedges(w)
    BY <2>5, <1>1, <1>2, <1>3 DEF ChunkWedges, BatchInv, Queued, ReleaseLock, Dies, countVars
  <2>6. CASE InlineWedges(w)
    BY <2>6, <1>1, <1>2, <1>3 DEF InlineWedges, BatchInv, rowVars, countVars
  <2>7. CASE ReclaimErrs(w)
    BY <2>7, <1>1, <1>2, <1>3 DEF ReclaimErrs, BatchInv, rowVars, countVars
  <2>8. ASSUME NEW e \in {"transient", "permanent", "timeout"}, IngestErrs(w, e) PROVE BatchInv'
    BY <2>8, <1>1, <1>2, <1>3 DEF IngestErrs, BatchInv, rowVars, countVars
  <2>9. ASSUME NEW e \in {"transient", "permanent", "timeout"}, ChunkErrs(w, e) PROVE BatchInv'
    BY <2>9, <1>1, <1>2, <1>3 DEF ChunkErrs, BatchInv, rowVars, countVars
  <2>10. QED
    BY <1>9, <2>1, <2>2, <2>3, <2>4, <2>5, <2>6, <2>7, <2>8, <2>9 DEF Fault
<1>10. ASSUME NEW w \in Workers, Sweep(w) PROVE BatchInv'
  <2>1. CASE SweepSelects(w)
    BY <2>1, <1>1, <1>2, <1>3 DEF SweepSelects, BatchInv, rowVars, countVars
  <2>2. CASE SweepFails(w)
    BY <2>2, <1>1, <1>2, <1>3 DEF SweepFails, BatchInv, rowVars, countVars
  <2>3. CASE SweepDeletes(w)
    BY <2>3, <1>1, <1>2, <1>3 DEF SweepDeletes, BatchInv, Queued, countVars
  <2>4. QED
    BY <1>10, <2>1, <2>2, <2>3 DEF Sweep
<1>11. ASSUME NEW w \in Workers, Shutdown(w) PROVE BatchInv'
  <2>1. CASE ShutdownReleases(w)
    BY <2>1, <1>1, <1>2, <1>3 DEF ShutdownReleases, BatchInv, Queued, ReleaseLock, rowVars,
      countVars
  <2>2. CASE ShutdownResets(w)
    BY <2>2, <1>1, <1>2, <1>3 DEF ShutdownResets, BatchInv, rowVars, countVars
  <2>3. CASE ShutdownExits(w)
    BY <2>3, <1>1, <1>2, <1>3 DEF ShutdownExits, BatchInv, Dies, rowVars, countVars
  <2>4. QED
    BY <1>11, <2>1, <2>2, <2>3 DEF Shutdown
<1>12. ASSUME NEW w \in Workers, Reclaim(w) PROVE BatchInv'
  <2>1. CASE ReclaimUnlocks(w)
    BY <2>1, <1>1, <1>2, <1>3 DEF ReclaimUnlocks, BatchInv, Queued, ReleaseLock, countVars
  <2>2. CASE ReclaimRequeues(w)
    BY <2>2, <1>1, <1>2, <1>3 DEF ReclaimRequeues, BatchInv, rowVars, countVars
  <2>3. CASE ReclaimFails(w)
    BY <2>3, <1>1, <1>2, <1>3 DEF ReclaimFails, BatchInv, Queued, rowVars, countVars
  <2>4. CASE ReclaimDeletes(w)
    BY <2>4, <1>1, <1>2, <1>3 DEF ReclaimDeletes, BatchInv, Queued, DeleteTask, countVars
  <2>5. QED
    BY <1>12, <2>1, <2>2, <2>3, <2>4 DEF Reclaim
<1>13. ASSUME NEW w \in Workers, HandleShutdownSignal(w) PROVE BatchInv'
  BY <1>13, <1>1, <1>2, <1>3 DEF HandleShutdownSignal, BatchInv, rowVars, countVars
<1>14. ASSUME NEW w \in Workers, Crash(w) PROVE BatchInv'
  BY <1>14, <1>1, <1>2, <1>3 DEF Crash, BatchInv, Dies, rowVars, countVars
<1>15. ASSUME NEW w \in Workers, Boot(w) PROVE BatchInv'
  BY <1>15, <1>1, <1>2, <1>3 DEF Boot, BatchInv, rowVars, countVars
<1>16. QED
  BY <1>5, <1>6, <1>7, <1>8, <1>9, <1>10, <1>11, <1>12, <1>13, <1>14, <1>15 DEF Next

----------------------------------------------------------------------------
(* Results.                                                                *)

\* What a handler says of the build: its copy of the row, and the step it is at.
Claims(v) == mem[v].status = "ready" \/ pc[v] = "complete"

\* A handler that goes on claims nothing new, unless it is about to complete.
\* A handler that goes on claims nothing new, unless it is about to complete.
LEMMA GoesClaims ==
  ASSUME WorkTypeOK, NEW w \in Workers, NEW s, NEW e, Goes(w, s, e), s # "complete"
  PROVE  \A v \in Workers : Claims(v)' => Claims(v)
<1>1. /\ pc' = [pc EXCEPT ![w] = s]
      /\ mem' = IF s \in {"finish", "error", "giveup"} THEN [mem EXCEPT ![w] = NoCopy] ELSE mem
  BY DEF Goes
<1>2. NoCopy.status = "pending"
  BY DEF NoCopy
<1>3. QED
  BY <1>1, <1>2 DEF Claims, WorkTypeOK

\* A handler that ends claims nothing.
LEMMA DoneClaims ==
  ASSUME WorkTypeOK, NEW w \in Workers, Done(w)
  PROVE  \A v \in Workers : Claims(v)' => Claims(v)
<1>1. NoCopy.status = "pending"
  BY DEF NoCopy
<1>2. QED
  BY <1>1 DEF Claims, Done, WorkTypeOK

\* So does one that continues, books a retry or dies.
LEMMA EndClaims ==
  ASSUME WorkTypeOK, NEW w \in Workers, Continues(w) \/ Books(w) \/ Dies(w)
  PROVE  \A v \in Workers : Claims(v)' => Claims(v)
BY GoesClaims, DoneClaims DEF Continues, Books, Dies

\* Every step leaves whoever calls the build ready with all its results.
LEMMA ResultsHeld ==
  ASSUME IInv, Next
  PROVE  ResultsInv'
<1>1. ResultsInv /\ WorkTypeOK /\ build \in Copies /\ results \in SUBSET Chunks
  BY DEF IInv, TypeOK, BuildTypeOK
<1>2. ASSUME results = Chunks => results' = Chunks, build'.status = "ready" => results' = Chunks,
             \A v \in Workers : Claims(v)' => Claims(v)
      PROVE  ResultsInv'
  BY <1>1, <1>2 DEF ResultsInv, FinishedIsComplete, Claims
<1>3. build.status = "ready" => results = Chunks
  BY <1>1 DEF ResultsInv, FinishedIsComplete
<1>4. UNCHANGED workVars => \A v \in Workers : Claims(v)' => Claims(v)
  BY DEF workVars, Claims
<1>5. CASE TimePasses
  BY <1>5, <1>1, <1>2, <1>3, <1>4 DEF TimePasses
<1>6. ASSUME NEW r \in Rows, LockExpires(r) PROVE ResultsInv'
  BY <1>6, <1>1, <1>2, <1>3, <1>4 DEF LockExpires, buildVars
<1>7. ASSUME NEW w \in Workers, NEW r \in Rows, ClaimTask(w, r) PROVE ResultsInv'
  <3>1. \A v \in Workers : Claims(v)' => Claims(v)
    BY <1>7, <1>1 DEF ClaimTask, Claims, WorkTypeOK
  <3>2. QED
    BY <1>7, <1>2, <1>3, <3>1 DEF ClaimTask, buildVars
<1>8. ASSUME NEW w \in Workers, Handler(w) PROVE ResultsInv'
  <2>1. CASE IngestLoads(w)
    <3>1. mem' = [mem EXCEPT ![w] = build] /\ pc' = [pc EXCEPT ![w] = "mark"]
          /\ UNCHANGED <<build, results>>
      BY <2>1 DEF IngestLoads, buildVars
    <3>2. QED
      BY <1>1, <3>1 DEF ResultsInv, FinishedIsComplete, WorkTypeOK
  <2>2. CASE SaveReads(w)
    <3>1. mem' = [mem EXCEPT ![w] = Edited(w)] /\ UNCHANGED <<pc, build, results>>
      BY <2>2 DEF SaveReads, buildVars
    <3>2. Edited(w).status = "ready" => Claims(w)
      BY <2>2, <1>1, EditedType DEF SaveReads, Claims, Saves
    <3>3. QED
      BY <1>1, <3>1, <3>2 DEF ResultsInv, FinishedIsComplete, Claims, WorkTypeOK
  <2>3. CASE SaveWrites(w)
    <3>1. build'.status = IF "status" \in saving[w] THEN mem[w].status ELSE build.status
      BY <2>3, <1>1 DEF SaveWrites, Copies, Columns, WorkTypeOK
    <3>2. build'.status = "ready" => results = Chunks
      BY <1>1, <3>1 DEF ResultsInv, FinishedIsComplete
    <3>3. Following(pc[w]) # "complete"
      BY <2>3, FollowingSteps DEF SaveWrites, Saves
    <3>4. QED
      BY <2>3, <1>1, <1>2, <3>2, <3>3, GoesClaims DEF SaveWrites
  <2>4. CASE EnqueueRenderChunks(w)
    BY <2>4, <1>1, <1>2, <1>3, <1>4, GoesClaims DEF EnqueueRenderChunks, buildVars
  <2>5. CASE InlineRenders(w)
    <3>1. /\ pc' = [pc EXCEPT ![w] = "complete"] /\ mem' = mem
          /\ results' = Chunks /\ build' = build
      BY <2>5 DEF InlineRenders, Goes, buildVars
    <3>2. QED
      BY <1>1, <3>1 DEF ResultsInv, FinishedIsComplete, WorkTypeOK
  <2>6. CASE ChunkLoads(w)
    BY <2>6, <1>1, <1>2, <1>3, <1>4, GoesClaims DEF ChunkLoads, buildVars
  <2>7. CASE CheckBudget(w)
    BY <2>7, <1>1, <1>2, <1>3, <1>4, GoesClaims DEF CheckBudget, buildVars
  <2>8. CASE RenderChunk(w)
    <3>1. ChunkOf(task[w]) \in Chunks
      BY <2>8, RowsType DEF RenderChunk, IInv, TaskInv, ChunkSteps
    <3>2. results = Chunks => results' = Chunks
      BY <2>8, <3>1 DEF RenderChunk
    <3>3. QED
      BY <2>8, <1>1, <1>2, <1>3, <3>2, GoesClaims DEF RenderChunk, buildVars
  <2>9. CASE PoisonKills(w)
    BY <2>9, <1>1, <1>2, <1>3, <1>4, EndClaims DEF PoisonKills, buildVars, Dies
  <2>10. CASE RecordFailures(w)
    <3>1. ChunkOf(task[w]) \in Chunks
      BY <2>10, RowsType DEF RecordFailures, IInv, TaskInv, ChunkSteps
    <3>2. results = Chunks => results' = Chunks
      BY <2>10, <3>1 DEF RecordFailures
    <3>3. QED
      BY <2>10, <1>1, <1>2, <1>3, <3>2, GoesClaims DEF RecordFailures, buildVars
  <2>11. CASE Reconcile(w)
    <3>1. build'.status = "ready" => results = Chunks
      BY <2>11, <1>1, <1>3 DEF Reconcile, Becomes, buildVars, Copies, Complete
    <3>2. QED
      BY <2>11, <1>1, <1>2, <1>4, <3>1, GoesClaims, DoneClaims, EndClaims DEF Reconcile
  <2>12. CASE CompleteBuild(w)
    BY <2>12, <1>1, <1>2, <1>3, <1>4, EndClaims DEF CompleteBuild, buildVars
  <2>13. CASE FinishTask(w)
    BY <2>13, <1>1, <1>2, <1>3, <1>4, DoneClaims DEF FinishTask, buildVars
  <2>14. CASE FailTask(w)
    BY <2>14, <1>1, <1>2, <1>3, <1>4, DoneClaims, EndClaims DEF FailTask, buildVars
  <2>15. CASE GiveUpOnTask(w)
    BY <2>15, <1>1, <1>2, <1>3, <1>4, GoesClaims, DoneClaims DEF GiveUpOnTask, buildVars
  <2>16. CASE GiveUpOnBuild(w)
    <3>1. build'.status = "ready" => results = Chunks
      BY <2>16, <1>1, <1>3 DEF GiveUpOnBuild, Becomes, buildVars, Copies
    <3>2. QED
      BY <2>16, <1>1, <1>2, <1>4, <3>1, GoesClaims, DoneClaims, EndClaims DEF GiveUpOnBuild
  <2>17. CASE FatalDeletes(w)
    BY <2>17, <1>1, <1>2, <1>3, <1>4, EndClaims DEF FatalDeletes, buildVars, Dies
  <2>18. QED
    BY <1>8, <2>1, <2>2, <2>3, <2>4, <2>5, <2>6, <2>7, <2>8, <2>9, <2>10, <2>11, <2>12, <2>13,
      <2>14, <2>15, <2>16, <2>17 DEF Handler
<1>9. ASSUME NEW w \in Workers, Fault(w) PROVE ResultsInv'
  <2>1. CASE EnqueueReplyLost(w)
    BY <2>1, <1>1, <1>2, <1>3, <1>4, GoesClaims DEF EnqueueReplyLost, buildVars
  <2>2. CASE FinishFails(w)
    BY <2>2, <1>1, <1>2, <1>3, <1>4, GoesClaims DEF FinishFails, buildVars
  <2>3. CASE FailTaskFails(w)
    BY <2>3, <1>1, <1>2, <1>3, <1>4, EndClaims DEF FailTaskFails, buildVars
  <2>4. CASE GiveUpFails(w)
    BY <2>4, <1>1, <1>2, <1>3, <1>4, DoneClaims DEF GiveUpFails, buildVars
  <2>5. CASE ChunkWedges(w)
    BY <2>5, <1>1, <1>2, <1>3, <1>4, EndClaims DEF ChunkWedges, buildVars, Dies
  <2>6. CASE InlineWedges(w)
    <3>1. build'.status = "ready" => results = Chunks
      BY <2>6, <1>1, <1>3 DEF InlineWedges, Becomes, buildVars, Copies
    <3>2. QED
      BY <2>6, <1>1, <1>2, <1>4, <3>1, GoesClaims, DoneClaims, EndClaims DEF InlineWedges
  <2>7. CASE ReclaimErrs(w)
    BY <2>7, <1>1, <1>2, <1>3, <1>4 DEF ReclaimErrs, buildVars
  <2>8. ASSUME NEW e \in {"transient", "permanent", "timeout"}, IngestErrs(w, e) PROVE ResultsInv'
    BY <2>8, <1>1, <1>2, <1>3, <1>4, GoesClaims DEF IngestErrs, buildVars
  <2>9. ASSUME NEW e \in {"transient", "permanent", "timeout"}, ChunkErrs(w, e) PROVE ResultsInv'
    BY <2>9, <1>1, <1>2, <1>3, <1>4, GoesClaims, DoneClaims DEF ChunkErrs, buildVars
  <2>10. QED
    BY <1>9, <2>1, <2>2, <2>3, <2>4, <2>5, <2>6, <2>7, <2>8, <2>9 DEF Fault
<1>10. ASSUME NEW w \in Workers, Sweep(w) PROVE ResultsInv'
  <2>1. CASE SweepSelects(w)
    BY <2>1, <1>1, <1>2, <1>3, <1>4 DEF SweepSelects, buildVars
  <2>2. CASE SweepFails(w)
    <3>1. build'.status = "ready" => results = Chunks
      BY <2>2, <1>1, <1>3 DEF SweepFails, Becomes, buildVars, Copies
    <3>2. QED
      BY <2>2, <1>1, <1>2, <1>4, <3>1, GoesClaims, DoneClaims, EndClaims DEF SweepFails
  <2>3. CASE SweepDeletes(w)
    BY <2>3, <1>1, <1>2, <1>3, <1>4 DEF SweepDeletes, buildVars
  <2>4. QED
    BY <1>10, <2>1, <2>2, <2>3 DEF Sweep
<1>11. ASSUME NEW w \in Workers, Shutdown(w) PROVE ResultsInv'
  <2>1. CASE ShutdownReleases(w)
    BY <2>1, <1>1, <1>2, <1>3, <1>4 DEF ShutdownReleases, buildVars
  <2>2. CASE ShutdownResets(w)
    <3>1. build'.status = "ready" => results = Chunks
      BY <2>2, <1>1, <1>3 DEF ShutdownResets, Becomes, buildVars, Copies
    <3>2. QED
      BY <2>2, <1>1, <1>2, <1>4, <3>1, GoesClaims, DoneClaims, EndClaims DEF ShutdownResets
  <2>3. CASE ShutdownExits(w)
    BY <2>3, <1>1, <1>2, <1>3, <1>4, EndClaims DEF ShutdownExits, buildVars, Dies
  <2>4. QED
    BY <1>11, <2>1, <2>2, <2>3 DEF Shutdown
<1>12. ASSUME NEW w \in Workers, Reclaim(w) PROVE ResultsInv'
  <2>1. CASE ReclaimUnlocks(w)
    BY <2>1, <1>1, <1>2, <1>3, <1>4 DEF ReclaimUnlocks, buildVars
  <2>2. CASE ReclaimRequeues(w)
    <3>1. build'.status = "ready" => results = Chunks
      BY <2>2, <1>1, <1>3 DEF ReclaimRequeues, Becomes, buildVars, Copies
    <3>2. QED
      BY <2>2, <1>1, <1>2, <1>4, <3>1, GoesClaims, DoneClaims, EndClaims DEF ReclaimRequeues
  <2>3. CASE ReclaimFails(w)
    <3>1. build'.status = "ready" => results = Chunks
      BY <2>3, <1>1, <1>3 DEF ReclaimFails, Becomes, buildVars, Copies
    <3>2. QED
      BY <2>3, <1>1, <1>2, <1>4, <3>1, GoesClaims, DoneClaims, EndClaims DEF ReclaimFails
  <2>4. CASE ReclaimDeletes(w)
    BY <2>4, <1>1, <1>2, <1>3, <1>4 DEF ReclaimDeletes, buildVars
  <2>5. QED
    BY <1>12, <2>1, <2>2, <2>3, <2>4 DEF Reclaim
<1>13. ASSUME NEW w \in Workers, HandleShutdownSignal(w) PROVE ResultsInv'
  BY <1>13, <1>1, <1>2, <1>3, <1>4 DEF HandleShutdownSignal, buildVars
<1>14. ASSUME NEW w \in Workers, Crash(w) PROVE ResultsInv'
  BY <1>14, <1>1, <1>2, <1>3, <1>4, EndClaims DEF Crash, buildVars, Dies
<1>15. ASSUME NEW w \in Workers, Boot(w) PROVE ResultsInv'
  BY <1>15, <1>1, <1>2, <1>3, <1>4 DEF Boot, buildVars
<1>16. QED
  BY <1>5, <1>6, <1>7, <1>8, <1>9, <1>10, <1>11, <1>12, <1>13, <1>14, <1>15 DEF Next

----------------------------------------------------------------------------
(* Saves.                                                                  *)

\* A handler that goes on or ends has no columns left to write.
LEMMA EndSaving ==
  ASSUME WorkTypeOK, SavingInv, NEW w \in Workers,
         (\E s, e : Goes(w, s, e)) \/ Done(w) \/ Continues(w) \/ Books(w) \/ Dies(w)
  PROVE  SavingInv'
BY DEF SavingInv, WorkTypeOK, Goes, Done, Continues, Books, Dies

\* Every step keeps pending columns to the steps that save.
LEMMA SavingHeld ==
  ASSUME IInv, Next
  PROVE  SavingInv'
<1>1. WorkTypeOK /\ SavingInv
  BY DEF IInv, TypeOK
<1>2. UNCHANGED workVars => SavingInv'
  BY <1>1 DEF workVars, SavingInv
<1>3. CASE TimePasses
  BY <1>3, <1>1, <1>2 DEF TimePasses
<1>4. ASSUME NEW r \in Rows, LockExpires(r) PROVE SavingInv'
  BY <1>4, <1>1, <1>2 DEF LockExpires
<1>5. ASSUME NEW w \in Workers, NEW r \in Rows, ClaimTask(w, r) PROVE SavingInv'
  <3>1. pc[w] = "idle"
    BY <1>5 DEF ClaimTask, IInv, TaskInv
  <3>2. QED
    BY <1>5, <1>1, <3>1 DEF ClaimTask, SavingInv, WorkTypeOK, Saves
<1>6. ASSUME NEW w \in Workers, Handler(w) PROVE SavingInv'
  <2>1. CASE IngestLoads(w)
    BY <2>1, <1>1, <1>2 DEF IngestLoads, SavingInv, WorkTypeOK, Saves
  <2>2. CASE SaveReads(w)
    BY <2>2, <1>1, <1>2 DEF SaveReads, SavingInv, WorkTypeOK, Saves
  <2>3. CASE SaveWrites(w)
    BY <2>3, <1>1, <1>2, EndSaving DEF SaveWrites
  <2>4. CASE EnqueueRenderChunks(w)
    BY <2>4, <1>1, <1>2, EndSaving DEF EnqueueRenderChunks
  <2>5. CASE InlineRenders(w)
    BY <2>5, <1>1, <1>2, EndSaving DEF InlineRenders
  <2>6. CASE ChunkLoads(w)
    BY <2>6, <1>1, <1>2, EndSaving DEF ChunkLoads
  <2>7. CASE CheckBudget(w)
    BY <2>7, <1>1, <1>2, EndSaving DEF CheckBudget
  <2>8. CASE RenderChunk(w)
    BY <2>8, <1>1, <1>2, EndSaving DEF RenderChunk
  <2>9. CASE PoisonKills(w)
    BY <2>9, <1>1, <1>2, EndSaving DEF PoisonKills
  <2>10. CASE RecordFailures(w)
    BY <2>10, <1>1, <1>2, EndSaving DEF RecordFailures
  <2>11. CASE Reconcile(w)
    BY <2>11, <1>1, <1>2, EndSaving DEF Reconcile
  <2>12. CASE CompleteBuild(w)
    BY <2>12, <1>1, <1>2, EndSaving DEF CompleteBuild
  <2>13. CASE FinishTask(w)
    BY <2>13, <1>1, <1>2, EndSaving DEF FinishTask
  <2>14. CASE FailTask(w)
    BY <2>14, <1>1, <1>2, EndSaving DEF FailTask
  <2>15. CASE GiveUpOnTask(w)
    BY <2>15, <1>1, <1>2, EndSaving DEF GiveUpOnTask
  <2>16. CASE GiveUpOnBuild(w)
    BY <2>16, <1>1, <1>2, EndSaving DEF GiveUpOnBuild
  <2>17. CASE FatalDeletes(w)
    BY <2>17, <1>1, <1>2, EndSaving DEF FatalDeletes
  <2>18. QED
    BY <1>6, <2>1, <2>2, <2>3, <2>4, <2>5, <2>6, <2>7, <2>8, <2>9, <2>10, <2>11, <2>12, <2>13,
      <2>14, <2>15, <2>16, <2>17 DEF Handler
<1>7. ASSUME NEW w \in Workers, Fault(w) PROVE SavingInv'
  <2>1. CASE EnqueueReplyLost(w)
    BY <2>1, <1>1, <1>2, EndSaving DEF EnqueueReplyLost
  <2>2. CASE FinishFails(w)
    BY <2>2, <1>1, <1>2, EndSaving DEF FinishFails
  <2>3. CASE FailTaskFails(w)
    BY <2>3, <1>1, <1>2, EndSaving DEF FailTaskFails
  <2>4. CASE GiveUpFails(w)
    BY <2>4, <1>1, <1>2, EndSaving DEF GiveUpFails
  <2>5. CASE ChunkWedges(w)
    BY <2>5, <1>1, <1>2, EndSaving DEF ChunkWedges
  <2>6. CASE InlineWedges(w)
    BY <2>6, <1>1, <1>2, EndSaving DEF InlineWedges
  <2>7. CASE ReclaimErrs(w)
    BY <2>7, <1>1, <1>2 DEF ReclaimErrs
  <2>8. ASSUME NEW e \in {"transient", "permanent", "timeout"}, IngestErrs(w, e) PROVE SavingInv'
    BY <2>8, <1>1, <1>2, EndSaving DEF IngestErrs
  <2>9. ASSUME NEW e \in {"transient", "permanent", "timeout"}, ChunkErrs(w, e) PROVE SavingInv'
    BY <2>9, <1>1, <1>2, EndSaving DEF ChunkErrs
  <2>10. QED
    BY <1>7, <2>1, <2>2, <2>3, <2>4, <2>5, <2>6, <2>7, <2>8, <2>9 DEF Fault
<1>8. ASSUME NEW w \in Workers, Sweep(w) PROVE SavingInv'
  <2>1. CASE SweepSelects(w)
    BY <2>1, <1>1, <1>2 DEF SweepSelects
  <2>2. CASE SweepFails(w)
    BY <2>2, <1>1, <1>2 DEF SweepFails
  <2>3. CASE SweepDeletes(w)
    BY <2>3, <1>1, <1>2 DEF SweepDeletes
  <2>4. QED
    BY <1>8, <2>1, <2>2, <2>3 DEF Sweep
<1>9. ASSUME NEW w \in Workers, Shutdown(w) PROVE SavingInv'
  <2>1. CASE ShutdownReleases(w)
    BY <2>1, <1>1, <1>2 DEF ShutdownReleases
  <2>2. CASE ShutdownResets(w)
    BY <2>2, <1>1, <1>2 DEF ShutdownResets
  <2>3. CASE ShutdownExits(w)
    BY <2>3, <1>1, <1>2, EndSaving DEF ShutdownExits
  <2>4. QED
    BY <1>9, <2>1, <2>2, <2>3 DEF Shutdown
<1>10. ASSUME NEW w \in Workers, Reclaim(w) PROVE SavingInv'
  <2>1. CASE ReclaimUnlocks(w)
    BY <2>1, <1>1, <1>2 DEF ReclaimUnlocks
  <2>2. CASE ReclaimRequeues(w)
    BY <2>2, <1>1, <1>2 DEF ReclaimRequeues
  <2>3. CASE ReclaimFails(w)
    BY <2>3, <1>1, <1>2 DEF ReclaimFails
  <2>4. CASE ReclaimDeletes(w)
    BY <2>4, <1>1, <1>2 DEF ReclaimDeletes
  <2>5. QED
    BY <1>10, <2>1, <2>2, <2>3, <2>4 DEF Reclaim
<1>11. ASSUME NEW w \in Workers, HandleShutdownSignal(w) PROVE SavingInv'
  BY <1>11, <1>1, <1>2 DEF HandleShutdownSignal
<1>12. ASSUME NEW w \in Workers, Crash(w) PROVE SavingInv'
  BY <1>12, <1>1, <1>2, EndSaving DEF Crash
<1>13. ASSUME NEW w \in Workers, Boot(w) PROVE SavingInv'
  BY <1>13, <1>1, <1>2 DEF Boot
<1>14. QED
  BY <1>3, <1>4, <1>5, <1>6, <1>7, <1>8, <1>9, <1>10, <1>11, <1>12, <1>13 DEF Next

\* What CopyInv asks of a worker at step s with copy m and pending columns c.
CopyOK(s, m, c) ==
  /\ s \notin {"inline", "complete", "fatal"}
  /\ s \in {"discover", "enqueue", "handoff"} => m.status = "running"
  /\ s = "mark" /\ c # Idle => m.status = "running"
  /\ s = "abort" /\ c # Idle => m.status = "failed"

\* A handler that goes on to a step that suits its copy keeps CopyInv.
LEMMA GoesCopy ==
  ASSUME WorkTypeOK, CopyInv, NEW w \in Workers, NEW s, NEW e, Goes(w, s, e), size' = size,
         size = "large" => CopyOK(s, mem[w], Idle)
  PROVE  CopyInv'
<1>1. /\ pc' = [pc EXCEPT ![w] = s] /\ saving' = [saving EXCEPT ![w] = Idle]
      /\ mem' = IF s \in {"finish", "error", "giveup"} THEN [mem EXCEPT ![w] = NoCopy] ELSE mem
  BY DEF Goes
<1>2. SUFFICES ASSUME size = "large", NEW v \in Workers
               PROVE  CopyOK(pc'[v], mem'[v], saving'[v])
  BY DEF CopyInv, CopyOK
<1>3. CopyOK(pc[v], mem[v], saving[v])
  BY <1>2 DEF CopyInv, CopyOK
<1>4. CASE v = w
  BY <1>1, <1>2, <1>4 DEF CopyOK, WorkTypeOK
<1>5. CASE v # w
  <2>1. pc'[v] = pc[v] /\ mem'[v] = mem[v] /\ saving'[v] = saving[v]
    BY <1>1, <1>5 DEF WorkTypeOK
  <2>2. QED
    BY <1>3, <2>1
<1>6. QED
  BY <1>4, <1>5

\* One that ends keeps it.
LEMMA DoneCopy ==
  ASSUME WorkTypeOK, CopyInv, NEW w \in Workers, Done(w), size' = size
  PROVE  CopyInv'
<1>1. SUFFICES ASSUME size = "large", NEW v \in Workers
               PROVE  CopyOK(pc'[v], mem'[v], saving'[v])
  BY DEF CopyInv, CopyOK
<1>2. CopyOK(pc[v], mem[v], saving[v])
  BY <1>1 DEF CopyInv, CopyOK
<1>3. CASE v = w
  BY <1>3 DEF CopyOK, Done, WorkTypeOK
<1>4. CASE v # w
  <2>1. pc'[v] = pc[v] /\ mem'[v] = mem[v] /\ saving'[v] = saving[v]
    BY <1>4 DEF Done, WorkTypeOK
  <2>2. QED
    BY <1>2, <2>1
<1>5. QED
  BY <1>3, <1>4

\* So does one that continues, books a retry or dies.
LEMMA EndCopy ==
  ASSUME WorkTypeOK, CopyInv, NEW w \in Workers, Continues(w) \/ Books(w) \/ Dies(w),
         size' = size
  PROVE  CopyInv'
<1>1. \A s \in {"finish", "error", "giveup"} : CopyOK(s, mem[w], Idle)
  BY DEF CopyOK
<1>2. QED
  BY <1>1, GoesCopy, DoneCopy DEF Continues, Books, Dies

\* A build is as large as it is.
LEMMA SizeFixed ==
  ASSUME Next
  PROVE  size' = size
<1> USE DEF envVars, SpendsFault
<1>1. TimePasses => size' = size
  BY DEF TimePasses
<1>2. \A r \in Rows : LockExpires(r) => size' = size
  BY DEF LockExpires
<1>3. \A w \in Workers, r \in Rows : ClaimTask(w, r) => size' = size
  BY DEF ClaimTask
<1>4. \A w \in Workers : Handler(w) => size' = size
  BY DEF Handler, IngestLoads, SaveReads, SaveWrites, EnqueueRenderChunks, InlineRenders,
    ChunkLoads, CheckBudget, RenderChunk, PoisonKills, RecordFailures, Reconcile,
    CompleteBuild, FinishTask, FailTask, GiveUpOnTask, GiveUpOnBuild, FatalDeletes, Dies
<1>5. \A w \in Workers : Fault(w) => size' = size
  BY DEF Fault, EnqueueReplyLost, FinishFails, FailTaskFails, GiveUpFails, ChunkWedges,
    InlineWedges, ReclaimErrs, IngestErrs, ChunkErrs, Dies
<1>6. \A w \in Workers : Sweep(w) => size' = size
  BY DEF Sweep, SweepSelects, SweepFails, SweepDeletes
<1>7. \A w \in Workers : Shutdown(w) \/ HandleShutdownSignal(w) => size' = size
  BY DEF Shutdown, ShutdownReleases, ShutdownResets, ShutdownExits, HandleShutdownSignal
<1>8. \A w \in Workers : Reclaim(w) \/ Boot(w) \/ Crash(w) => size' = size
  BY DEF Reclaim, ReclaimUnlocks, ReclaimRequeues, ReclaimFails, ReclaimDeletes, Boot, Crash
<1>9. QED
  BY <1>1, <1>2, <1>3, <1>4, <1>5, <1>6, <1>7, <1>8 DEF Next

\* Every step of an ingest of a large build keeps "ready" out of what it saves.
LEMMA CopiesHeld ==
  ASSUME IInv, Next
  PROVE  CopyInv'
<1>1. WorkTypeOK /\ CopyInv
  BY DEF IInv, TypeOK
<1>2. size' = size
  BY SizeFixed
<1>3. UNCHANGED workVars => CopyInv'
  BY <1>1, <1>2 DEF workVars, CopyInv
<1>4. \A m, s : s \in {"finish", "error", "giveup", "chunk", "budget", "render", "record",
                     "reconcile", "post", "givefail"} => CopyOK(s, m, Idle)
  BY DEF CopyOK
<1>5. CASE TimePasses
  BY <1>5, <1>1, <1>2, <1>3, <1>4 DEF TimePasses
<1>6. ASSUME NEW r \in Rows, LockExpires(r) PROVE CopyInv'
  BY <1>6, <1>1, <1>2, <1>3, <1>4 DEF LockExpires
<1>7. ASSUME NEW w \in Workers, NEW r \in Rows, ClaimTask(w, r) PROVE CopyInv'
  <3>1. /\ pc' = [pc EXCEPT ![w] = IF r = Ingest THEN "load" ELSE "chunk"]
        /\ UNCHANGED <<mem, saving>>
    BY <1>7 DEF ClaimTask
  <3>2. QED
    BY <1>1, <1>2, <3>1 DEF CopyInv, WorkTypeOK
<1>8. ASSUME NEW w \in Workers, Handler(w) PROVE CopyInv'
  <2>1. CASE IngestLoads(w)
    <3>1. /\ mem' = [mem EXCEPT ![w] = build] /\ pc' = [pc EXCEPT ![w] = "mark"]
          /\ UNCHANGED saving
      BY <2>1 DEF IngestLoads
    <3>2. saving[w] = Idle
      BY <2>1 DEF IngestLoads, IInv, SavingInv, Saves
    <3>3. QED
      BY <1>1, <1>2, <3>1, <3>2 DEF CopyInv, WorkTypeOK
  <2>2. CASE SaveReads(w)
    <3>1. mem' = [mem EXCEPT ![w] = Edited(w)] /\ UNCHANGED pc
          /\ \A v \in Workers \ {w} : saving'[v] = saving[v]
      BY <2>2, <1>1 DEF SaveReads, WorkTypeOK
    <3>2. /\ pc[w] = "mark" => Edited(w).status = "running"
          /\ pc[w] = "abort" => Edited(w).status = "failed"
          /\ pc[w] \in {"discover", "handoff"} => Edited(w).status = mem[w].status
          /\ pc[w] # "enqueue"
      BY <2>2, <1>1, EditedType DEF SaveReads, Saves
    <3>3. QED
      BY <1>1, <1>2, <3>1, <3>2 DEF CopyInv, WorkTypeOK
  <2>3. CASE SaveWrites(w)
    <3>1. size = "large" => CopyOK(Following(pc[w]), mem[w], Idle)
      BY <2>3, <1>1, FollowingSteps DEF SaveWrites, Saves, CopyInv, CopyOK
    <3>2. QED
      BY <2>3, <1>1, <1>2, <3>1, GoesCopy DEF SaveWrites
  <2>4. CASE EnqueueRenderChunks(w)
    <3>1. size = "large" => CopyOK("handoff", mem[w], Idle) /\ CopyOK("abort", mem[w], Idle)
      BY <2>4, <1>1 DEF EnqueueRenderChunks, EnqueueReplyLost, CopyInv, CopyOK
    <3>2. QED
      BY <2>4, <1>1, <1>2, <3>1, GoesCopy DEF EnqueueRenderChunks, EnqueueReplyLost
  <2>5. CASE InlineRenders(w)
    <3>1. size # "large"
      BY <2>5, <1>1 DEF InlineRenders, InlineWedges, CopyInv
    <3>2. QED
      BY <1>2, <3>1 DEF CopyInv
  <2>6. CASE ChunkLoads(w)
    BY <2>6, <1>1, <1>2, <1>3, <1>4, GoesCopy DEF ChunkLoads
  <2>7. CASE CheckBudget(w)
    BY <2>7, <1>1, <1>2, <1>3, <1>4, GoesCopy DEF CheckBudget
  <2>8. CASE RenderChunk(w)
    BY <2>8, <1>1, <1>2, <1>3, <1>4, GoesCopy DEF RenderChunk
  <2>9. CASE PoisonKills(w)
    BY <2>9, <1>1, <1>2, <1>3, <1>4, EndCopy DEF PoisonKills
  <2>10. CASE RecordFailures(w)
    BY <2>10, <1>1, <1>2, <1>3, <1>4, GoesCopy DEF RecordFailures
  <2>11. CASE Reconcile(w)
    BY <2>11, <1>1, <1>2, <1>3, <1>4, GoesCopy, EndCopy DEF Reconcile
  <2>12. CASE CompleteBuild(w)
    BY <2>12, <1>1, <1>2, <1>3, <1>4, EndCopy DEF CompleteBuild
  <2>13. CASE FinishTask(w)
    BY <2>13, <1>1, <1>2, <1>3, <1>4, DoneCopy DEF FinishTask
  <2>14. CASE FailTask(w)
    BY <2>14, <1>1, <1>2, <1>3, <1>4, DoneCopy, EndCopy DEF FailTask
  <2>15. CASE GiveUpOnTask(w)
    BY <2>15, <1>1, <1>2, <1>3, <1>4, GoesCopy, DoneCopy DEF GiveUpOnTask
  <2>16. CASE GiveUpOnBuild(w)
    BY <2>16, <1>1, <1>2, <1>3, <1>4, DoneCopy DEF GiveUpOnBuild
  <2>17. CASE FatalDeletes(w)
    BY <2>17, <1>1, <1>2, <1>3, <1>4, EndCopy DEF FatalDeletes
  <2>18. QED
    BY <1>8, <2>1, <2>2, <2>3, <2>4, <2>5, <2>6, <2>7, <2>8, <2>9, <2>10, <2>11, <2>12, <2>13,
      <2>14, <2>15, <2>16, <2>17 DEF Handler
<1>9. ASSUME NEW w \in Workers, Fault(w) PROVE CopyInv'
  <2>1. CASE EnqueueReplyLost(w)
    <3>1. size = "large" => CopyOK("handoff", mem[w], Idle) /\ CopyOK("abort", mem[w], Idle)
      BY <2>1, <1>1 DEF EnqueueRenderChunks, EnqueueReplyLost, CopyInv, CopyOK
    <3>2. QED
      BY <2>1, <1>1, <1>2, <3>1, GoesCopy DEF EnqueueRenderChunks, EnqueueReplyLost
  <2>2. CASE FinishFails(w)
    BY <2>2, <1>1, <1>2, <1>3, <1>4, GoesCopy DEF FinishFails
  <2>3. CASE FailTaskFails(w)
    BY <2>3, <1>1, <1>2, <1>3, <1>4, EndCopy DEF FailTaskFails
  <2>4. CASE GiveUpFails(w)
    BY <2>4, <1>1, <1>2, <1>3, <1>4, DoneCopy DEF GiveUpFails
  <2>5. CASE ChunkWedges(w)
    BY <2>5, <1>1, <1>2, <1>3, <1>4, EndCopy DEF ChunkWedges
  <2>6. CASE InlineWedges(w)
    <3>1. size # "large"
      BY <2>6, <1>1 DEF InlineRenders, InlineWedges, CopyInv
    <3>2. QED
      BY <1>2, <3>1 DEF CopyInv
  <2>7. CASE ReclaimErrs(w)
    BY <2>7, <1>1, <1>2, <1>3, <1>4 DEF ReclaimErrs
  <2>8. ASSUME NEW e \in {"transient", "permanent", "timeout"}, IngestErrs(w, e) PROVE CopyInv'
    <3>1. \A s \in {"abort", "error"} : CopyOK(s, mem[w], Idle)
      BY DEF CopyOK
    <3>2. QED
      BY <2>8, <1>1, <1>2, <3>1, GoesCopy DEF IngestErrs
  <2>9. ASSUME NEW e \in {"transient", "permanent", "timeout"}, ChunkErrs(w, e) PROVE CopyInv'
    BY <2>9, <1>1, <1>2, <1>3, <1>4, GoesCopy, DoneCopy DEF ChunkErrs
  <2>10. QED
    BY <1>9, <2>1, <2>2, <2>3, <2>4, <2>5, <2>6, <2>7, <2>8, <2>9 DEF Fault
<1>10. ASSUME NEW w \in Workers, Sweep(w) PROVE CopyInv'
  <2>1. CASE SweepSelects(w)
    BY <2>1, <1>1, <1>2, <1>3, <1>4 DEF SweepSelects
  <2>2. CASE SweepFails(w)
    BY <2>2, <1>1, <1>2, <1>3, <1>4 DEF SweepFails
  <2>3. CASE SweepDeletes(w)
    BY <2>3, <1>1, <1>2, <1>3, <1>4 DEF SweepDeletes
  <2>4. QED
    BY <1>10, <2>1, <2>2, <2>3 DEF Sweep
<1>11. ASSUME NEW w \in Workers, Shutdown(w) PROVE CopyInv'
  <2>1. CASE ShutdownReleases(w)
    BY <2>1, <1>1, <1>2, <1>3, <1>4 DEF ShutdownReleases
  <2>2. CASE ShutdownResets(w)
    BY <2>2, <1>1, <1>2, <1>3, <1>4 DEF ShutdownResets
  <2>3. CASE ShutdownExits(w)
    BY <2>3, <1>1, <1>2, <1>3, <1>4, EndCopy DEF ShutdownExits
  <2>4. QED
    BY <1>11, <2>1, <2>2, <2>3 DEF Shutdown
<1>12. ASSUME NEW w \in Workers, Reclaim(w) PROVE CopyInv'
  <2>1. CASE ReclaimUnlocks(w)
    BY <2>1, <1>1, <1>2, <1>3, <1>4 DEF ReclaimUnlocks
  <2>2. CASE ReclaimRequeues(w)
    BY <2>2, <1>1, <1>2, <1>3, <1>4 DEF ReclaimRequeues
  <2>3. CASE ReclaimFails(w)
    BY <2>3, <1>1, <1>2, <1>3, <1>4 DEF ReclaimFails
  <2>4. CASE ReclaimDeletes(w)
    BY <2>4, <1>1, <1>2, <1>3, <1>4 DEF ReclaimDeletes
  <2>5. QED
    BY <1>12, <2>1, <2>2, <2>3, <2>4 DEF Reclaim
<1>13. ASSUME NEW w \in Workers, HandleShutdownSignal(w) PROVE CopyInv'
  BY <1>13, <1>1, <1>2, <1>3, <1>4 DEF HandleShutdownSignal
<1>14. ASSUME NEW w \in Workers, Crash(w) PROVE CopyInv'
  BY <1>14, <1>1, <1>2, <1>3, <1>4, EndCopy DEF Crash
<1>15. ASSUME NEW w \in Workers, Boot(w) PROVE CopyInv'
  BY <1>15, <1>1, <1>2, <1>3, <1>4 DEF Boot
<1>16. QED
  BY <1>5, <1>6, <1>7, <1>8, <1>9, <1>10, <1>11, <1>12, <1>13, <1>14, <1>15 DEF Next

----------------------------------------------------------------------------
(* Renders begun.                                                          *)

\* A step that does not start a claim leaves fewer claims that may begin, or the same.
Fewer == \A r \in Rows : Beginning(r)' \subseteq Beginning(r)

\* A handler that goes on starts no claim, unless it goes on with one.
LEMMA GoesFewer ==
  ASSUME WorkTypeOK, NEW w \in Workers, NEW s, NEW e, Goes(w, s, e),
         s \in {"chunk", "budget"} => pc[w] \in {"chunk", "budget"}
  PROVE  Fewer
BY DEF Goes, Fewer, Beginning, WorkTypeOK

\* One that ends gives its claim up.
LEMMA DoneFewer ==
  ASSUME WorkTypeOK, NEW w \in Workers, Done(w)
  PROVE  Fewer
BY DEF Done, Fewer, Beginning, WorkTypeOK

\* So does one that continues, books a retry or dies.
LEMMA EndFewer ==
  ASSUME WorkTypeOK, NEW w \in Workers, Continues(w) \/ Books(w) \/ Dies(w)
  PROVE  Fewer
BY GoesFewer, DoneFewer DEF Continues, Books, Dies

\* Every render begun had a claim of its own.
LEMMA StartsHeld ==
  ASSUME IInv, Next
  PROVE  StartsInv'
<1>1. /\ TaskInv /\ BatchInv /\ StartsInv /\ WorkTypeOK /\ RowTypeOK /\ MaxTaskAttempts \in Nat
      /\ IsFiniteSet(Workers)
  BY BuildAssumption DEF IInv, TypeOK
<1>2. \A r \in Rows : /\ IsFiniteSet(Beginning(r)) /\ Cardinality(Beginning(r)) \in Nat
                      /\ IsFiniteSet(Beginning(r)')
  BY <1>1, FS_Subset, FS_CardinalityType DEF Beginning
<1>3. ASSUME UNCHANGED <<starts, attempts>>, Fewer,
             \A r \in Rows : row'[r] # "gone" => row[r] # "gone"
      PROVE  StartsInv'
  <2>1. \A r \in Rows : Cardinality(Beginning(r)') <= Cardinality(Beginning(r))
    BY <1>2, <1>3, FS_Subset DEF Fewer
  <2>2. \A r \in Rows : Cardinality(Beginning(r)') \in Nat
    BY <1>2, FS_CardinalityType
  <2>3. QED
    BY <1>1, <1>2, <1>3, <2>1, <2>2 DEF StartsInv, RowTypeOK
<1>4. UNCHANGED workVars => Fewer
  BY DEF workVars, Fewer, Beginning
<1>5. CASE TimePasses
  BY <1>5, <1>1, <1>3, <1>4 DEF TimePasses, rowVars, countVars
<1>6. ASSUME NEW r \in Rows, LockExpires(r) PROVE StartsInv'
  BY <1>6, <1>1, <1>3, <1>4 DEF LockExpires, countVars, RowTypeOK
<1>7. ASSUME NEW w \in Workers, NEW r \in Rows, ClaimTask(w, r) PROVE StartsInv'
  <3>1. Beginning(r)' \subseteq Beginning(r) \cup {w}
        /\ \A q \in Rows \ {r} : Beginning(q)' \subseteq Beginning(q)
    BY <1>7, <1>1 DEF ClaimTask, Beginning, WorkTypeOK
  <3>2. /\ UNCHANGED starts /\ \A q \in Rows : row'[q] # "gone" => row[q] # "gone"
        /\ attempts'[r] = IF attempts[r] <= MaxTaskAttempts THEN attempts[r] + 1 ELSE attempts[r]
        /\ \A q \in Rows \ {r} : attempts'[q] = attempts[q]
    BY <1>7, <1>1 DEF ClaimTask, RowTypeOK, countVars
  <3>3. ASSUME NEW q \in Rows \ {r} PROVE Cardinality(Beginning(q)') <= Cardinality(Beginning(q))
    BY <1>2, <3>1, FS_Subset
  <3>4. Cardinality(Beginning(r)') <= Cardinality(Beginning(r)) + 1
    <4>1. /\ IsFiniteSet(Beginning(r) \cup {w})
          /\ Cardinality(Beginning(r) \cup {w}) \in
                {Cardinality(Beginning(r)), Cardinality(Beginning(r)) + 1}
      BY <1>2, FS_AddElement
    <4>2. Cardinality(Beginning(r)') <= Cardinality(Beginning(r) \cup {w})
      BY <3>1, <4>1, FS_Subset
    <4>3. Cardinality(Beginning(r)') \in Nat
      BY <1>2, FS_CardinalityType
    <4>4. QED
      BY <1>2, <4>1, <4>2, <4>3
  <3>5. \A q \in Rows : Cardinality(Beginning(q)') \in Nat
    BY <1>2, FS_CardinalityType
  <3>6. QED
    BY <1>1, <1>2, <3>2, <3>3, <3>4, <3>5 DEF StartsInv, RowTypeOK
<1>8. ASSUME NEW w \in Workers, Handler(w) PROVE StartsInv'
  <2>1. CASE IngestLoads(w)
    <3>1. Fewer
      BY <2>1, <1>1 DEF IngestLoads, Fewer, Beginning, WorkTypeOK
    <3>2. QED
      BY <2>1, <1>3, <3>1 DEF IngestLoads, rowVars, countVars
  <2>2. CASE SaveReads(w)
    <3>1. Fewer
      BY <2>2, <1>1 DEF SaveReads, Fewer, Beginning, WorkTypeOK
    <3>2. QED
      BY <2>2, <1>3, <3>1 DEF SaveReads, rowVars, countVars
  <2>3. CASE SaveWrites(w)
    <3>1. Following(pc[w]) \notin {"chunk", "budget"}
      BY <2>3, FollowingSteps DEF SaveWrites, Saves
    <3>2. QED
      BY <2>3, <1>1, <1>3, <3>1, GoesFewer DEF SaveWrites, rowVars, countVars
  <2>4. CASE EnqueueRenderChunks(w)
    <3>1. batches' = batches + 1 /\ UNCHANGED <<starts, attempts>> /\ Fewer
          /\ row' = [r \in Rows |-> IF r # Ingest /\ r[1] = batches' THEN "free" ELSE row[r]]
      BY <2>4, <1>1, GoesFewer DEF EnqueueRenderChunks, InsertChunks
    <3>2. \A r \in Rows \ {Ingest} : r[1] = batches' => row[r] = "absent"
      BY <1>1, <3>1, RowsType DEF BatchInv, RowTypeOK
    <3>3. QED
      BY <1>3, <3>1, <3>2
  <2>5. CASE InlineRenders(w)
    BY <2>5, <1>1, <1>3, <1>4, GoesFewer DEF InlineRenders, rowVars, countVars
  <2>6. CASE ChunkLoads(w)
    BY <2>6, <1>1, <1>3, <1>4, GoesFewer DEF ChunkLoads, rowVars, countVars
  <2>7. CASE CheckBudget(w)
    <3> SUFFICES ASSUME NEW r \in Rows, r = task[w]
                 PROVE  StartsInv'
      BY <2>7, <1>1 DEF CheckBudget, TaskInv, ChunkSteps
    <3>1. /\ row[r] # "absent" /\ w \in Beginning(r)
          /\ UNCHANGED <<attempts, row>> /\ Fewer
      BY <2>7, <1>1, GoesFewer DEF CheckBudget, TaskInv, Beginning, rowVars
    <3>2. CASE starts' = starts
      BY <1>3, <3>1, <3>2
    <3>3. CASE /\ row[r] = "gone" \/ attempts[r] <= MaxTaskAttempts
               /\ starts' = [starts EXCEPT ![r] = starts[r] + 1]
               /\ w \notin Beginning(r)'
      <4>1. Cardinality(Beginning(r)') <= Cardinality(Beginning(r)) - 1
        <5>1. /\ IsFiniteSet(Beginning(r) \ {w})
              /\ Cardinality(Beginning(r) \ {w}) = Cardinality(Beginning(r)) - 1
          BY <1>2, <3>1, FS_RemoveElement
        <5>2. Beginning(r)' \subseteq Beginning(r) \ {w}
          BY <3>1, <3>3 DEF Fewer
        <5>3. QED
          BY <5>1, <5>2, FS_Subset
      <4>2. \A q \in Rows : Cardinality(Beginning(q)') <= Cardinality(Beginning(q))
        BY <1>2, <3>1, FS_Subset DEF Fewer
      <4>3. \A q \in Rows : Cardinality(Beginning(q)') \in Nat
        BY <1>2, FS_CardinalityType
      <4>4. /\ starts'[r] = starts[r] + 1
            /\ \A q \in Rows \ {r} : starts'[q] = starts[q]
        BY <1>1, <3>3 DEF RowTypeOK
      <4>5. ASSUME NEW q \in Rows, row[q] # "gone"
            PROVE  /\ starts'[q] <= MaxTaskAttempts
                   /\ attempts[q] <= MaxTaskAttempts
                        => starts'[q] + Cardinality(Beginning(q)') <= attempts[q]
        <5>1. /\ starts[q] \in Nat /\ attempts[q] \in Nat /\ Cardinality(Beginning(q)) \in Nat
              /\ Cardinality(Beginning(q)') \in Nat /\ starts[q] <= MaxTaskAttempts
              /\ attempts[q] <= MaxTaskAttempts
                   => starts[q] + Cardinality(Beginning(q)) <= attempts[q]
          BY <1>1, <1>2, <4>3, <4>5 DEF StartsInv, RowTypeOK
        <5>2. CASE q = r
          BY <1>1, <3>3, <4>1, <4>4, <4>5, <5>1, <5>2
        <5>3. CASE q # r
          BY <1>1, <4>2, <4>4, <5>1, <5>3
        <5>4. QED
          BY <5>2, <5>3
      <4>6. QED
        BY <3>1, <4>5 DEF StartsInv
    <3>4. \/ starts' = starts
          \/ /\ row[r] = "gone" \/ attempts[r] <= MaxTaskAttempts
             /\ starts' = [starts EXCEPT ![r] = starts[r] + 1]
             /\ pc' = [pc EXCEPT ![w] = "render"]
      <4>1. CASE Queued(r) /\ attempts[r] > MaxTaskAttempts
        <5>1. starts' = [starts EXCEPT ![r] = starts[r]]
          BY <2>7, <4>1 DEF CheckBudget
        <5>2. QED
          BY <1>1, <5>1 DEF RowTypeOK
      <4>2. CASE ~(Queued(r) /\ attempts[r] > MaxTaskAttempts)
        <5>1. /\ starts' = [starts EXCEPT ![r] = starts[r] + 1]
              /\ pc' = [pc EXCEPT ![w] = "render"]
          BY <2>7, <4>2 DEF CheckBudget, Goes
        <5>2. row[r] = "gone" \/ attempts[r] <= MaxTaskAttempts
          BY <1>1, <3>1, <4>2 DEF RowTypeOK, Queued
        <5>3. QED
          BY <5>1, <5>2
      <4>3. QED
        BY <4>1, <4>2
    <3>5. pc' = [pc EXCEPT ![w] = "render"] => w \notin Beginning(r)'
      BY <1>1 DEF Beginning, WorkTypeOK
    <3>6. QED
      BY <3>2, <3>3, <3>4, <3>5
  <2>8. CASE RenderChunk(w)
    BY <2>8, <1>1, <1>3, <1>4, GoesFewer DEF RenderChunk, rowVars, countVars
  <2>9. CASE PoisonKills(w)
    BY <2>9, <1>1, <1>3, <1>4, EndFewer DEF PoisonKills, rowVars, countVars, Dies
  <2>10. CASE RecordFailures(w)
    BY <2>10, <1>1, <1>3, <1>4, GoesFewer DEF RecordFailures, rowVars, countVars
  <2>11. CASE Reconcile(w)
    BY <2>11, <1>1, <1>3, <1>4, GoesFewer, EndFewer DEF Reconcile, rowVars, countVars
  <2>12. CASE CompleteBuild(w)
    BY <2>12, <1>1, <1>3, <1>4, EndFewer DEF CompleteBuild, rowVars
  <2>13. CASE FinishTask(w)
    BY <2>13, <1>1, <1>3, <1>4, DoneFewer DEF FinishTask, countVars, DeleteTask, RowTypeOK,
      Queued
  <2>14. CASE FailTask(w)
    BY <2>14, <1>1, <1>3, <1>4, DoneFewer, EndFewer DEF FailTask, countVars, ReleaseLock,
      DeleteTask, RowTypeOK, Queued
  <2>15. CASE GiveUpOnTask(w)
    BY <2>15, <1>1, <1>3, <1>4, GoesFewer, DoneFewer DEF GiveUpOnTask, countVars, DeleteTask,
      RowTypeOK, Queued
  <2>16. CASE GiveUpOnBuild(w)
    BY <2>16, <1>1, <1>3, <1>4, DoneFewer DEF GiveUpOnBuild, rowVars, countVars
  <2>17. CASE FatalDeletes(w)
    BY <2>17, <1>1, <1>3, <1>4, EndFewer DEF FatalDeletes, countVars, DeleteTask, RowTypeOK,
      Queued, Dies
  <2>18. QED
    BY <1>8, <2>1, <2>2, <2>3, <2>4, <2>5, <2>6, <2>7, <2>8, <2>9, <2>10, <2>11, <2>12, <2>13,
      <2>14, <2>15, <2>16, <2>17 DEF Handler
<1>9. ASSUME NEW w \in Workers, Fault(w) PROVE StartsInv'
  <2>1. CASE EnqueueReplyLost(w)
    <3>1. batches' = batches + 1 /\ UNCHANGED <<starts, attempts>> /\ Fewer
          /\ row' = [r \in Rows |-> IF r # Ingest /\ r[1] = batches' THEN "free" ELSE row[r]]
      BY <2>1, <1>1, GoesFewer DEF EnqueueReplyLost, InsertChunks
    <3>2. \A r \in Rows \ {Ingest} : r[1] = batches' => row[r] = "absent"
      BY <1>1, <3>1, RowsType DEF BatchInv, RowTypeOK
    <3>3. QED
      BY <1>3, <3>1, <3>2
  <2>2. CASE FinishFails(w)
    BY <2>2, <1>1, <1>3, <1>4, GoesFewer DEF FinishFails, rowVars, countVars
  <2>3. CASE FailTaskFails(w)
    BY <2>3, <1>1, <1>3, <1>4, EndFewer DEF FailTaskFails, rowVars, countVars
  <2>4. CASE GiveUpFails(w)
    BY <2>4, <1>1, <1>3, <1>4, DoneFewer DEF GiveUpFails, rowVars, countVars
  <2>5. CASE ChunkWedges(w)
    BY <2>5, <1>1, <1>3, <1>4, EndFewer DEF ChunkWedges, countVars, ReleaseLock, RowTypeOK,
      Queued, Dies
  <2>6. CASE InlineWedges(w)
    BY <2>6, <1>1, <1>3, <1>4, GoesFewer DEF InlineWedges, rowVars, countVars
  <2>7. CASE ReclaimErrs(w)
    BY <2>7, <1>1, <1>3, <1>4 DEF ReclaimErrs, rowVars, countVars
  <2>8. ASSUME NEW e \in {"transient", "permanent", "timeout"}, IngestErrs(w, e) PROVE StartsInv'
    BY <2>8, <1>1, <1>3, <1>4, GoesFewer DEF IngestErrs, rowVars, countVars
  <2>9. ASSUME NEW e \in {"transient", "permanent", "timeout"}, ChunkErrs(w, e) PROVE StartsInv'
    BY <2>9, <1>1, <1>3, <1>4, GoesFewer, DoneFewer DEF ChunkErrs, rowVars, countVars
  <2>10. QED
    BY <1>9, <2>1, <2>2, <2>3, <2>4, <2>5, <2>6, <2>7, <2>8, <2>9 DEF Fault
<1>10. ASSUME NEW w \in Workers, Sweep(w) PROVE StartsInv'
  <2>1. CASE SweepSelects(w)
    BY <2>1, <1>1, <1>3, <1>4 DEF SweepSelects, rowVars, countVars
  <2>2. CASE SweepFails(w)
    BY <2>2, <1>1, <1>3, <1>4 DEF SweepFails, rowVars, countVars
  <2>3. CASE SweepDeletes(w)
    BY <2>3, <1>1, <1>3, <1>4 DEF SweepDeletes, countVars, RowTypeOK, Queued
  <2>4. QED
    BY <1>10, <2>1, <2>2, <2>3 DEF Sweep
<1>11. ASSUME NEW w \in Workers, Shutdown(w) PROVE StartsInv'
  <2>1. CASE ShutdownReleases(w)
    BY <2>1, <1>1, <1>3, <1>4 DEF ShutdownReleases, rowVars, countVars, ReleaseLock, RowTypeOK,
      Queued
  <2>2. CASE ShutdownResets(w)
    BY <2>2, <1>1, <1>3, <1>4 DEF ShutdownResets, rowVars, countVars
  <2>3. CASE ShutdownExits(w)
    BY <2>3, <1>1, <1>3, <1>4, EndFewer DEF ShutdownExits, rowVars, countVars, Dies
  <2>4. QED
    BY <1>11, <2>1, <2>2, <2>3 DEF Shutdown
<1>12. ASSUME NEW w \in Workers, Reclaim(w) PROVE StartsInv'
  <2>1. CASE ReclaimUnlocks(w)
    BY <2>1, <1>1, <1>3, <1>4 DEF ReclaimUnlocks, countVars, ReleaseLock, RowTypeOK, Queued
  <2>2. CASE ReclaimRequeues(w)
    BY <2>2, <1>1, <1>3, <1>4 DEF ReclaimRequeues, rowVars, countVars
  <2>3. CASE ReclaimFails(w)
    BY <2>3, <1>1, <1>3, <1>4 DEF ReclaimFails, rowVars, countVars
  <2>4. CASE ReclaimDeletes(w)
    BY <2>4, <1>1, <1>3, <1>4 DEF ReclaimDeletes, countVars, DeleteTask, RowTypeOK, Queued
  <2>5. QED
    BY <1>12, <2>1, <2>2, <2>3, <2>4 DEF Reclaim
<1>13. ASSUME NEW w \in Workers, HandleShutdownSignal(w) PROVE StartsInv'
  BY <1>13, <1>1, <1>3, <1>4 DEF HandleShutdownSignal, rowVars, countVars
<1>14. ASSUME NEW w \in Workers, Crash(w) PROVE StartsInv'
  BY <1>14, <1>1, <1>3, <1>4, EndFewer DEF Crash, rowVars, countVars, Dies
<1>15. ASSUME NEW w \in Workers, Boot(w) PROVE StartsInv'
  BY <1>15, <1>1, <1>3, <1>4 DEF Boot, rowVars, countVars
<1>16. QED
  BY <1>5, <1>6, <1>7, <1>8, <1>9, <1>10, <1>11, <1>12, <1>13, <1>14, <1>15 DEF Next

----------------------------------------------------------------------------
(* Failed builds.                                                          *)

\* What FailedNotFinished says of a step.
StaysFailed == build.status = "failed" => build'.status # "ready"

\* No step of a large build turns it from failed to ready.
LEMMA FailedStays ==
  ASSUME IInv, Next, size = "large"
  PROVE  StaysFailed
<1>1. build \in Copies
  BY DEF IInv, TypeOK, BuildTypeOK
<1>2. CASE TimePasses
  BY <1>2, <1>1 DEF TimePasses, StaysFailed
<1>3. ASSUME NEW r \in Rows, LockExpires(r) PROVE StaysFailed
  BY <1>3, <1>1 DEF LockExpires, StaysFailed, buildVars
<1>4. ASSUME NEW w \in Workers, NEW r \in Rows, ClaimTask(w, r) PROVE StaysFailed
  BY <1>4, <1>1 DEF ClaimTask, StaysFailed, buildVars
<1>5. ASSUME NEW w \in Workers, Handler(w) PROVE StaysFailed
  <2>1. CASE IngestLoads(w)
    BY <2>1, <1>1 DEF IngestLoads, StaysFailed, buildVars
  <2>2. CASE SaveReads(w)
    BY <2>2, <1>1 DEF SaveReads, StaysFailed, buildVars
  <2>3. CASE SaveWrites(w)
    <3>1. build'.status = IF "status" \in saving[w] THEN mem[w].status ELSE build.status
      BY <2>3, <1>1 DEF SaveWrites, Copies, Columns
    <3>2. mem[w].status # "ready"
      BY <2>3 DEF SaveWrites, Saves, IInv, CopyInv
    <3>3. QED
      BY <3>1, <3>2 DEF StaysFailed
  <2>4. CASE EnqueueRenderChunks(w)
    BY <2>4, <1>1 DEF EnqueueRenderChunks, StaysFailed, buildVars
  <2>5. CASE InlineRenders(w)
    BY <2>5, <1>1 DEF InlineRenders, StaysFailed, buildVars
  <2>6. CASE ChunkLoads(w)
    BY <2>6, <1>1 DEF ChunkLoads, StaysFailed, buildVars
  <2>7. CASE CheckBudget(w)
    BY <2>7, <1>1 DEF CheckBudget, StaysFailed, buildVars
  <2>8. CASE RenderChunk(w)
    BY <2>8, <1>1 DEF RenderChunk, StaysFailed, buildVars
  <2>9. CASE PoisonKills(w)
    BY <2>9, <1>1 DEF PoisonKills, StaysFailed, buildVars, Dies
  <2>10. CASE RecordFailures(w)
    BY <2>10, <1>1 DEF RecordFailures, StaysFailed, buildVars
  <2>11. CASE Reconcile(w)
    BY <2>11, <1>1 DEF Reconcile, StaysFailed, buildVars, Becomes, Copies, Complete
  <2>12. CASE CompleteBuild(w)
    BY <2>12, <1>1 DEF CompleteBuild, StaysFailed, buildVars
  <2>13. CASE FinishTask(w)
    BY <2>13, <1>1 DEF FinishTask, StaysFailed, buildVars
  <2>14. CASE FailTask(w)
    BY <2>14, <1>1 DEF FailTask, StaysFailed, buildVars
  <2>15. CASE GiveUpOnTask(w)
    BY <2>15, <1>1 DEF GiveUpOnTask, StaysFailed, buildVars
  <2>16. CASE GiveUpOnBuild(w)
    BY <2>16, <1>1 DEF GiveUpOnBuild, StaysFailed, buildVars, Becomes, Copies
  <2>17. CASE FatalDeletes(w)
    BY <2>17, <1>1 DEF FatalDeletes, StaysFailed, buildVars, Dies
  <2>18. QED
    BY <1>5, <2>1, <2>2, <2>3, <2>4, <2>5, <2>6, <2>7, <2>8, <2>9, <2>10, <2>11, <2>12, <2>13,
      <2>14, <2>15, <2>16, <2>17 DEF Handler
<1>6. ASSUME NEW w \in Workers, Fault(w) PROVE StaysFailed
  <2>1. CASE EnqueueReplyLost(w)
    BY <2>1, <1>1 DEF EnqueueReplyLost, StaysFailed, buildVars
  <2>2. CASE FinishFails(w)
    BY <2>2, <1>1 DEF FinishFails, StaysFailed, buildVars
  <2>3. CASE FailTaskFails(w)
    BY <2>3, <1>1 DEF FailTaskFails, StaysFailed, buildVars
  <2>4. CASE GiveUpFails(w)
    BY <2>4, <1>1 DEF GiveUpFails, StaysFailed, buildVars
  <2>5. CASE ChunkWedges(w)
    BY <2>5, <1>1 DEF ChunkWedges, StaysFailed, buildVars, Dies
  <2>6. CASE InlineWedges(w)
    BY <2>6, <1>1 DEF InlineWedges, StaysFailed, buildVars, Becomes, Copies
  <2>7. CASE ReclaimErrs(w)
    BY <2>7, <1>1 DEF ReclaimErrs, StaysFailed, buildVars
  <2>8. ASSUME NEW e \in {"transient", "permanent", "timeout"}, IngestErrs(w, e) PROVE StaysFailed
    BY <2>8, <1>1 DEF IngestErrs, StaysFailed, buildVars
  <2>9. ASSUME NEW e \in {"transient", "permanent", "timeout"}, ChunkErrs(w, e) PROVE StaysFailed
    BY <2>9, <1>1 DEF ChunkErrs, StaysFailed, buildVars
  <2>10. QED
    BY <1>6, <2>1, <2>2, <2>3, <2>4, <2>5, <2>6, <2>7, <2>8, <2>9 DEF Fault
<1>7. ASSUME NEW w \in Workers, Sweep(w) PROVE StaysFailed
  <2>1. CASE SweepSelects(w)
    BY <2>1, <1>1 DEF SweepSelects, StaysFailed, buildVars
  <2>2. CASE SweepFails(w)
    BY <2>2, <1>1 DEF SweepFails, StaysFailed, buildVars, Becomes, Copies
  <2>3. CASE SweepDeletes(w)
    BY <2>3, <1>1 DEF SweepDeletes, StaysFailed, buildVars
  <2>4. QED
    BY <1>7, <2>1, <2>2, <2>3 DEF Sweep
<1>8. ASSUME NEW w \in Workers, Shutdown(w) PROVE StaysFailed
  <2>1. CASE ShutdownReleases(w)
    BY <2>1, <1>1 DEF ShutdownReleases, StaysFailed, buildVars
  <2>2. CASE ShutdownResets(w)
    BY <2>2, <1>1 DEF ShutdownResets, StaysFailed, buildVars, Becomes, Copies
  <2>3. CASE ShutdownExits(w)
    BY <2>3, <1>1 DEF ShutdownExits, StaysFailed, buildVars, Dies
  <2>4. QED
    BY <1>8, <2>1, <2>2, <2>3 DEF Shutdown
<1>9. ASSUME NEW w \in Workers, Reclaim(w) PROVE StaysFailed
  <2>1. CASE ReclaimUnlocks(w)
    BY <2>1, <1>1 DEF ReclaimUnlocks, StaysFailed, buildVars
  <2>2. CASE ReclaimRequeues(w)
    BY <2>2, <1>1 DEF ReclaimRequeues, StaysFailed, buildVars, Becomes, Copies
  <2>3. CASE ReclaimFails(w)
    BY <2>3, <1>1 DEF ReclaimFails, StaysFailed, buildVars, Becomes, Copies
  <2>4. CASE ReclaimDeletes(w)
    BY <2>4, <1>1 DEF ReclaimDeletes, StaysFailed, buildVars
  <2>5. QED
    BY <1>9, <2>1, <2>2, <2>3, <2>4 DEF Reclaim
<1>10. ASSUME NEW w \in Workers, HandleShutdownSignal(w) PROVE StaysFailed
  BY <1>10, <1>1 DEF HandleShutdownSignal, StaysFailed, buildVars
<1>11. ASSUME NEW w \in Workers, Crash(w) PROVE StaysFailed
  BY <1>11, <1>1 DEF Crash, StaysFailed, buildVars, Dies
<1>12. ASSUME NEW w \in Workers, Boot(w) PROVE StaysFailed
  BY <1>12, <1>1 DEF Boot, StaysFailed, buildVars
<1>13. QED
  BY <1>2, <1>3, <1>4, <1>5, <1>6, <1>7, <1>8, <1>9, <1>10, <1>11, <1>12 DEF Next

----------------------------------------------------------------------------
(* The theorems.                                                           *)

\* The upload leaves the build in a state that satisfies the invariant.
LEMMA InitIInv ==
  ASSUME Init
  PROVE  IInv
<1>1. NoCopy \in Copies /\ NoCopy.status = "pending"
  BY DEF NoCopy, Copies, Statuses
<1>2. BuildTypeOK
  BY <1>1 DEF Init, BuildTypeOK
<1>3. RowTypeOK
  BY BuildAssumption DEF Init, RowTypeOK
<1>4. WorkTypeOK
  BY <1>1 DEF Init, WorkTypeOK, Steps, Errors
<1>5. ModeTypeOK
  BY BuildAssumption DEF Init, ModeTypeOK
<1>6. EnvTypeOK
  BY BuildAssumption DEF Init, EnvTypeOK
<1>7. TaskInv
  BY RowsType DEF Init, TaskInv, IngestSteps, ChunkSteps
<1>8. ErrInv /\ SavingInv /\ CopyInv
  BY DEF Init, ErrInv, SavingInv, CopyInv
<1>9. ResultsInv
  BY <1>1 DEF Init, ResultsInv, FinishedIsComplete
<1>10. BatchInv
  BY RowsType DEF Init, BatchInv
<1>11. StartsInv
  <2>1. \A r \in Rows : Beginning(r) = {}
    BY DEF Init, Beginning
  <2>2. Cardinality({}) = 0
    BY FS_EmptySet
  <2>3. \A r \in Rows : starts[r] = 0 /\ attempts[r] = 0
    BY DEF Init
  <2>4. MaxTaskAttempts \in Nat
    BY BuildAssumption
  <2>5. QED
    BY <2>1, <2>2, <2>3, <2>4 DEF StartsInv
<1>12. QED
  BY <1>2, <1>3, <1>4, <1>5, <1>6, <1>7, <1>8, <1>9, <1>10, <1>11 DEF IInv, TypeOK

\* A step that changes nothing keeps the invariant.
LEMMA StutterIInv ==
  ASSUME IInv, UNCHANGED vars
  PROVE  IInv'
<1> USE DEF vars, buildVars, rowVars, workVars, countVars, envVars
<1>1. TypeOK'
  BY DEF IInv, TypeOK, BuildTypeOK, RowTypeOK, WorkTypeOK, ModeTypeOK, EnvTypeOK
<1>2. TaskInv' /\ ErrInv' /\ ResultsInv' /\ BatchInv' /\ SavingInv' /\ CopyInv'
  BY DEF IInv, TaskInv, ErrInv, ResultsInv, FinishedIsComplete, BatchInv, SavingInv, CopyInv
<1>3. StartsInv'
  <2>1. \A r \in Rows : Beginning(r)' = Beginning(r)
    BY DEF Beginning
  <2>2. QED
    BY <2>1 DEF IInv, StartsInv
<1>4. QED
  BY <1>1, <1>2, <1>3 DEF IInv

\* The invariant holds of every behaviour, for any number of workers and chunks and
\* any bound on batches, claims, retries, crashes, signals and faults.
THEOREM BuildInvariance == Spec => []IInv
<1>1. Init => IInv
  BY InitIInv
<1>2. IInv /\ [Next]_vars => IInv'
  <2>1. ASSUME IInv, Next PROVE IInv'
    BY <2>1, Typed, TaskHeld, ErrorsFit, BatchesFit, ResultsHeld, SavingHeld, CopiesHeld,
       StartsHeld DEF IInv
  <2>2. QED
    BY <2>1, StutterIInv
<1>3. QED
  BY <1>1, <1>2, PTL DEF Spec

\* Every variable keeps its type.
THEOREM BuildTypeCorrect == Spec => []TypeOK
<1>1. IInv => TypeOK
  BY DEF IInv
<1>2. QED
  BY <1>1, BuildInvariance, PTL

\* A build shown as finished has all its results, however ingests, chunks, stale
\* copies, retries, the sweeper, shutdowns and restarts interleave.
THEOREM FinishedComplete == Spec => []FinishedIsComplete
<1>1. IInv => FinishedIsComplete
  BY DEF IInv, ResultsInv
<1>2. QED
  BY <1>1, BuildInvariance, PTL

\* A chunk row is never rendered more often than its budget of claims while it is
\* queued, over any number of crashes, lost locks and retries.
THEOREM RendersBounded == Spec => []StartsBounded
<1>1. IInv => StartsBounded
  <2> SUFFICES ASSUME IInv, NEW r \in Rows, row[r] # "gone"
               PROVE  ~(starts[r] > MaxTaskAttempts)
    BY DEF StartsBounded
  <2>1. starts[r] <= MaxTaskAttempts /\ starts[r] \in Nat /\ MaxTaskAttempts \in Nat
    BY BuildAssumption DEF IInv, StartsInv, TypeOK, RowTypeOK
  <2>2. QED
    BY <2>1
<1>2. QED
  BY <1>1, BuildInvariance, PTL

\* A large build that has been failed is never turned into a finished one by the
\* chunks, copies and retries that are still on their way.
THEOREM FailedForGood ==
  ASSUME Sizes = {"large"}
  PROVE  Spec => FailedNotFinished
<1>1. IInv /\ [Next]_vars => [StaysFailed]_vars
  <2>1. ASSUME IInv, Next PROVE StaysFailed
    <3>1. size = "large"
      BY <2>1 DEF IInv, TypeOK, EnvTypeOK
    <3>2. QED
      BY <2>1, <3>1, FailedStays
  <2>2. QED
    BY <2>1
<1>2. Spec => [][StaysFailed]_vars
  BY <1>1, BuildInvariance, PTL DEF Spec
<1>3. QED
  BY <1>2 DEF FailedNotFinished, StaysFailed

----------------------------------------------------------------------------
(***************************************************************************)
(* A build rendered by chunks implements BuildLife: the initial state maps *)
(* to the initial one, and every step of ShardedBuild to a step of         *)
(* BuildLife or a stutter.  The invariant is needed for what a save writes *)
(* (CopyInv: never "ready") and for the row a poster holds (TaskInv and    *)
(* ErrInv).                                                                *)
(***************************************************************************)

\* What a step of ShardedBuild must look like from outside.
LifeStep == [Life!Next]_(Life!vars)

\* The changes of the status that anybody may make at any time.
StatusMoves ==
  \/ build'.status = build.status
  \/ build'.status \in {"running", "failed"}
  \/ build.status = "running" /\ build'.status = "pending"

----------------------------------------------------------------------------
(* What is seen of the steps.                                              *)

\* A change of the status alone is a step of BuildLife, none is a stutter.
LEMMA StatusSeen ==
  ASSUME StatusMoves, results' = results, completed' = completed, Posting' = Posting
  PROVE  LifeStep
<1>1. CASE build'.status = build.status
  BY <1>1 DEF LifeStep, Life!vars
<1>2. CASE build'.status = "running"
  BY <1>2 DEF LifeStep, Life!Next, Life!Runs
<1>3. CASE build'.status = "failed"
  BY <1>3 DEF LifeStep, Life!Next, Life!Fails
<1>4. CASE build.status = "running" /\ build'.status = "pending"
  BY <1>4 DEF LifeStep, Life!Next, Life!Requeues
<1>5. QED
  BY <1>1, <1>2, <1>3, <1>4 DEF StatusMoves

\* So is a result that comes in.
LEMMA ResultsSeen ==
  ASSUME build' = build, results \subseteq results', results' \subseteq Chunks,
         completed' = completed, Posting' = Posting
  PROVE  LifeStep
BY DEF LifeStep, Life!Next, Life!Records

\* A worker that leaves without posting forgets its post, if it had one to make.
LEMMA LeavingSeen ==
  ASSUME NEW w \in Workers, build' = build, results' = results, completed' = completed,
         Posting' = Posting \ {w}
  PROVE  LifeStep
<1>1. CASE w \in Posting
  BY <1>1 DEF LifeStep, Life!Next, Life!Forgets
<1>2. CASE w \notin Posting
  <2>1. Posting' = Posting
    BY <1>2
  <2>2. QED
    BY <2>1, StatusSeen DEF StatusMoves
<1>3. QED
  BY <1>1, <1>2

\* A handler that goes on to another step than the post, ends, or dies has no post to make.
LEMMA GoesPosting ==
  ASSUME WorkTypeOK, NEW w \in Workers, NEW s, NEW e, Goes(w, s, e), s # "post"
  PROVE  Posting' = Posting \ {w}
BY DEF Goes, WorkTypeOK, Posting

\* Nor has a handler that is done.
LEMMA DonePosting ==
  ASSUME WorkTypeOK, NEW w \in Workers, Done(w)
  PROVE  Posting' = Posting \ {w}
BY DEF Done, WorkTypeOK, Posting

\* However a handler ends, it has no post to make.
LEMMA EndPosting ==
  ASSUME WorkTypeOK, NEW w \in Workers, Continues(w) \/ Books(w) \/ Dies(w)
  PROVE  Posting' = Posting \ {w}
BY GoesPosting, DonePosting DEF Continues, Books, Dies

----------------------------------------------------------------------------
(* The steps.                                                              *)

\* Every step of a large build is one of BuildLife, or is not seen.
LEMMA StepsSeen ==
  ASSUME IInv, Next, size = "large"
  PROVE  LifeStep
<1>1. /\ WorkTypeOK /\ build \in Copies /\ results \subseteq Chunks
      /\ TaskInv /\ ErrInv /\ CopyInv
  BY DEF IInv, TypeOK, BuildTypeOK
<1>2. UNCHANGED workVars => Posting' = Posting
  BY DEF workVars, Posting
<1>3. CASE TimePasses
  BY <1>3, <1>2, StatusSeen DEF TimePasses, StatusMoves, countVars
<1>4. ASSUME NEW r \in Rows, LockExpires(r) PROVE LifeStep
  BY <1>4, <1>2, StatusSeen DEF LockExpires, StatusMoves, buildVars, countVars
<1>5. ASSUME NEW w \in Workers, NEW r \in Rows, ClaimTask(w, r) PROVE LifeStep
  <2>1. Posting' = Posting \ {w}
    BY <1>5, <1>1 DEF ClaimTask, WorkTypeOK, Posting
  <2>2. QED
    BY <1>5, <2>1, LeavingSeen DEF ClaimTask, buildVars, countVars
<1>6. ASSUME NEW w \in Workers, Handler(w) PROVE LifeStep
  <2>1. CASE IngestLoads(w)
    <3>1. Posting' = Posting \ {w}
      BY <2>1, <1>1 DEF IngestLoads, WorkTypeOK, Posting
    <3>2. QED
      BY <2>1, <3>1, LeavingSeen DEF IngestLoads, buildVars, countVars
  <2>2. CASE SaveReads(w)
    <3>1. Posting' = Posting
      BY <2>2 DEF SaveReads, Posting
    <3>2. QED
      BY <2>2, <3>1, StatusSeen DEF SaveReads, StatusMoves, buildVars, countVars
  <2>3. CASE SaveWrites(w)
    <3>1. build'.status = IF "status" \in saving[w] THEN mem[w].status ELSE build.status
      BY <2>3, <1>1 DEF SaveWrites, Copies, Columns
    <3>2. pc[w] \in {"mark", "discover", "handoff", "abort"}
      BY <2>3, <1>1 DEF SaveWrites, Saves, CopyInv
    <3>3. mem[w].status \in {"running", "failed"}
      BY <2>3, <1>1, <3>2 DEF SaveWrites, CopyInv
    <3>4. StatusMoves
      BY <3>1, <3>3 DEF StatusMoves
    <3>5. Following(pc[w]) # "post"
      BY <3>2 DEF Following
    <3>6. Posting' = Posting \ {w} /\ w \notin Posting
      BY <2>3, <1>1, <3>2, <3>5, GoesPosting DEF SaveWrites, Posting
    <3>7. QED
      BY <2>3, <3>4, <3>6, StatusSeen DEF SaveWrites, countVars
  <2>4. CASE EnqueueRenderChunks(w)
    <3>1. Posting' = Posting \ {w}
      BY <2>4, <1>1, GoesPosting DEF EnqueueRenderChunks
    <3>2. QED
      BY <2>4, <3>1, LeavingSeen DEF EnqueueRenderChunks, buildVars, countVars
  <2>5. CASE InlineRenders(w)
    BY <2>5, <1>1 DEF InlineRenders, CopyInv
  <2>6. CASE ChunkLoads(w)
    <3>1. Posting' = Posting \ {w}
      BY <2>6, <1>1, GoesPosting DEF ChunkLoads
    <3>2. QED
      BY <2>6, <3>1, LeavingSeen DEF ChunkLoads, buildVars, countVars
  <2>7. CASE CheckBudget(w)
    <3>1. Posting' = Posting \ {w}
      BY <2>7, <1>1, GoesPosting DEF CheckBudget
    <3>2. QED
      BY <2>7, <3>1, LeavingSeen DEF CheckBudget, buildVars, countVars
  <2>8. CASE RenderChunk(w)
    <3>1. Posting' = Posting \ {w} /\ w \notin Posting
      BY <2>8, <1>1, GoesPosting DEF RenderChunk, Posting
    <3>2. results' \subseteq Chunks
      BY <2>8, <1>1, ChunkOfType DEF RenderChunk, TaskInv, ChunkSteps
    <3>3. QED
      BY <2>8, <3>1, <3>2, <1>1, ResultsSeen DEF RenderChunk, buildVars, countVars
  <2>9. CASE PoisonKills(w)
    <3>1. Posting' = Posting \ {w}
      BY <2>9, <1>1, EndPosting DEF PoisonKills
    <3>2. QED
      BY <2>9, <3>1, LeavingSeen DEF PoisonKills, buildVars, countVars, Dies
  <2>10. CASE RecordFailures(w)
    <3>1. Posting' = Posting \ {w} /\ w \notin Posting
      BY <2>10, <1>1, GoesPosting DEF RecordFailures, Posting
    <3>2. results' \subseteq Chunks
      BY <2>10, <1>1, ChunkOfType DEF RecordFailures, TaskInv, ChunkSteps
    <3>3. QED
      BY <2>10, <3>1, <3>2, <1>1, ResultsSeen DEF RecordFailures, buildVars, countVars
  <2>11. CASE Reconcile(w)
    <3>1. CASE Complete
      <4>1. Posting' = Posting \cup {w} /\ w \notin Posting
        BY <2>11, <3>1, <1>1 DEF Reconcile, Goes, Posting, WorkTypeOK
      <4>2. build'.status = "ready"
        BY <2>11, <3>1, <1>1 DEF Reconcile, Becomes, Copies
      <4>3. build.status = "running" /\ results = Chunks /\ results' = results
            /\ completed' = completed
        BY <2>11, <3>1 DEF Reconcile, Complete, countVars
      <4>4. Life!Finishes(w)
        BY <4>1, <4>2, <4>3 DEF Life!Finishes
      <4>5. QED
        BY <4>4 DEF LifeStep, Life!Next
    <3>2. CASE ~Complete
      <4>1. Posting' = Posting \ {w}
        BY <2>11, <3>2, <1>1, EndPosting DEF Reconcile
      <4>2. QED
        BY <2>11, <3>2, <4>1, LeavingSeen DEF Reconcile, buildVars, countVars
    <3>3. QED
      BY <3>1, <3>2
  <2>12. CASE CompleteBuild(w)
    <3>1. Posting' = Posting \ {w} /\ w \in Posting
      BY <2>12, <1>1, EndPosting DEF CompleteBuild, Posting
    <3>2. build' = build /\ results' = results /\ completed' = completed + 1
      BY <2>12 DEF CompleteBuild, buildVars
    <3>3. Life!Posts(w)
      BY <3>1, <3>2 DEF Life!Posts
    <3>4. QED
      BY <3>3 DEF LifeStep, Life!Next
  <2>13. CASE FinishTask(w)
    <3>1. Posting' = Posting \ {w}
      BY <2>13, <1>1, DonePosting DEF FinishTask
    <3>2. QED
      BY <2>13, <3>1, LeavingSeen DEF FinishTask, buildVars, countVars
  <2>14. CASE FailTask(w)
    <3>1. Posting' = Posting \ {w}
      BY <2>14, <1>1, DonePosting, EndPosting DEF FailTask
    <3>2. QED
      BY <2>14, <3>1, LeavingSeen DEF FailTask, buildVars, countVars
  <2>15. CASE GiveUpOnTask(w)
    <3>1. Posting' = Posting \ {w}
      BY <2>15, <1>1, DonePosting, GoesPosting DEF GiveUpOnTask
    <3>2. QED
      BY <2>15, <3>1, LeavingSeen DEF GiveUpOnTask, buildVars, countVars
  <2>16. CASE GiveUpOnBuild(w)
    <3>1. StatusMoves
      BY <2>16, <1>1 DEF GiveUpOnBuild, StatusMoves, Becomes, Copies, buildVars
    <3>2. Posting' = Posting \ {w} /\ w \notin Posting
      BY <2>16, <1>1, DonePosting DEF GiveUpOnBuild, Posting
    <3>3. QED
      BY <2>16, <3>1, <3>2, StatusSeen DEF GiveUpOnBuild, countVars
  <2>17. CASE FatalDeletes(w)
    <3>1. Posting' = Posting \ {w}
      BY <2>17, <1>1, EndPosting DEF FatalDeletes
    <3>2. QED
      BY <2>17, <3>1, LeavingSeen DEF FatalDeletes, buildVars, countVars, Dies
  <2>18. QED
    BY <1>6, <2>1, <2>2, <2>3, <2>4, <2>5, <2>6, <2>7, <2>8, <2>9, <2>10, <2>11, <2>12, <2>13,
      <2>14, <2>15, <2>16, <2>17 DEF Handler
<1>7. ASSUME NEW w \in Workers, Fault(w) PROVE LifeStep
  <2>1. CASE EnqueueReplyLost(w)
    <3>1. Posting' = Posting \ {w}
      BY <2>1, <1>1, GoesPosting DEF EnqueueReplyLost
    <3>2. QED
      BY <2>1, <3>1, LeavingSeen DEF EnqueueReplyLost, buildVars, countVars
  <2>2. CASE FinishFails(w)
    <3>1. Posting' = Posting \ {w}
      BY <2>2, <1>1, GoesPosting DEF FinishFails
    <3>2. QED
      BY <2>2, <3>1, LeavingSeen DEF FinishFails, buildVars, countVars
  <2>3. CASE FailTaskFails(w)
    <3>1. Posting' = Posting \ {w}
      BY <2>3, <1>1, EndPosting DEF FailTaskFails
    <3>2. QED
      BY <2>3, <3>1, LeavingSeen DEF FailTaskFails, buildVars, countVars
  <2>4. CASE GiveUpFails(w)
    <3>1. Posting' = Posting \ {w}
      BY <2>4, <1>1, DonePosting DEF GiveUpFails
    <3>2. QED
      BY <2>4, <3>1, LeavingSeen DEF GiveUpFails, buildVars, countVars
  <2>5. CASE ChunkWedges(w)
    <3>1. Posting' = Posting \ {w}
      BY <2>5, <1>1, EndPosting DEF ChunkWedges
    <3>2. QED
      BY <2>5, <3>1, LeavingSeen DEF ChunkWedges, buildVars, countVars, Dies
  <2>6. CASE InlineWedges(w)
    BY <2>6, <1>1 DEF InlineWedges, CopyInv
  <2>7. CASE ReclaimErrs(w)
    BY <2>7, <1>2, StatusSeen DEF ReclaimErrs, StatusMoves, buildVars, countVars
  <2>8. ASSUME NEW e \in {"transient", "permanent", "timeout"}, IngestErrs(w, e) PROVE LifeStep
    <3>1. Posting' = Posting \ {w}
      BY <2>8, <1>1, GoesPosting DEF IngestErrs
    <3>2. QED
      BY <2>8, <3>1, LeavingSeen DEF IngestErrs, buildVars, countVars
  <2>9. ASSUME NEW e \in {"transient", "permanent", "timeout"}, ChunkErrs(w, e) PROVE LifeStep
    <3>1. Posting' = Posting \ {w}
      BY <2>9, <1>1, GoesPosting, DonePosting DEF ChunkErrs
    <3>2. QED
      BY <2>9, <3>1, LeavingSeen DEF ChunkErrs, buildVars, countVars
  <2>10. QED
    BY <1>7, <2>1, <2>2, <2>3, <2>4, <2>5, <2>6, <2>7, <2>8, <2>9 DEF Fault
<1>8. ASSUME NEW w \in Workers, Sweep(w) PROVE LifeStep
  <2>1. CASE SweepSelects(w)
    BY <2>1, <1>2, StatusSeen DEF SweepSelects, StatusMoves, buildVars, countVars
  <2>2. CASE SweepFails(w)
    <3>1. StatusMoves
      BY <2>2, <1>1 DEF SweepFails, StatusMoves, Becomes, Copies, buildVars, InFlight
    <3>2. QED
      BY <2>2, <1>2, <3>1, StatusSeen DEF SweepFails, countVars
  <2>3. CASE SweepDeletes(w)
    BY <2>3, <1>2, StatusSeen DEF SweepDeletes, StatusMoves, buildVars, countVars
  <2>4. QED
    BY <1>8, <2>1, <2>2, <2>3 DEF Sweep
<1>9. ASSUME NEW w \in Workers, Shutdown(w) PROVE LifeStep
  <2>1. CASE ShutdownReleases(w)
    BY <2>1, <1>2, StatusSeen DEF ShutdownReleases, StatusMoves, buildVars, countVars
  <2>2. CASE ShutdownResets(w)
    <3>1. StatusMoves
      BY <2>2, <1>1 DEF ShutdownResets, StatusMoves, Becomes, Copies, buildVars, InFlight
    <3>2. QED
      BY <2>2, <1>2, <3>1, StatusSeen DEF ShutdownResets, countVars
  <2>3. CASE ShutdownExits(w)
    <3>1. Posting' = Posting \ {w}
      BY <2>3, <1>1, EndPosting DEF ShutdownExits
    <3>2. QED
      BY <2>3, <3>1, LeavingSeen DEF ShutdownExits, buildVars, countVars, Dies
  <2>4. QED
    BY <1>9, <2>1, <2>2, <2>3 DEF Shutdown
<1>10. ASSUME NEW w \in Workers, Reclaim(w) PROVE LifeStep
  <2>1. CASE ReclaimUnlocks(w)
    BY <2>1, <1>2, StatusSeen DEF ReclaimUnlocks, StatusMoves, buildVars, countVars
  <2>2. CASE ReclaimRequeues(w)
    <3>1. StatusMoves
      BY <2>2, <1>1 DEF ReclaimRequeues, StatusMoves, Becomes, Copies, buildVars, InFlight
    <3>2. QED
      BY <2>2, <1>2, <3>1, StatusSeen DEF ReclaimRequeues, countVars
  <2>3. CASE ReclaimFails(w)
    <3>1. StatusMoves
      BY <2>3, <1>1 DEF ReclaimFails, StatusMoves, Becomes, Copies, buildVars, InFlight
    <3>2. QED
      BY <2>3, <1>2, <3>1, StatusSeen DEF ReclaimFails, countVars
  <2>4. CASE ReclaimDeletes(w)
    BY <2>4, <1>2, StatusSeen DEF ReclaimDeletes, StatusMoves, buildVars, countVars
  <2>5. QED
    BY <1>10, <2>1, <2>2, <2>3, <2>4 DEF Reclaim
<1>11. ASSUME NEW w \in Workers, HandleShutdownSignal(w) PROVE LifeStep
  BY <1>11, <1>2, StatusSeen DEF HandleShutdownSignal, StatusMoves, buildVars, countVars
<1>12. ASSUME NEW w \in Workers, Crash(w) PROVE LifeStep
  <2>1. Posting' = Posting \ {w}
    BY <1>12, <1>1, EndPosting DEF Crash
  <2>2. QED
    BY <1>12, <2>1, LeavingSeen DEF Crash, Dies, buildVars, countVars
<1>13. ASSUME NEW w \in Workers, Boot(w) PROVE LifeStep
  BY <1>13, <1>2, StatusSeen DEF Boot, StatusMoves, buildVars, countVars
<1>14. QED
  BY <1>3, <1>4, <1>5, <1>6, <1>7, <1>8, <1>9, <1>10, <1>11, <1>12, <1>13 DEF Next

----------------------------------------------------------------------------
(* The theorem.                                                            *)

\* ShardedBuild implements BuildLife for builds rendered by chunks, for any workers,
\* chunks and bounds: whatever interleaves, a build becomes ready only while running and
\* complete, and exactly the worker whose reconcile made it so may post, once.
THEOREM PromiseKept ==
  ASSUME Sizes = {"large"}
  PROVE  Spec => KeepsPromise
<1>1. Init => Life!Init
  <2> SUFFICES ASSUME Init PROVE Life!Init
    OBVIOUS
  <2>1. build.status = "pending"
    BY DEF Init, NoCopy
  <2>2. Posting = {}
    BY DEF Init, Posting
  <2>3. QED
    BY <2>1, <2>2 DEF Init, Life!Init
<1>2. IInv /\ [Next]_vars => LifeStep
  <2>1. ASSUME IInv, Next PROVE LifeStep
    <3>1. size = "large"
      BY <2>1 DEF IInv, TypeOK, EnvTypeOK
    <3>2. QED
      BY <2>1, <3>1, StepsSeen
  <2>2. ASSUME UNCHANGED vars PROVE LifeStep
    BY <2>2 DEF vars, buildVars, countVars, workVars, LifeStep, Life!vars, Posting
  <2>3. QED
    BY <2>1, <2>2
<1>3. IInv /\ [Next]_vars => [Life!Next]_(Life!vars)
  BY <1>2 DEF LifeStep
<1>4. Spec => Life!Spec
  BY <1>1, <1>3, BuildInvariance, PTL DEF Spec, Life!Spec
<1>5. QED
  BY <1>4 DEF KeepsPromise
=============================================================================
