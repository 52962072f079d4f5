-------------------------- MODULE OneWorkerProofs --------------------------
(***************************************************************************)
(* Proofs about ShardedBuild for a deployment of one worker that crashes,  *)
(* for any number of chunks, claims and crashes and any poison: a build is *)
(* never stranded, and its result is posted once per run of its ingest.    *)
(*                                                                         *)
(* With a second worker neither holds.  The run "handoff" shows how a      *)
(* build is stranded; a result is posted once too often when the ingest of *)
(* a build is rerun while a chunk of its first batch is at its reconcile.  *)
(* Nor does the first hold with a chunk that is dropped for an error, or a *)
(* signal that comes while the ingest hands over.  What is left is not     *)
(* sequential: a crash may come at any step, and the rows, the build and   *)
(* the next start disagree then.                                           *)
(***************************************************************************)
EXTENDS ShardedBuildProofs

\* One worker, no failed statement, no signal, no row as old as the sweeper's thresholds; a
\* build with a chunk at least, as every large build has (WORKER_SHARD_MIN_STORIES).
OneWorker ==
  /\ \E w : Workers = {w}
  /\ MaxFaults = 0 /\ MaxSignals = 0 /\ PromptClaims /\ Chunks # {}

(***************************************************************************)
(* The inductive invariant.                                                *)
(***************************************************************************)

\* Nothing fails and nobody shuts down: a worker is up, or at a stage of its restart.
SoundInv ==
  \A w \in Workers :
    /\ err[w] = "none" /\ pc[w] \notin {"abort", "fatal", "error", "giveup", "givefail"}
    /\ mode[w] \in {"up", "down", "boot", "unlocked", "condemned"}
    /\ mode[w] # "up" => task[w] = NoRow

\* The row the worker works on is locked, and no row is left when a threshold has passed.
HeldInv ==
  /\ \A w \in Workers : task[w] \in Rows => row[task[w]] = "locked" /\ by[task[w]] = w
  /\ "old" \in {beat, updated} => /\ \A r \in Rows : ~Queued(r)
                                  /\ \A w \in Workers : task[w] = NoRow
  /\ \A w \in Workers : sweep[w] = "idle"

\* The ingest's copy is the row, but for what it is about to write.
Copying == {"mark", "discover", "enqueue", "handoff", "inline", "complete"}
ReadInv ==
  \A w \in Workers : pc[w] \in Copying =>
    /\ saving[w] = Idle => \A c \in Columns : mem[w][c] = build[c]
    /\ saving[w] # Idle => \A c \in Columns : c \in saving[w] <=> mem[w][c] # build[c]

\* What the row says while an ingest is at work, and what it is going to say.
Marked == Copying \ {"mark"}
IngestInv ==
  \A w \in Workers :
    /\ pc[w] \in Marked => build.status = "running" /\ build.owner = w
    /\ pc[w] \in Marked \ {"discover"} => build.expected
    /\ saving[w] # Idle =>
         /\ pc[w] \in {"mark", "discover"} => mem[w].status = "running" /\ mem[w].owner = w
         /\ pc[w] = "discover" => mem[w].expected
         /\ pc[w] = "handoff" => /\ mem[w].status = "running" /\ mem[w].owner = NoWorker
                                 /\ mem[w].expected
         /\ pc[w] = "complete" => mem[w].status = "ready"

\* An ingest that has handed over leaves a row for every chunk.
HandedInv ==
  \A w \in Workers :
    /\ pc[w] \in {"enqueue", "handoff"} => size = "large"
    /\ pc[w] = "handoff" \/ (pc[w] = "finish" /\ task[w] = Ingest /\ size = "large") =>
         batches > 0 /\ \A c \in Chunks : Queued(<<batches, c>>)
    /\ pc[w] = "finish" /\ task[w] = Ingest =>
         IF size = "small" THEN build.status = "ready"
         ELSE build.status = "running" /\ build.owner = NoWorker /\ build.expected

\* Only an ingest that has not handed over owns a running build, and its row is still there for
\* the restart to find.
OwnedInv ==
  /\ build.status = "running" /\ build.owner # NoWorker => Queued(Ingest)
  /\ \A w \in Workers :
       /\ build.status = "running" /\ build.owner # NoWorker /\ mode[w] = "up" =>
            task[w] = Ingest
       /\ mode[w] \in {"boot", "unlocked"} => build.status = "running" /\ build.owner = w
       /\ mode[w] = "condemned" => ~InFlight

\* What a chunk has done at a step.
ChunkInv ==
  \A w \in Workers :
    /\ pc[w] = "reconcile" => ChunkOf(task[w]) \in results
    /\ pc[w] = "post" => /\ build.status = "ready"
                         /\ task[w] = Ingest => size = "small"

\* A row that will still come to its reconcile; one that will still give its chunk a result.
Unfinished(r) == Queued(r) /\ \A w \in Workers : task[w] = r => pc[w] # "finish"
Unrendered(r) == Queued(r) /\ \A w \in Workers : task[w] = r =>
                                pc[w] \in {"chunk", "budget", "render", "record"}

\* A build in flight has its ingest to come, or all that is still missing of it is queued, and
\* so is one who will find it complete.
CarriedInv ==
  InFlight /\ ~Queued(Ingest) =>
    /\ build.status = "running" /\ build.expected
    /\ \E r \in Rows \ {Ingest} : Unfinished(r)
    /\ \A c \in Chunks \ results : \E r \in Rows \ {Ingest} : ChunkOf(r) = c /\ Unrendered(r)

\* Every post has a batch of its own: a batch that has not been posted is one of the ingest that
\* last handed over, or will be one of the ingest that owns the build.
OwedInv ==
  size = "large" =>
    /\ completed <= batches
    /\ \A w \in Workers : pc[w] \in {"handoff", "post"} => completed < batches
    /\ build.status = "running" /\ build.owner = NoWorker => completed < batches

SoloInv ==
  /\ SoundInv /\ HeldInv /\ ReadInv /\ IngestInv /\ HandedInv /\ OwnedInv /\ ChunkInv
  /\ CarriedInv /\ OwedInv

----------------------------------------------------------------------------
(* What the steps of a handler come to when there is one worker.           *)

\* There is nobody else.
LEMMA TheWorker ==
  ASSUME OneWorker, NEW w \in Workers
  PROVE  Workers = {w} /\ NoWorker # w
BY BuildAssumption DEF OneWorker

\* No statement fails.
LEMMA NoFault == ASSUME OneWorker, TypeOK PROVE ~SpendsFault
BY DEF OneWorker, TypeOK, EnvTypeOK, SpendsFault

\* Nothing fails, nobody is told to stop, and the sweeper finds nothing to fail.
LEMMA NotTaken ==
  ASSUME OneWorker, IInv, SoloInv, NEW w \in Workers
  PROVE  /\ ~Fault(w) /\ ~Sweep(w) /\ ~HandleShutdownSignal(w) /\ ~Shutdown(w)
         /\ ~FailTask(w) /\ ~GiveUpOnTask(w) /\ ~GiveUpOnBuild(w) /\ ~FatalDeletes(w)
<1>1. ~SpendsFault
  BY NoFault DEF IInv
<1>2. ~Fault(w)
  BY <1>1
     DEF Fault, EnqueueReplyLost, FinishFails, FailTaskFails, GiveUpFails, IngestErrs, ChunkErrs,
         ChunkWedges, InlineWedges, ReclaimErrs
<1>3. ~SweepSelects(w)
  <2> SUFFICES ASSUME SweepSelects(w) PROVE FALSE
    OBVIOUS
  <2>1. "old" \in {beat, updated} /\ InFlight
    BY DEF SweepSelects, Stuck, InFlight
  <2>2. \A r \in Rows : ~Queued(r)
    BY <2>1 DEF SoloInv, HeldInv
  <2> QED
    BY <2>1, <2>2, RowsType DEF SoloInv, CarriedInv, Unfinished
<1>4. ~Sweep(w)
  BY <1>3 DEF Sweep, SweepFails, SweepDeletes, SoloInv, HeldInv
<1>5. ~HandleShutdownSignal(w)
  BY DEF HandleShutdownSignal, OneWorker, IInv, TypeOK, EnvTypeOK
<1>6. ~Shutdown(w)
  BY DEF Shutdown, ShutdownReleases, ShutdownResets, ShutdownExits, SoloInv, SoundInv
<1> QED
  BY <1>2, <1>4, <1>5, <1>6
     DEF FailTask, GiveUpOnTask, GiveUpOnBuild, FatalDeletes, SoloInv, SoundInv

\* What a save has changed in the copy when it reads the row.
LEMMA Edits ==
  ASSUME TypeOK, NEW w \in Workers
  PROVE  /\ pc[w] = "mark" => Edited(w).status = "running" /\ Edited(w).owner = w
         /\ pc[w] = "discover" => /\ Edited(w).status = mem[w].status
                                  /\ Edited(w).owner = mem[w].owner /\ Edited(w).expected
         /\ pc[w] = "handoff" => /\ Edited(w).status = mem[w].status
                                 /\ Edited(w).owner = NoWorker
                                 /\ Edited(w).expected = mem[w].expected
         /\ pc[w] = "complete" => Edited(w).status = "ready"
<1>1. mem[w] \in Copies
  BY DEF TypeOK, WorkTypeOK
<1>2. pc[w] = "mark" => Edited(w).status = "running" /\ Edited(w).owner = w
  BY <1>1 DEF Edited, Copies
<1>3. pc[w] = "discover" => /\ Edited(w).status = mem[w].status
                            /\ Edited(w).owner = mem[w].owner /\ Edited(w).expected
  BY <1>1 DEF Edited, Copies
<1>4. pc[w] = "handoff" => /\ Edited(w).status = mem[w].status
                           /\ Edited(w).owner = NoWorker
                           /\ Edited(w).expected = mem[w].expected
  BY <1>1 DEF Edited, Copies
<1>5. pc[w] = "complete" => Edited(w).status = "ready"
  BY <1>1 DEF Edited, Copies
<1> QED
  BY <1>2, <1>3, <1>4, <1>5

\* A claim locks a queued row for the worker, which is up and has none.
LEMMA ClaimTaskStep ==
  ASSUME OneWorker, IInv, SoloInv, NEW w \in Workers, NEW r \in Rows, ClaimTask(w, r)
  PROVE  SoloInv'
<1> USE DEF SoloInv, buildVars, rowVars, workVars, countVars, envVars
<1>1. /\ Workers = {w} /\ NoWorker # w /\ Ingest \in Rows /\ NoRow \notin Rows
      /\ TypeOK /\ TaskInv /\ SavingInv
  BY TheWorker, RowsType DEF IInv
<1>2. SoundInv' /\ HeldInv'
  BY <1>1 DEF ClaimTask, SoundInv, HeldInv, Queued, TypeOK, RowTypeOK
<1>3. ReadInv' /\ IngestInv'
  BY DEF ClaimTask, ReadInv, IngestInv, Copying, Marked
<1>4. HandedInv'
  BY <1>1 DEF ClaimTask, HandedInv, TypeOK, WorkTypeOK
<1>5. OwnedInv' /\ ChunkInv'
  BY <1>1 DEF ClaimTask, OwnedInv, ChunkInv, TypeOK, WorkTypeOK
<1>6. CarriedInv'
  BY <1>1 DEF ClaimTask, CarriedInv, Unfinished, Unrendered, Queued, InFlight, TypeOK, WorkTypeOK
<1>7. OwedInv'
  BY DEF ClaimTask, OwedInv
<1> QED
  BY <1>2, <1>3, <1>4, <1>5, <1>6, <1>7

\* An ingest begins with a copy that is the row.
LEMMA IngestLoadsStep ==
  ASSUME OneWorker, IInv, SoloInv, NEW w \in Workers, IngestLoads(w)
  PROVE  SoloInv'
<1> USE DEF SoloInv, buildVars, rowVars, workVars, countVars, envVars
<1>1. /\ Workers = {w} /\ NoWorker # w /\ Ingest \in Rows /\ NoRow \notin Rows
      /\ TypeOK /\ TaskInv /\ SavingInv
  BY TheWorker, RowsType DEF IInv
<1>2. SoundInv' /\ HeldInv'
  BY DEF IngestLoads, SoundInv, HeldInv, Queued
<1>3. ReadInv' /\ IngestInv'
  BY <1>1
     DEF IngestLoads, ReadInv, IngestInv, Marked, SavingInv, TypeOK, WorkTypeOK, Saves,
         BuildTypeOK
<1>4. HandedInv'
  BY <1>1 DEF IngestLoads, HandedInv
<1>5. OwnedInv' /\ ChunkInv'
  BY DEF IngestLoads, OwnedInv, ChunkInv, Queued, InFlight
<1>6. CarriedInv'
  BY DEF IngestLoads, CarriedInv, Unfinished, Unrendered, Queued, InFlight
<1>7. OwedInv'
  BY DEF IngestLoads, OwedInv
<1> QED
  BY <1>2, <1>3, <1>4, <1>5, <1>6, <1>7

\* A save finds different what the ingest has changed in the copy, and nothing else.
LEMMA SaveReadsStep ==
  ASSUME OneWorker, IInv, SoloInv, NEW w \in Workers, SaveReads(w)
  PROVE  SoloInv'
<1> USE DEF SoloInv, buildVars, rowVars, workVars, countVars, envVars
<1>1. /\ Workers = {w} /\ NoWorker # w /\ Ingest \in Rows /\ NoRow \notin Rows
      /\ TypeOK /\ TaskInv /\ SavingInv
  BY TheWorker, RowsType DEF IInv
<1>2. task[w] = Ingest /\ mode[w] = "up" /\ row[Ingest] = "locked"
  BY <1>1 DEF SaveReads, TaskInv, IngestSteps, Saves, SoundInv, HeldInv
<1>3. pc[w] \in Saves \ {"abort"} /\ saving[w] = Idle /\ mem[w] \in Copies /\ build \in Copies
  BY <1>1 DEF SaveReads, SoundInv, TypeOK, WorkTypeOK, BuildTypeOK
<1>4. /\ mem'[w] = Edited(w) /\ saving'[w] # Idle
      /\ \A c \in Columns : c \in saving'[w] <=> mem'[w][c] # build[c]
  BY <1>1 DEF SaveReads, Idle, Columns, TypeOK, WorkTypeOK
<1>5. /\ mem[w].status = build.status /\ mem[w].owner = build.owner
      /\ mem[w].expected = build.expected
  BY <1>3 DEF ReadInv, Saves, Copying, Columns
<1>6. SoundInv' /\ HeldInv'
  BY DEF SaveReads, SoundInv, HeldInv, Queued
<1>7. ReadInv' /\ IngestInv'
  <2>1. ReadInv'
    BY <1>1, <1>3, <1>4 DEF SaveReads, ReadInv
  <2>2. IngestInv'
    BY <1>1, <1>3, <1>4, <1>5, Edits DEF SaveReads, IngestInv, Copying, Marked, Saves
  <2> QED
    BY <2>1, <2>2
<1>8. HandedInv'
  BY DEF SaveReads, HandedInv, Queued
<1>9. OwnedInv' /\ ChunkInv'
  BY DEF SaveReads, OwnedInv, ChunkInv, Queued, InFlight
<1>10. CarriedInv'
  BY DEF SaveReads, CarriedInv, Unfinished, Unrendered, Queued, InFlight
<1>11. OwedInv'
  BY DEF SaveReads, OwedInv
<1> QED
  BY <1>6, <1>7, <1>8, <1>9, <1>10, <1>11

\* So what it writes makes the row what the copy says.
LEMMA SaveWritesStep ==
  ASSUME OneWorker, IInv, SoloInv, NEW w \in Workers, SaveWrites(w)
  PROVE  SoloInv'
<1> USE DEF SoloInv, buildVars, rowVars, workVars, countVars, envVars
<1>1. /\ Workers = {w} /\ NoWorker # w /\ Ingest \in Rows /\ NoRow \notin Rows
      /\ TypeOK /\ TaskInv /\ SavingInv
  BY TheWorker, RowsType DEF IInv
<1>2. task[w] = Ingest /\ mode[w] = "up" /\ row[Ingest] = "locked"
  BY <1>1 DEF SaveWrites, TaskInv, IngestSteps, Saves, SoundInv, HeldInv
<1>3. pc[w] \in {"mark", "discover", "handoff", "complete"} /\ saving[w] # Idle
  BY DEF SaveWrites, SoundInv, Saves
<1>4. /\ build'.status = mem[w].status /\ build'.owner = mem[w].owner
      /\ build'.expected = mem[w].expected
  BY <1>3 DEF SaveWrites, ReadInv, Copying, Columns
<1>5. /\ pc'[w] = Following(pc[w]) /\ err'[w] = "none" /\ saving'[w] = Idle
      /\ pc'[w] # "finish" => mem'[w] = mem[w]
      /\ pc'[w] \in {"discover", "inline", "enqueue", "finish", "post"}
      /\ UNCHANGED <<task, beat, results, rowVars, mode, sweep, countVars, envVars>>
  BY <1>1, <1>3, FollowingSteps DEF SaveWrites, Goes, SoundInv, TypeOK, WorkTypeOK
<1>6. size = "large" => pc[w] # "complete"
  BY DEF IInv, CopyInv
<1>7. updated' \in {updated, "fresh"}
  BY DEF SaveWrites
<1>8. SoundInv' /\ HeldInv'
  BY <1>1, <1>2, <1>5, <1>7 DEF SoundInv, HeldInv
<1>9. ReadInv' /\ IngestInv'
  <2>1. ReadInv'
    BY <1>1, <1>4, <1>5 DEF ReadInv, Copying, Columns
  <2>2. IngestInv'
    BY <1>1, <1>3, <1>4, <1>5, FollowingSteps DEF IngestInv, Copying, Marked
  <2> QED
    BY <2>1, <2>2
<1>10. HandedInv'
  BY <1>1, <1>3, <1>4, <1>5, FollowingSteps, BuildAssumption
     DEF HandedInv, IngestInv, Queued, TypeOK, EnvTypeOK
<1>11. OwnedInv' /\ ChunkInv'
  BY <1>1, <1>2, <1>3, <1>4, <1>5, <1>6, FollowingSteps, BuildAssumption
     DEF OwnedInv, ChunkInv, IngestInv, Queued, TypeOK, EnvTypeOK
<1>12. CarriedInv'
  BY <1>2, <1>5 DEF CarriedInv, Queued
<1>13. OwedInv'
  BY <1>1, <1>3, <1>4, <1>5, <1>6, FollowingSteps DEF OwedInv, IngestInv
<1> QED
  BY <1>8, <1>9, <1>10, <1>11, <1>12, <1>13

\* An ingest that hands over has queued a row for every chunk, in a batch that is not posted yet.
LEMMA EnqueueRenderChunksStep ==
  ASSUME OneWorker, IInv, SoloInv, NEW w \in Workers, EnqueueRenderChunks(w)
  PROVE  SoloInv'
<1> USE DEF SoloInv, buildVars, rowVars, workVars, countVars, envVars
<1>1. /\ Workers = {w} /\ NoWorker # w /\ Ingest \in Rows /\ NoRow \notin Rows
      /\ TypeOK /\ TaskInv /\ SavingInv
  BY TheWorker, RowsType DEF IInv
<1>2. task[w] = Ingest /\ mode[w] = "up" /\ row[Ingest] = "locked"
  BY <1>1 DEF EnqueueRenderChunks, TaskInv, IngestSteps, Saves, SoundInv, HeldInv
<1>3. /\ batches' \in 1 .. MaxBatches /\ batches < batches'
      /\ \A c \in Chunks : <<batches', c>> \in Rows /\ row'[<<batches', c>>] = "free"
  BY <1>1, BuildAssumption DEF EnqueueRenderChunks, InsertChunks, TypeOK, RowTypeOK, Rows, Ingest
<1>4. row'[Ingest] = row[Ingest]
  BY <1>1 DEF EnqueueRenderChunks, InsertChunks
<1>5. SoundInv' /\ HeldInv'
  BY <1>1, <1>2 DEF EnqueueRenderChunks, InsertChunks, Goes, SoundInv, HeldInv
<1>6. ReadInv' /\ IngestInv'
  BY <1>1, <1>2
     DEF EnqueueRenderChunks, InsertChunks, Goes, ReadInv, IngestInv, Copying, Marked, SavingInv,
         TypeOK, WorkTypeOK, Saves
<1>7. HandedInv'
  BY <1>3 DEF EnqueueRenderChunks, InsertChunks, Goes, HandedInv, Queued
<1>8. OwnedInv' /\ ChunkInv'
  BY <1>1, <1>2, <1>4
     DEF EnqueueRenderChunks, InsertChunks, Goes, SoundInv, HeldInv, OwnedInv, ChunkInv, Queued,
         InFlight, TypeOK, WorkTypeOK, RowTypeOK, ModeTypeOK
<1>9. CarriedInv'
  BY <1>2, <1>4 DEF EnqueueRenderChunks, InsertChunks, CarriedInv, Queued
<1>10. OwedInv'
  BY <1>1 DEF EnqueueRenderChunks, InsertChunks, OwedInv, TypeOK, RowTypeOK
<1> QED
  BY <1>5, <1>6, <1>7, <1>8, <1>9, <1>10

\* A small build has all its results when its ingest completes it.
LEMMA InlineRendersStep ==
  ASSUME OneWorker, IInv, SoloInv, NEW w \in Workers, InlineRenders(w)
  PROVE  SoloInv'
<1> USE DEF SoloInv, buildVars, rowVars, workVars, countVars, envVars
<1>1. /\ Workers = {w} /\ NoWorker # w /\ Ingest \in Rows /\ NoRow \notin Rows
      /\ TypeOK /\ TaskInv /\ SavingInv
  BY TheWorker, RowsType DEF IInv
<1>2. SoundInv' /\ HeldInv'
  BY DEF InlineRenders, Goes, SoundInv, HeldInv, Queued
<1>3. ReadInv' /\ IngestInv'
  BY <1>1 DEF InlineRenders, Goes, ReadInv, IngestInv, Copying, Marked, SavingInv, Saves
<1>4. HandedInv'
  BY <1>1 DEF InlineRenders, Goes, HandedInv
<1>5. OwnedInv' /\ ChunkInv'
  BY <1>1 DEF InlineRenders, Goes, OwnedInv, ChunkInv, Queued, InFlight
<1>6. CarriedInv'
  BY DEF InlineRenders, Goes, CarriedInv, Unfinished, Unrendered, Queued, InFlight
<1>7. OwedInv'
  BY DEF InlineRenders, Goes, OwedInv
<1> QED
  BY <1>2, <1>3, <1>4, <1>5, <1>6, <1>7

\* A chunk whose build is not running is dropped: none of those is in flight and handed over.
LEMMA ChunkLoadsStep ==
  ASSUME OneWorker, IInv, SoloInv, NEW w \in Workers, ChunkLoads(w)
  PROVE  SoloInv'
<1> USE DEF SoloInv, buildVars, rowVars, workVars, countVars, envVars
<1>1. /\ Workers = {w} /\ NoWorker # w /\ Ingest \in Rows /\ NoRow \notin Rows
      /\ TypeOK /\ TaskInv /\ SavingInv
  BY TheWorker, RowsType DEF IInv
<1>2. SoundInv' /\ HeldInv'
  BY DEF ChunkLoads, Goes, SoundInv, HeldInv, Queued
<1>3. ReadInv' /\ IngestInv'
  BY DEF ChunkLoads, Goes, ReadInv, IngestInv, Copying, Marked
<1>4. HandedInv'
  BY <1>1 DEF ChunkLoads, Goes, HandedInv, TaskInv, ChunkSteps
<1>5. OwnedInv' /\ ChunkInv'
  BY DEF ChunkLoads, Goes, OwnedInv, ChunkInv, Queued, InFlight
<1>6. CarriedInv'
  BY DEF ChunkLoads, Goes, CarriedInv, Unfinished, Unrendered, Queued, InFlight
<1>7. OwedInv'
  BY DEF ChunkLoads, Goes, OwedInv
<1> QED
  BY <1>2, <1>3, <1>4, <1>5, <1>6, <1>7

\* A chunk goes on to render, or to record that it may not.
LEMMA CheckBudgetStep ==
  ASSUME OneWorker, IInv, SoloInv, NEW w \in Workers, CheckBudget(w)
  PROVE  SoloInv'
<1> USE DEF SoloInv, buildVars, rowVars, workVars, countVars, envVars
<1>1. /\ Workers = {w} /\ NoWorker # w /\ Ingest \in Rows /\ NoRow \notin Rows
      /\ TypeOK /\ TaskInv /\ SavingInv
  BY TheWorker, RowsType DEF IInv
<1>2. SoundInv' /\ HeldInv'
  BY DEF CheckBudget, Goes, SoundInv, HeldInv, Queued
<1>3. ReadInv' /\ IngestInv'
  BY DEF CheckBudget, Goes, ReadInv, IngestInv, Copying, Marked
<1>4. HandedInv'
  BY <1>1 DEF CheckBudget, Goes, HandedInv
<1>5. OwnedInv' /\ ChunkInv'
  BY DEF CheckBudget, Goes, OwnedInv, ChunkInv, Queued, InFlight
<1>6. CarriedInv'
  BY DEF CheckBudget, Goes, CarriedInv, Unfinished, Unrendered, Queued, InFlight
<1>7. OwedInv'
  BY DEF CheckBudget, Goes, OwedInv
<1> QED
  BY <1>2, <1>3, <1>4, <1>5, <1>6, <1>7

\* A chunk that is rendered has its result when it comes to its reconcile.
LEMMA RenderChunkStep ==
  ASSUME OneWorker, IInv, SoloInv, NEW w \in Workers, RenderChunk(w)
  PROVE  SoloInv'
<1> USE DEF SoloInv, buildVars, rowVars, workVars, countVars, envVars
<1>1. /\ Workers = {w} /\ NoWorker # w /\ Ingest \in Rows /\ NoRow \notin Rows
      /\ TypeOK /\ TaskInv /\ SavingInv
  BY TheWorker, RowsType DEF IInv
<1>2. SoundInv' /\ HeldInv'
  BY DEF RenderChunk, Goes, SoundInv, HeldInv, Queued
<1>3. ReadInv' /\ IngestInv'
  BY DEF RenderChunk, Goes, ReadInv, IngestInv, Copying, Marked
<1>4. HandedInv'
  BY <1>1 DEF RenderChunk, Goes, HandedInv
<1>5. OwnedInv' /\ ChunkInv'
  BY DEF RenderChunk, Goes, OwnedInv, ChunkInv, Queued, InFlight
<1>6. CarriedInv'
  BY DEF RenderChunk, Goes, CarriedInv, Unfinished, Unrendered, Queued, InFlight
<1>7. OwedInv'
  BY DEF RenderChunk, Goes, OwedInv
<1> QED
  BY <1>2, <1>3, <1>4, <1>5, <1>6, <1>7

\* So does one that has spent its claims.
LEMMA RecordFailuresStep ==
  ASSUME OneWorker, IInv, SoloInv, NEW w \in Workers, RecordFailures(w)
  PROVE  SoloInv'
<1> USE DEF SoloInv, buildVars, rowVars, workVars, countVars, envVars
<1>1. /\ Workers = {w} /\ NoWorker # w /\ Ingest \in Rows /\ NoRow \notin Rows
      /\ TypeOK /\ TaskInv /\ SavingInv
  BY TheWorker, RowsType DEF IInv
<1>2. SoundInv' /\ HeldInv'
  BY DEF RecordFailures, Goes, SoundInv, HeldInv, Queued
<1>3. ReadInv' /\ IngestInv'
  BY DEF RecordFailures, Goes, ReadInv, IngestInv, Copying, Marked
<1>4. HandedInv'
  BY <1>1 DEF RecordFailures, Goes, HandedInv
<1>5. OwnedInv' /\ ChunkInv'
  BY DEF RecordFailures, Goes, OwnedInv, ChunkInv, Queued, InFlight
<1>6. CarriedInv'
  BY DEF RecordFailures, Goes, CarriedInv, Unfinished, Unrendered, Queued, InFlight
<1>7. OwedInv'
  BY DEF RecordFailures, Goes, OwedInv
<1> QED
  BY <1>2, <1>3, <1>4, <1>5, <1>6, <1>7

\* A reconcile that does not complete the build leaves another chunk to do it; one that does may
\* post.
LEMMA ReconcileStep ==
  ASSUME OneWorker, IInv, SoloInv, NEW w \in Workers, Reconcile(w)
  PROVE  SoloInv'
<1> USE DEF SoloInv, buildVars, rowVars, workVars, countVars, envVars
<1>1. /\ Workers = {w} /\ NoWorker # w /\ Ingest \in Rows /\ NoRow \notin Rows
      /\ TypeOK /\ TaskInv /\ SavingInv
  BY TheWorker, RowsType DEF IInv
<1>2. task[w] \in Rows \ {Ingest} /\ mode[w] = "up" /\ err[w] = "none"
  BY <1>1 DEF Reconcile, TaskInv, ChunkSteps, SoundInv
<1>3. /\ build'.owner = build.owner
      /\ IF Complete THEN build'.status = "ready" ELSE build' = build
  BY <1>1 DEF Reconcile, Becomes, TypeOK, BuildTypeOK, Copies
<1>4. IF Complete THEN Goes(w, "post", "none") ELSE Goes(w, "finish", "none")
  BY <1>2 DEF Reconcile, Continues
<1>5. pc[w] = "reconcile" /\ UNCHANGED <<beat, results, rowVars, mode, sweep, countVars, envVars>>
  BY DEF Reconcile
<1>6. SoundInv' /\ HeldInv'
  BY <1>1, <1>2, <1>4 DEF Goes, Reconcile, Becomes, SoundInv, HeldInv, TypeOK, WorkTypeOK
<1>7. ReadInv' /\ IngestInv'
  BY <1>1, <1>4 DEF Goes, ReadInv, IngestInv, Copying, Marked, TypeOK, WorkTypeOK
<1>8. HandedInv'
  BY <1>1, <1>2, <1>4 DEF Goes, HandedInv, TypeOK, WorkTypeOK
<1>9. OwnedInv' /\ ChunkInv'
  BY <1>1, <1>2, <1>3, <1>4, <1>5 DEF Goes, OwnedInv, ChunkInv, TypeOK, WorkTypeOK
<1>10. CarriedInv'
  <2> SUFFICES ASSUME InFlight', ~Queued(Ingest)'
               PROVE  /\ build'.status = "running" /\ build'.expected
                      /\ \E r \in Rows \ {Ingest} : Unfinished(r)'
                      /\ \A c \in Chunks \ results' :
                           \E r \in Rows \ {Ingest} : ChunkOf(r) = c /\ Unrendered(r)'
    BY DEF CarriedInv
  <2>1. ~Complete /\ build' = build /\ InFlight /\ ~Queued(Ingest)
    BY <1>3, <1>5 DEF InFlight, Queued
  <2>2. /\ build.status = "running" /\ build.expected
        /\ \A c \in Chunks \ results : \E r \in Rows \ {Ingest} : ChunkOf(r) = c /\ Unrendered(r)
    BY <2>1 DEF CarriedInv
  <2>3. \A r \in Rows : Unrendered(r) => task[w] # r
    BY <1>1, <1>5 DEF Unrendered
  <2>4. \A r \in Rows : Unrendered(r) => Unrendered(r)' /\ Unfinished(r)'
    BY <1>1, <1>4, <1>5, <2>1, <2>3 DEF Unrendered, Unfinished, Queued, Goes
  <2>5. PICK c \in Chunks : c \notin results
    BY <1>1, <2>1, <2>2 DEF Complete, TypeOK, BuildTypeOK
  <2> QED
    BY <1>5, <2>1, <2>2, <2>4, <2>5
<1>11. OwedInv'
  BY <1>1, <1>2, <1>3, <1>4, <1>5
     DEF Goes, Complete, OwnedInv, OwedInv, TypeOK, WorkTypeOK, BuildTypeOK, Copies
<1> QED
  BY <1>6, <1>7, <1>8, <1>9, <1>10, <1>11

\* A post uses up the batch it was made for.
LEMMA CompleteBuildStep ==
  ASSUME OneWorker, IInv, SoloInv, NEW w \in Workers, CompleteBuild(w)
  PROVE  SoloInv'
<1> USE DEF SoloInv, buildVars, rowVars, workVars, countVars, envVars
<1>1. /\ Workers = {w} /\ NoWorker # w /\ Ingest \in Rows /\ NoRow \notin Rows
      /\ TypeOK /\ TaskInv /\ SavingInv
  BY TheWorker, RowsType DEF IInv
<1>2. mode[w] = "up" /\ build.status = "ready" /\ ~InFlight /\ Goes(w, "finish", "none")
  BY <1>1 DEF CompleteBuild, Continues, SoundInv, ChunkInv, InFlight, TaskInv
<1>3. SoundInv' /\ HeldInv'
  BY <1>2 DEF CompleteBuild, Goes, SoundInv, HeldInv, Queued
<1>4. ReadInv' /\ IngestInv'
  BY <1>2 DEF CompleteBuild, Goes, ReadInv, IngestInv, Copying, Marked
<1>5. HandedInv'
  BY <1>1, <1>2 DEF CompleteBuild, Goes, HandedInv, ChunkInv
<1>6. OwnedInv' /\ ChunkInv'
  BY <1>1, <1>2 DEF CompleteBuild, Goes, OwnedInv, ChunkInv
<1>7. CarriedInv'
  BY <1>2 DEF CompleteBuild, CarriedInv, InFlight
<1>8. OwedInv'
  BY <1>1, <1>2 DEF CompleteBuild, Goes, OwedInv, TypeOK, WorkTypeOK, RowTypeOK
<1> QED
  BY <1>3, <1>4, <1>5, <1>6, <1>7, <1>8

\* The row of an ingest is deleted once its chunks carry the build, that of a chunk once it is
\* reconciled.
LEMMA FinishTaskStep ==
  ASSUME OneWorker, IInv, SoloInv, NEW w \in Workers, FinishTask(w)
  PROVE  SoloInv'
<1> USE DEF SoloInv, buildVars, rowVars, workVars, countVars, envVars
<1>1. /\ Workers = {w} /\ NoWorker # w /\ Ingest \in Rows /\ NoRow \notin Rows
      /\ TypeOK /\ TaskInv /\ SavingInv
  BY TheWorker, RowsType DEF IInv
<1>2. /\ task[w] \in Rows /\ mode[w] = "up" /\ pc[w] = "finish"
      /\ task'[w] = NoRow /\ row'[task[w]] \notin {"free", "locked", "stale"}
      /\ \A r \in Rows \ {task[w]} : row'[r] = row[r]
      /\ UNCHANGED <<buildVars, beat, results, mode, countVars, envVars>>
  BY <1>1
     DEF FinishTask, DeleteTask, Done, Queued, TaskInv, SoundInv, TypeOK, WorkTypeOK, RowTypeOK
<1>3. SoundInv' /\ HeldInv'
  BY <1>1 DEF FinishTask, DeleteTask, Done, SoundInv, HeldInv, Queued, TypeOK, WorkTypeOK
<1>4. ReadInv' /\ IngestInv'
  BY DEF FinishTask, DeleteTask, Done, ReadInv, IngestInv, Copying, Marked
<1>5. HandedInv'
  BY <1>1 DEF FinishTask, DeleteTask, Done, HandedInv, TypeOK, WorkTypeOK
<1>6. OwnedInv' /\ ChunkInv'
  <2>1. task[w] = Ingest => ~(build.status = "running" /\ build.owner # NoWorker)
    BY <1>1, <1>2 DEF HandedInv
  <2>2. ~(build.status = "running" /\ build.owner # NoWorker)
    BY <1>2, <2>1 DEF OwnedInv
  <2> QED
    BY <1>1, <1>2, <2>2 DEF FinishTask, Done, OwnedInv, ChunkInv, TypeOK, WorkTypeOK
<1>7. CarriedInv'
  <2> SUFFICES ASSUME InFlight, ~Queued(Ingest)'
               PROVE  /\ build.status = "running" /\ build.expected
                      /\ \E r \in Rows \ {Ingest} : Unfinished(r)'
                      /\ \A c \in Chunks \ results :
                           \E r \in Rows \ {Ingest} : ChunkOf(r) = c /\ Unrendered(r)'
    BY <1>2 DEF CarriedInv, InFlight
  <2>1. \A r \in Rows : Queued(r) /\ task[w] # r => Unfinished(r)' /\ Unrendered(r)'
    BY <1>1, <1>2 DEF Unfinished, Unrendered, Queued
  <2>2. CASE task[w] = Ingest
    <3>1. /\ build.status = "running" /\ build.expected /\ batches > 0
          /\ \A c \in Chunks : Queued(<<batches, c>>)
      BY <1>1, <1>2, <2>2, BuildAssumption DEF HandedInv, InFlight, TypeOK, EnvTypeOK
    <3>2. \A c \in Chunks : <<batches, c>> \in Rows \ {Ingest} /\ ChunkOf(<<batches, c>>) = c
      BY <1>1, <3>1, BuildAssumption DEF TypeOK, RowTypeOK, Rows, Ingest, ChunkOf
    <3>3. \A c \in Chunks : \E r \in Rows \ {Ingest} : ChunkOf(r) = c /\ Queued(r)
      BY <3>1, <3>2
    <3>4. \A r \in Rows \ {Ingest} : Queued(r) => Unfinished(r)' /\ Unrendered(r)'
      BY <2>1, <2>2
    <3>5. \A c \in Chunks : \E r \in Rows \ {Ingest} : /\ ChunkOf(r) = c
                                                       /\ Unfinished(r)' /\ Unrendered(r)'
      BY <3>3, <3>4
    <3> QED
      BY <3>1, <3>5 DEF OneWorker
  <2>3. CASE task[w] # Ingest
    <3>1. ~Queued(Ingest)
      BY <1>1, <1>2, <2>3 DEF Queued
    <3>2. /\ build.status = "running" /\ build.expected
          /\ \E r \in Rows \ {Ingest} : Unfinished(r)
          /\ \A c \in Chunks \ results :
               \E r \in Rows \ {Ingest} : ChunkOf(r) = c /\ Unrendered(r)
      BY <3>1 DEF CarriedInv
    <3>3. \A r \in Rows : Unfinished(r) \/ Unrendered(r) => Queued(r) /\ task[w] # r
      BY <1>1, <1>2 DEF Unfinished, Unrendered
    <3> QED
      BY <2>1, <3>2, <3>3
  <2> QED
    BY <2>2, <2>3
<1>8. OwedInv'
  BY DEF FinishTask, DeleteTask, Done, OwedInv
<1> QED
  BY <1>3, <1>4, <1>5, <1>6, <1>7, <1>8

\* A chunk that kills the worker leaves its row queued.
LEMMA PoisonKillsStep ==
  ASSUME OneWorker, IInv, SoloInv, NEW w \in Workers, PoisonKills(w)
  PROVE  SoloInv'
<1> USE DEF SoloInv, buildVars, rowVars, workVars, countVars, envVars
<1>1. /\ Workers = {w} /\ NoWorker # w /\ Ingest \in Rows /\ NoRow \notin Rows
      /\ TypeOK /\ TaskInv /\ SavingInv
  BY TheWorker, RowsType DEF IInv
<1>2. SoundInv' /\ HeldInv'
  BY <1>1 DEF PoisonKills, Dies, Done, SoundInv, HeldInv, Queued, TypeOK, WorkTypeOK
<1>3. ReadInv' /\ IngestInv'
  BY DEF PoisonKills, Dies, Done, ReadInv, IngestInv, Copying, Marked
<1>4. HandedInv'
  BY <1>1 DEF PoisonKills, Dies, Done, HandedInv
<1>5. OwnedInv' /\ ChunkInv'
  BY <1>1 DEF PoisonKills, Dies, Done, OwnedInv, ChunkInv, Queued, TypeOK, ModeTypeOK
<1>6. CarriedInv'
  BY <1>1
     DEF PoisonKills, Dies, Done, CarriedInv, Unfinished, Unrendered, Queued, InFlight, TypeOK,
         WorkTypeOK
<1>7. OwedInv'
  BY DEF PoisonKills, Dies, Done, OwedInv
<1> QED
  BY <1>2, <1>3, <1>4, <1>5, <1>6, <1>7

\* So does a crash, at whatever step.
LEMMA CrashStep ==
  ASSUME OneWorker, IInv, SoloInv, NEW w \in Workers, Crash(w)
  PROVE  SoloInv'
<1> USE DEF SoloInv, buildVars, rowVars, workVars, countVars, envVars
<1>1. /\ Workers = {w} /\ NoWorker # w /\ Ingest \in Rows /\ NoRow \notin Rows
      /\ TypeOK /\ TaskInv /\ SavingInv
  BY TheWorker, RowsType DEF IInv
<1>2. SoundInv' /\ HeldInv'
  BY <1>1 DEF Crash, Dies, Done, SoundInv, HeldInv, Queued, TypeOK, WorkTypeOK
<1>3. ReadInv' /\ IngestInv'
  BY <1>1 DEF Crash, Dies, Done, ReadInv, IngestInv, Copying, Marked, TypeOK, WorkTypeOK
<1>4. HandedInv'
  BY <1>1 DEF Crash, Dies, Done, HandedInv, TypeOK, WorkTypeOK
<1>5. OwnedInv' /\ ChunkInv'
  BY <1>1 DEF Crash, Dies, Done, OwnedInv, ChunkInv, Queued, TypeOK, WorkTypeOK, ModeTypeOK
<1>6. CarriedInv'
  BY <1>1
     DEF Crash, Dies, Done, CarriedInv, Unfinished, Unrendered, Queued, InFlight, TypeOK,
         WorkTypeOK
<1>7. OwedInv'
  BY DEF Crash, Dies, Done, OwedInv
<1> QED
  BY <1>2, <1>3, <1>4, <1>5, <1>6, <1>7

\* A start finds the build its last life left running, if there is one.
LEMMA BootStep ==
  ASSUME OneWorker, IInv, SoloInv, NEW w \in Workers, Boot(w)
  PROVE  SoloInv'
<1> USE DEF SoloInv, buildVars, rowVars, workVars, countVars, envVars
<1>1. /\ Workers = {w} /\ NoWorker # w /\ Ingest \in Rows /\ NoRow \notin Rows
      /\ TypeOK /\ TaskInv /\ SavingInv
  BY TheWorker, RowsType DEF IInv
<1>2. task[w] = NoRow /\ pc[w] = "idle"
  BY <1>1 DEF Boot, SoundInv, TaskInv
<1>3. SoundInv' /\ HeldInv'
  BY DEF Boot, SoundInv, HeldInv, Queued
<1>4. ReadInv' /\ IngestInv'
  BY DEF Boot, ReadInv, IngestInv
<1>5. HandedInv'
  BY <1>1, <1>2 DEF Boot, HandedInv
<1>6. OwnedInv' /\ ChunkInv'
  BY <1>1 DEF Boot, OwnedInv, ChunkInv, Queued, TypeOK, BuildTypeOK, Copies
<1>7. CarriedInv'
  BY DEF Boot, CarriedInv, Unfinished, Unrendered, Queued, InFlight
<1>8. OwedInv'
  BY DEF Boot, OwedInv
<1> QED
  BY <1>3, <1>4, <1>5, <1>6, <1>7, <1>8

\* The row of the ingest is unlocked first,
LEMMA ReclaimUnlocksStep ==
  ASSUME OneWorker, IInv, SoloInv, NEW w \in Workers, ReclaimUnlocks(w)
  PROVE  SoloInv'
<1> USE DEF SoloInv, buildVars, rowVars, workVars, countVars, envVars
<1>1. /\ Workers = {w} /\ NoWorker # w /\ Ingest \in Rows /\ NoRow \notin Rows
      /\ TypeOK /\ TaskInv /\ SavingInv
  BY TheWorker, RowsType DEF IInv
<1>2. task[w] = NoRow /\ pc[w] = "idle"
  BY <1>1 DEF ReclaimUnlocks, SoundInv, TaskInv
<1>3. SoundInv' /\ HeldInv'
  BY <1>1 DEF ReclaimUnlocks, ReleaseLock, SoundInv, HeldInv
<1>4. ReadInv' /\ IngestInv'
  BY DEF ReclaimUnlocks, ReleaseLock, ReadInv, IngestInv
<1>5. HandedInv'
  BY <1>1, <1>2 DEF ReclaimUnlocks, ReleaseLock, HandedInv
<1>6. OwnedInv' /\ ChunkInv'
  BY <1>1 DEF ReclaimUnlocks, ReleaseLock, OwnedInv, ChunkInv, Queued
<1>7. CarriedInv'
  BY DEF ReclaimUnlocks, ReleaseLock, CarriedInv, Queued
<1>8. OwedInv'
  BY DEF ReclaimUnlocks, ReleaseLock, OwedInv
<1> QED
  BY <1>3, <1>4, <1>5, <1>6, <1>7, <1>8

\* and the build, whose ingest is queued, is pending again.
LEMMA ReclaimRequeuesStep ==
  ASSUME OneWorker, IInv, SoloInv, NEW w \in Workers, ReclaimRequeues(w)
  PROVE  SoloInv'
<1> USE DEF SoloInv, buildVars, rowVars, workVars, countVars, envVars
<1>1. /\ Workers = {w} /\ NoWorker # w /\ Ingest \in Rows /\ NoRow \notin Rows
      /\ TypeOK /\ TaskInv /\ SavingInv
  BY TheWorker, RowsType DEF IInv
<1>2. task[w] = NoRow /\ pc[w] = "idle"
  BY <1>1 DEF ReclaimRequeues, SoundInv, TaskInv
<1>3. build.status = "running" /\ Queued(Ingest)
  BY <1>1 DEF ReclaimRequeues, OwnedInv
<1>4. build'.status = "pending" /\ build'.owner = NoWorker /\ Queued(Ingest)'
  BY <1>1, <1>3 DEF ReclaimRequeues, Becomes, Queued, TypeOK, BuildTypeOK, Copies
<1>5. SoundInv' /\ HeldInv'
  BY DEF ReclaimRequeues, Becomes, SoundInv, HeldInv, Queued
<1>6. ReadInv' /\ IngestInv'
  BY <1>1, <1>2 DEF ReclaimRequeues, Becomes, ReadInv, IngestInv, Copying, Marked
<1>7. HandedInv'
  BY <1>1, <1>2 DEF ReclaimRequeues, Becomes, HandedInv
<1>8. OwnedInv' /\ ChunkInv'
  BY <1>1, <1>4 DEF ReclaimRequeues, Becomes, OwnedInv, ChunkInv, TypeOK, ModeTypeOK
<1>9. CarriedInv'
  BY <1>4 DEF ReclaimRequeues, Becomes, CarriedInv
<1>10. OwedInv'
  BY <1>4 DEF ReclaimRequeues, Becomes, OwedInv
<1> QED
  BY <1>5, <1>6, <1>7, <1>8, <1>9, <1>10

\* A build whose ingest has spent its claims is failed first,
LEMMA ReclaimFailsStep ==
  ASSUME OneWorker, IInv, SoloInv, NEW w \in Workers, ReclaimFails(w)
  PROVE  SoloInv'
<1> USE DEF SoloInv, buildVars, rowVars, workVars, countVars, envVars
<1>1. /\ Workers = {w} /\ NoWorker # w /\ Ingest \in Rows /\ NoRow \notin Rows
      /\ TypeOK /\ TaskInv /\ SavingInv
  BY TheWorker, RowsType DEF IInv
<1>2. task[w] = NoRow /\ pc[w] = "idle"
  BY <1>1 DEF ReclaimFails, SoundInv, TaskInv
<1>3. build.status = "running"
  BY DEF ReclaimFails, OwnedInv
<1>4. build'.status = "failed"
  BY <1>1, <1>3 DEF ReclaimFails, Becomes, TypeOK, BuildTypeOK, Copies
<1>5. SoundInv' /\ HeldInv'
  BY DEF ReclaimFails, Becomes, SoundInv, HeldInv, Queued
<1>6. ReadInv' /\ IngestInv'
  BY <1>1, <1>2 DEF ReclaimFails, Becomes, ReadInv, IngestInv, Copying, Marked
<1>7. HandedInv'
  BY <1>1, <1>2 DEF ReclaimFails, Becomes, HandedInv
<1>8. OwnedInv' /\ ChunkInv'
  BY <1>1, <1>4 DEF ReclaimFails, Becomes, OwnedInv, ChunkInv, InFlight, TypeOK, ModeTypeOK
<1>9. CarriedInv'
  BY <1>4 DEF ReclaimFails, Becomes, CarriedInv, InFlight
<1>10. OwedInv'
  BY <1>4 DEF ReclaimFails, Becomes, OwedInv
<1> QED
  BY <1>5, <1>6, <1>7, <1>8, <1>9, <1>10

\* and the row of its ingest deleted.
LEMMA ReclaimDeletesStep ==
  ASSUME OneWorker, IInv, SoloInv, NEW w \in Workers, ReclaimDeletes(w)
  PROVE  SoloInv'
<1> USE DEF SoloInv, buildVars, rowVars, workVars, countVars, envVars
<1>1. /\ Workers = {w} /\ NoWorker # w /\ Ingest \in Rows /\ NoRow \notin Rows
      /\ TypeOK /\ TaskInv /\ SavingInv
  BY TheWorker, RowsType DEF IInv
<1>2. task[w] = NoRow /\ pc[w] = "idle"
  BY <1>1 DEF ReclaimDeletes, SoundInv, TaskInv
<1>3. ~InFlight
  BY DEF ReclaimDeletes, OwnedInv
<1>4. SoundInv' /\ HeldInv'
  BY <1>1 DEF ReclaimDeletes, DeleteTask, SoundInv, HeldInv, Queued
<1>5. ReadInv' /\ IngestInv'
  BY DEF ReclaimDeletes, DeleteTask, ReadInv, IngestInv
<1>6. HandedInv'
  BY <1>1, <1>2 DEF ReclaimDeletes, DeleteTask, HandedInv
<1>7. OwnedInv' /\ ChunkInv'
  BY DEF ReclaimDeletes, DeleteTask, OwnedInv, ChunkInv, InFlight
<1>8. CarriedInv'
  BY <1>3 DEF ReclaimDeletes, DeleteTask, CarriedInv, InFlight
<1>9. OwedInv'
  BY DEF ReclaimDeletes, DeleteTask, OwedInv
<1> QED
  BY <1>4, <1>5, <1>6, <1>7, <1>8, <1>9

\* A threshold passes only when no row is left.
LEMMA TimePassesStep ==
  ASSUME OneWorker, IInv, SoloInv, TimePasses
  PROVE  SoloInv'
<1> USE DEF SoloInv, buildVars, rowVars, workVars, countVars, envVars
<1> PICK w \in Workers : TRUE
  BY DEF OneWorker
<1>1. /\ Workers = {w} /\ NoWorker # w /\ Ingest \in Rows /\ NoRow \notin Rows
      /\ TypeOK /\ TaskInv /\ SavingInv
  BY TheWorker, RowsType DEF IInv
<1>2. /\ task[w] = NoRow
      /\ UNCHANGED <<build, results, rowVars, mode, workVars, sweep, countVars, envVars>>
      /\ \A r \in Rows : ~Queued(r)
  BY <1>1, NoFault DEF TimePasses, OneWorker
<1>3. SoundInv' /\ HeldInv'
  BY <1>1, <1>2 DEF SoundInv, HeldInv, Queued
<1>4. ReadInv' /\ IngestInv'
  BY <1>2 DEF ReadInv, IngestInv
<1>5. HandedInv'
  BY <1>2 DEF HandedInv, Queued
<1>6. OwnedInv' /\ ChunkInv'
  BY <1>1, <1>2 DEF OwnedInv, ChunkInv, InFlight
<1>7. CarriedInv'
  BY <1>1, <1>2 DEF CarriedInv, Unfinished, Unrendered, InFlight
<1>8. OwedInv'
  BY <1>2 DEF OwedInv
<1> QED
  BY <1>3, <1>4, <1>5, <1>6, <1>7, <1>8

\* No lock expires while the worker is at work on its row.
LEMMA LockExpiresStep ==
  ASSUME OneWorker, IInv, SoloInv, NEW r \in Rows, LockExpires(r)
  PROVE  SoloInv'
<1> USE DEF SoloInv, buildVars, rowVars, workVars, countVars, envVars
<1> PICK w \in Workers : TRUE
  BY DEF OneWorker
<1>1. /\ Workers = {w} /\ NoWorker # w /\ Ingest \in Rows /\ NoRow \notin Rows
      /\ TypeOK /\ TaskInv /\ SavingInv
  BY TheWorker, RowsType DEF IInv
<1>2. SoundInv' /\ HeldInv'
  BY DEF LockExpires, SoundInv, HeldInv, Queued
<1>3. ReadInv' /\ IngestInv'
  BY DEF LockExpires, ReadInv, IngestInv
<1>4. HandedInv'
  BY DEF LockExpires, HandedInv, Queued
<1>5. OwnedInv' /\ ChunkInv'
  BY DEF LockExpires, OwnedInv, ChunkInv, Queued, InFlight
<1>6. CarriedInv'
  BY DEF LockExpires, CarriedInv, Unfinished, Unrendered, Queued, InFlight
<1>7. OwedInv'
  BY DEF LockExpires, OwedInv
<1> QED
  BY <1>2, <1>3, <1>4, <1>5, <1>6, <1>7

\* A step that changes nothing.
LEMMA StutterSolo ==
  ASSUME SoloInv, UNCHANGED vars
  PROVE  SoloInv'
BY DEF SoloInv, SoundInv, HeldInv, ReadInv, IngestInv, HandedInv, OwnedInv, ChunkInv, CarriedInv,
       OwedInv, Unfinished, Unrendered, Queued, InFlight, Copying, Marked, vars, buildVars,
       rowVars, workVars, countVars, envVars

\* It holds at the start.
LEMMA InitSolo ==
  ASSUME OneWorker, Init
  PROVE  SoloInv
<1>1. build.status = "pending" /\ build.owner = NoWorker /\ ~build.expected
  BY DEF Init, NoCopy
<1>2. Queued(Ingest)
  BY RowsType DEF Init, Queued
<1>3. SoundInv /\ HeldInv
  BY RowsType DEF Init, SoundInv, HeldInv
<1>4. ReadInv /\ IngestInv /\ HandedInv /\ ChunkInv
  BY DEF Init, ReadInv, Copying, IngestInv, Marked, HandedInv, ChunkInv
<1>5. OwnedInv /\ CarriedInv /\ OwedInv
  BY <1>1, <1>2 DEF Init, OwnedInv, CarriedInv, OwedInv
<1> QED
  BY <1>3, <1>4, <1>5 DEF SoloInv

\* The invariant holds of every behaviour of one worker.
THEOREM SoloInvariance == ASSUME OneWorker PROVE Spec => []SoloInv
<1>1. Init => SoloInv
  BY InitSolo
<1>2. IInv /\ SoloInv /\ [Next]_vars => SoloInv'
  <2>1. ASSUME IInv, SoloInv, Next PROVE SoloInv'
    <3>1. CASE TimePasses
      BY <2>1, <3>1, TimePassesStep
    <3>2. CASE \E r \in Rows : LockExpires(r)
      BY <2>1, <3>2, LockExpiresStep
    <3>3. ASSUME NEW w \in Workers,
                 \/ \E r \in Rows : ClaimTask(w, r)
                 \/ Handler(w) \/ Fault(w) \/ Sweep(w)
                 \/ HandleShutdownSignal(w) \/ Shutdown(w)
                 \/ Crash(w) \/ Boot(w) \/ Reclaim(w)
          PROVE  SoloInv'
      <4>1. \/ \E r \in Rows : ClaimTask(w, r)
            \/ IngestLoads(w) \/ SaveReads(w) \/ SaveWrites(w) \/ EnqueueRenderChunks(w)
            \/ InlineRenders(w) \/ ChunkLoads(w) \/ CheckBudget(w) \/ RenderChunk(w)
            \/ PoisonKills(w) \/ RecordFailures(w) \/ Reconcile(w) \/ CompleteBuild(w)
            \/ FinishTask(w) \/ Crash(w) \/ Boot(w) \/ ReclaimUnlocks(w)
            \/ ReclaimRequeues(w) \/ ReclaimFails(w) \/ ReclaimDeletes(w)
        BY <2>1, <3>3, NotTaken DEF Handler, Reclaim
      <4> QED
        BY <2>1, <4>1, ClaimTaskStep, IngestLoadsStep, SaveReadsStep, SaveWritesStep,
           EnqueueRenderChunksStep, InlineRendersStep, ChunkLoadsStep, CheckBudgetStep,
           RenderChunkStep, PoisonKillsStep, RecordFailuresStep, ReconcileStep, CompleteBuildStep,
           FinishTaskStep, CrashStep, BootStep, ReclaimUnlocksStep, ReclaimRequeuesStep,
           ReclaimFailsStep, ReclaimDeletesStep
    <3> QED
      BY <2>1, <3>1, <3>2, <3>3 DEF Next
  <2> QED
    BY <2>1, StutterSolo
<1> QED
  BY <1>1, <1>2, BuildInvariance, PTL DEF Spec

\* A build that one worker has not finished still has a row, or is being claimed back by its
\* restart, wherever the worker crashed and whichever chunks kill it.
THEOREM NeverStranded == ASSUME OneWorker PROVE Spec => []NotStranded
<1>1. SoloInv => NotStranded
  BY RowsType DEF SoloInv, CarriedInv, NotStranded, Unfinished
<1> QED
  BY <1>1, SoloInvariance, PTL

\* One worker posts the result of a build of chunks at most once per batch of its ingest, however
\* often the ingest or a reconcile is cut off and run again.
THEOREM PostedOnce ==
  ASSUME OneWorker, Sizes = {"large"}
  PROVE  Spec => []PostedOncePerRun
<1>1. IInv /\ SoloInv => PostedOncePerRun
  BY DEF IInv, TypeOK, EnvTypeOK, SoloInv, OwedInv, PostedOncePerRun
<1> QED
  BY <1>1, BuildInvariance, SoloInvariance, PTL
=============================================================================
