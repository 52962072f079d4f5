---------------------------- MODULE ShardedBuild ----------------------------
(***************************************************************************)
(* The life of one build: its screenshot_tests row, its task_queue rows,   *)
(* its test results, and the workers that ingest it, render its chunks,    *)
(* sweep it when it looks stuck and reclaim it after a restart             *)
(* (worker/src/ingest.ts, shard.ts and worker.ts).  A chunk stands for the *)
(* one story it renders.                                                   *)
(*                                                                         *)
(* The ingest keeps an in-memory copy of the row and writes it back with   *)
(* TypeORM's save(entity), which reads the row and then updates the        *)
(* columns in which the copy differs.  Every other write is one statement; *)
(* every action makes at most one database update.  How a worker comes to  *)
(* hold a row is module TaskQueue's subject: here a claim is one action.   *)
(***************************************************************************)
EXTENDS Naturals, FiniteSets

CONSTANTS
  Workers, NoWorker,
  Chunks,           \* the chunks planChunks makes of the stories
  MaxBatches,       \* bound on enqueueRenderChunks
  NoRow,
  Sizes,            \* the kinds of build: "small" ones are rendered in the ingest
  Poison,           \* chunks whose render kills the worker
  PromptClaims,     \* no row waits as long as the sweeper's thresholds
  MaxRetryCount,    \* MAX_RETRY_COUNT
  MaxTaskAttempts,  \* WORKER_MAX_TASK_ATTEMPTS
  MaxCrashes, MaxSignals,
  MaxFaults,        \* bound on errors, failed statements and hung calls
  MaxTroubles       \* bound on crashes, signals and faults together

ASSUME BuildAssumption ==
  /\ NoWorker \notin Workers /\ IsFiniteSet(Workers)
  /\ Chunks \subseteq Nat /\ Poison \subseteq Chunks
  /\ MaxBatches \in Nat /\ MaxRetryCount \in Nat /\ MaxTaskAttempts \in Nat \ {0}
  /\ MaxCrashes \in Nat /\ MaxSignals \in Nat /\ MaxFaults \in Nat /\ MaxTroubles \in Nat
  /\ Sizes \subseteq {"small", "large"} /\ PromptClaims \in BOOLEAN
  /\ NoRow \notin Nat \X Nat

VARIABLES
  build,       \* screenshot_tests: status, worker_id, and whether expected_story_count is set
  updated,     \* updated_at: "old" once past the sweeper's threshold
  beat,        \* last_progress_at, likewise; "none" is null
  results,     \* test_results: chunks whose story has a row
  row, by, attempts,   \* task_queue, as in TaskQueue
  mode,        \* what a worker process is doing as a whole
  task, pc,    \* the row a worker works on, and its step
  mem, saving, \* the ingest's copy of the row, and the columns a save is about to write
  err,         \* the error its handler is unwinding with
  fails,       \* failedTasksMap: retry counts
  sweep,       \* the stuck-build sweep of a worker: the status it saw
  starts,      \* history: renders begun for a chunk row
  completed,   \* history: final results posted
  size,        \* "large" from WORKER_SHARD_MIN_STORIES stories on
  batches, crashes, signals, faults

buildVars  == <<build, updated>>
rowVars    == <<row, by, attempts>>
workVars   == <<task, pc, mem, saving, err, fails>>
countVars  == <<starts, completed, batches>>
envVars    == <<size, crashes, signals, faults>>
vars == <<buildVars, beat, results, rowVars, mode, workVars, sweep, countVars, envVars>>

Ingest   == <<0, 0>>
Rows     == {Ingest} \cup ((1 .. MaxBatches) \X Chunks)
ChunkOf(r) == r[2]
Columns  == {"status", "owner", "expected"}
Statuses == {"pending", "running", "ready", "failed"}
Copies   == [status : Statuses, owner : Workers \cup {NoWorker}, expected : BOOLEAN]
\* The steps of an ingest that save the entity, and all others.
Saves    == {"mark", "discover", "handoff", "complete", "abort"}
Steps    == Saves \cup {"idle", "load", "enqueue", "inline", "fatal", "chunk", "budget",
                        "render", "record", "reconcile", "post", "finish", "error",
                        "giveup", "givefail"}
Errors   == {"none", "transient", "permanent", "timeout", "gaveup"}
\* Not saving; otherwise the columns found different.
Idle     == {"idle"}

BuildTypeOK ==
  /\ build \in Copies
  /\ updated \in {"fresh", "old"} /\ beat \in {"none", "fresh", "old"}
  /\ results \in SUBSET Chunks
RowTypeOK ==
  /\ row \in [Rows -> {"absent", "free", "locked", "stale", "gone"}]
  /\ by \in [Rows -> Workers \cup {NoWorker}]
  /\ attempts \in [Rows -> 0 .. MaxTaskAttempts + 1]
  /\ starts \in [Rows -> Nat] /\ completed \in Nat /\ batches \in 0 .. MaxBatches
WorkTypeOK ==
  /\ task \in [Workers -> Rows \cup {NoRow}]
  /\ pc \in [Workers -> Steps]
  /\ mem \in [Workers -> Copies]
  /\ saving \in [Workers -> {Idle} \cup SUBSET Columns]
  /\ err \in [Workers -> Errors]
ModeTypeOK ==
  /\ mode \in [Workers -> {"down", "boot", "unlocked", "condemned", "up", "closing",
                           "released", "drained"}]
  /\ fails \in [Workers -> [Rows -> 0 .. MaxRetryCount]]
  /\ sweep \in [Workers -> {"idle", "pending", "running", "swept"}]
EnvTypeOK ==
  /\ size \in Sizes /\ crashes \in 0 .. MaxCrashes
  /\ signals \in 0 .. MaxSignals /\ faults \in 0 .. MaxFaults
TypeOK == BuildTypeOK /\ RowTypeOK /\ WorkTypeOK /\ ModeTypeOK /\ EnvTypeOK

NoCopy == [status |-> "pending", owner |-> NoWorker, expected |-> FALSE]

\* The upload has created the build and queued its ingest.
Init ==
  /\ build = NoCopy /\ updated = "fresh" /\ beat = "none" /\ results = {}
  /\ row = [r \in Rows |-> IF r = Ingest THEN "free" ELSE "absent"]
  /\ by = [r \in Rows |-> NoWorker] /\ attempts = [r \in Rows |-> 0]
  /\ mode = [w \in Workers |-> "up"]
  /\ task = [w \in Workers |-> NoRow] /\ pc = [w \in Workers |-> "idle"]
  /\ mem = [w \in Workers |-> NoCopy] /\ saving = [w \in Workers |-> Idle]
  /\ err = [w \in Workers |-> "none"]
  /\ fails = [w \in Workers |-> [r \in Rows |-> 0]]
  /\ sweep = [w \in Workers |-> "idle"]
  /\ starts = [r \in Rows |-> 0] /\ completed = 0 /\ batches = 0
  /\ size \in Sizes /\ crashes = 0 /\ signals = 0 /\ faults = 0

----------------------------------------------------------------------------
(* Statements and steps the handlers share.                                *)

Queued(r) == row[r] \in {"free", "locked", "stale"}
InFlight  == build.status \in {"pending", "running"}

\* Both are unguarded: whoever holds the lock.
ReleaseLock(r) ==
  /\ row' = [row EXCEPT ![r] = IF Queued(r) THEN "free" ELSE @]
  /\ by'  = [by EXCEPT ![r] = NoWorker]
  /\ UNCHANGED attempts

DeleteTask(r) ==
  /\ row' = [row EXCEPT ![r] = IF Queued(r) THEN "gone" ELSE @]
  /\ by'  = [by EXCEPT ![r] = NoWorker]
  /\ UNCHANGED attempts

\* UPDATE screenshot_tests SET status, worker_id, updated_at = NOW().
Becomes(status, owner) ==
  /\ build' = [build EXCEPT !.status = status, !.owner = owner]
  /\ updated' = "fresh"

\* The handler of w goes on with step s, or is done with its row.
Goes(w, s, e) ==
  /\ pc' = [pc EXCEPT ![w] = s]
  /\ err' = [err EXCEPT ![w] = e]
  /\ mem' = IF s \in {"finish", "error", "giveup"} THEN [mem EXCEPT ![w] = NoCopy] ELSE mem
  /\ saving' = [saving EXCEPT ![w] = Idle]
  /\ UNCHANGED task

Done(w) ==
  /\ task' = [task EXCEPT ![w] = NoRow]
  /\ pc' = [pc EXCEPT ![w] = "idle"]
  /\ err' = [err EXCEPT ![w] = "none"]
  /\ mem' = [mem EXCEPT ![w] = NoCopy]
  /\ saving' = [saving EXCEPT ![w] = Idle]

MoreTrouble == crashes + signals + faults < MaxTroubles
SpendsFault ==
  /\ MoreTrouble /\ faults < MaxFaults /\ faults' = faults + 1
  /\ UNCHANGED <<size, crashes, signals>>

\* Mistake: an expired lock is never taken over.
ClaimTaskUnlocked(w, r) ==
  /\ mode[w] = "up" /\ task[w] = NoRow
  /\ row[r] = "free"
  /\ row' = [row EXCEPT ![r] = "locked"]
  /\ by' = [by EXCEPT ![r] = w]
  /\ attempts' = [attempts EXCEPT ![r] = IF @ <= MaxTaskAttempts THEN @ + 1 ELSE @]
  /\ task' = [task EXCEPT ![w] = r]
  /\ pc' = [pc EXCEPT ![w] = IF r = Ingest THEN "load" ELSE "chunk"]
  /\ UNCHANGED <<buildVars, beat, results, mode, mem, saving, err, fails, sweep, countVars,
                 envVars>>

\* claimNextTask.  Backoff windows may hide any row, so any may be the next.
ClaimTask(w, r) ==
  /\ mode[w] = "up" /\ task[w] = NoRow
  /\ row[r] \in {"free", "stale"}
  /\ row' = [row EXCEPT ![r] = "locked"]
  /\ by' = [by EXCEPT ![r] = w]
  /\ attempts' = [attempts EXCEPT ![r] = IF @ <= MaxTaskAttempts THEN @ + 1 ELSE @]
  /\ task' = [task EXCEPT ![w] = r]
  /\ pc' = [pc EXCEPT ![w] = IF r = Ingest THEN "load" ELSE "chunk"]
  /\ UNCHANGED <<buildVars, beat, results, mode, mem, saving, err, fails, sweep, countVars,
                 envVars>>

\* The heartbeat of a live owner keeps its lock from expiring.
LockExpires(r) ==
  /\ row[r] = "locked" /\ ~\E w \in Workers : by[r] = w /\ task[w] = r
  /\ row' = [row EXCEPT ![r] = "stale"]
  /\ UNCHANGED <<buildVars, beat, results, by, attempts, mode, workVars, sweep, countVars,
                 envVars>>

----------------------------------------------------------------------------
(* ingestStorybook.                                                        *)

IngestLoads(w) ==
  /\ pc[w] = "load"
  /\ mem' = [mem EXCEPT ![w] = build]
  /\ pc' = [pc EXCEPT ![w] = "mark"]
  /\ UNCHANGED <<buildVars, beat, results, rowVars, mode, task, saving, err, fails, sweep,
                 countVars, envVars>>

\* What each save has changed in the entity, and the step that follows it.
Edited(w) ==
  CASE pc[w] = "mark"     -> [mem[w] EXCEPT !.status = "running", !.owner = w]
    [] pc[w] = "discover" -> [mem[w] EXCEPT !.expected = TRUE]
    [] pc[w] = "handoff"  -> [mem[w] EXCEPT !.owner = NoWorker]
    [] pc[w] = "complete" -> [mem[w] EXCEPT !.status = "ready"]
    [] pc[w] = "abort"    -> [mem[w] EXCEPT !.status = "failed"]

Following(s) == [mark |-> "discover", discover |-> IF size = "small" THEN "inline" ELSE "enqueue",
                 handoff |-> "finish", complete |-> "post", abort |-> "error"][s]

\* save(entity) reads the row again to find the columns in which the copy differs ...
SaveReads(w) ==
  /\ pc[w] \in Saves /\ saving[w] = Idle
  /\ mem' = [mem EXCEPT ![w] = Edited(w)]
  /\ saving' = [saving EXCEPT ![w] = {c \in Columns : Edited(w)[c] # build[c]}]
  /\ UNCHANGED <<buildVars, beat, results, rowVars, mode, task, pc, err, fails, sweep,
                 countVars, envVars>>

\* ... and writes those, whatever has happened to the row since.
SaveWrites(w) ==
  /\ pc[w] \in Saves /\ saving[w] # Idle
  /\ build' = [c \in Columns |-> IF c \in saving[w] THEN mem[w][c] ELSE build[c]]
  /\ updated' = IF saving[w] = {} THEN updated ELSE "fresh"
  /\ Goes(w, Following(pc[w]), err[w])
  /\ UNCHANGED <<beat, results, rowVars, mode, fails, sweep, countVars, envVars>>

\* One INSERT of a row per chunk.
InsertChunks ==
  /\ batches < MaxBatches
  /\ batches' = batches + 1
  /\ row' = [r \in Rows |-> IF r # Ingest /\ r[1] = batches' THEN "free" ELSE row[r]]
  /\ UNCHANGED <<by, attempts>>

EnqueueRenderChunks(w) ==
  /\ pc[w] = "enqueue"
  /\ InsertChunks
  /\ Goes(w, "handoff", "none")
  /\ UNCHANGED <<buildVars, beat, results, mode, fails, sweep, starts, completed, envVars>>

\* The rows are committed, but the ingest sees an error.
EnqueueReplyLost(w) ==
  /\ pc[w] = "enqueue" /\ SpendsFault
  /\ InsertChunks
  /\ Goes(w, "abort", "transient")
  /\ UNCHANGED <<buildVars, beat, results, mode, fails, sweep, starts, completed>>

InlineRenders(w) ==
  /\ pc[w] = "inline"
  /\ results' = Chunks /\ beat' = "fresh"
  /\ Goes(w, "complete", "none")
  /\ UNCHANGED <<buildVars, rowVars, mode, fails, sweep, countVars, envVars>>

\* Once the build is marked running, every error makes the ingest save it as failed.
IngestErrs(w, e) ==
  /\ \/ pc[w] \in Saves \cup {"load", "enqueue", "inline"}
     \/ size = "small" /\ pc[w] = "post"
  /\ task[w] = Ingest /\ SpendsFault
  /\ e = "permanent" => pc[w] = "discover"
  /\ e = "timeout" => pc[w] = "inline"
  /\ Goes(w, IF pc[w] \in {"load", "mark", "abort"} THEN "error" ELSE "abort", e)
  /\ UNCHANGED <<buildVars, beat, results, rowVars, mode, fails, sweep, countVars>>

----------------------------------------------------------------------------
(* runRenderChunk.                                                         *)

ChunkLoads(w) ==
  /\ pc[w] = "chunk"
  /\ Goes(w, IF build.status = "running" THEN "budget" ELSE "finish", "none")
  /\ UNCHANGED <<buildVars, beat, results, rowVars, mode, fails, sweep, countVars, envVars>>

\* Mistake: no bound across restarts.
CheckBudgetNever(w) ==
  /\ pc[w] = "budget"
  /\ Goes(w, "render", "none")
  /\ starts' = [starts EXCEPT ![task[w]] = @ + 1]
  /\ UNCHANGED <<buildVars, beat, results, rowVars, mode, fails, sweep, completed, batches,
                 envVars>>

\* attempts survives crashes; a row that is gone has no budget to exceed.
CheckBudget(w) ==
  LET r == task[w]
      spent == Queued(r) /\ attempts[r] > MaxTaskAttempts
  IN /\ pc[w] = "budget"
     /\ Goes(w, IF spent THEN "record" ELSE "render", "none")
     /\ starts' = [starts EXCEPT ![r] = IF spent THEN @ ELSE @ + 1]
     /\ UNCHANGED <<buildVars, beat, results, rowVars, mode, fails, sweep, completed, batches,
                    envVars>>

RenderChunk(w) ==
  /\ pc[w] = "render" /\ ChunkOf(task[w]) \notin Poison
  /\ results' = results \cup {ChunkOf(task[w])}
  /\ beat' = "fresh"
  /\ Goes(w, "reconcile", "none")
  /\ UNCHANGED <<buildVars, rowVars, mode, fails, sweep, countVars, envVars>>

\* Mistake: the failures of a chunk are only logged.
RecordFailuresLost(w) ==
  /\ pc[w] = "record"
  /\ Goes(w, "reconcile", err[w])
  /\ UNCHANGED <<buildVars, beat, results, rowVars, mode, fails, sweep, countVars, envVars>>

\* recordChunkStoryFailures: a failed result for a story that has none.
RecordFailures(w) ==
  /\ pc[w] = "record"
  /\ results' = results \cup {ChunkOf(task[w])}
  /\ Goes(w, "reconcile", err[w])
  /\ UNCHANGED <<buildVars, beat, rowVars, mode, fails, sweep, countVars, envVars>>

\* A rendered chunk is deleted, and so is one that timed out; a given-up one already is.
Continues(w) == \/ err[w] = "none" /\ Goes(w, "finish", "none")
                \/ err[w] = "timeout" /\ Goes(w, "error", "timeout")
                \/ err[w] = "gaveup" /\ Done(w)

\* Mistakes: one result short, and without the guard on the status.
CompleteShort == build.status = "running" /\ build.expected
                 /\ Cardinality(results) + 1 >= Cardinality(Chunks)
CompleteAnyStatus == build.expected /\ results = Chunks

\* RECONCILE_SQL.
Complete == build.status = "running" /\ build.expected /\ results = Chunks

\* Mistake: the flip is read but not written.
ReconcileWithoutFlip(w) ==
  /\ pc[w] = "reconcile"
  /\ IF Complete THEN Goes(w, "post", err[w]) ELSE Continues(w)
  /\ UNCHANGED <<buildVars, beat, results, rowVars, mode, fails, sweep, countVars, envVars>>

Reconcile(w) ==
  /\ pc[w] = "reconcile"
  /\ IF Complete
     THEN Becomes("ready", build.owner) /\ Goes(w, "post", err[w])
     ELSE UNCHANGED buildVars /\ Continues(w)
  /\ UNCHANGED <<beat, results, rowVars, mode, fails, sweep, countVars, envVars>>

\* completeBuild: the winner posts the final result.
CompleteBuild(w) ==
  /\ pc[w] = "post"
  /\ completed' = completed + 1
  /\ Continues(w)
  /\ UNCHANGED <<buildVars, beat, results, rowVars, mode, fails, sweep, starts, batches,
                 envVars>>

\* Only a watchdog abort has its failures recorded; errors of that are only logged.
ChunkErrs(w, e) ==
  /\ pc[w] \in {"chunk", "budget", "render", "record", "reconcile", "post"}
  /\ task[w] # Ingest /\ SpendsFault
  /\ e # "transient" => pc[w] = "render"
  /\ IF err[w] = "gaveup" THEN Done(w)
     ELSE Goes(w, IF e = "timeout" THEN "record" ELSE "error",
                  IF err[w] = "timeout" THEN "timeout" ELSE e)
  /\ UNCHANGED <<buildVars, beat, results, rowVars, mode, fails, sweep, countVars>>

----------------------------------------------------------------------------
(* The end of a task (processTask, pollForNewTasks, giveUpOnTask).         *)

FinishTask(w) ==
  /\ pc[w] = "finish"
  /\ DeleteTask(task[w])
  /\ fails' = [fails EXCEPT ![w][task[w]] = 0]
  /\ Done(w)
  /\ UNCHANGED <<buildVars, beat, results, mode, sweep, countVars, envVars>>

FinishFails(w) ==
  /\ pc[w] = "finish" /\ SpendsFault
  /\ Goes(w, "error", "transient")
  /\ UNCHANGED <<buildVars, beat, results, rowVars, mode, fails, sweep, countVars>>

\* Mistake: one retry too many.
BooksOnceMore(w) ==
  LET r == task[w]
  IN \/ Done(w) /\ UNCHANGED fails
     \/ /\ fails[w][r] <= MaxRetryCount
        /\ fails' = [fails EXCEPT ![w][r] = @ + 1]
        /\ Done(w)
     \/ /\ fails[w][r] > MaxRetryCount
        /\ fails' = [fails EXCEPT ![w][r] = 0]
        /\ Goes(w, "giveup", "gaveup")

\* A transient error of a polled task counts; one of a notified task does not.
Books(w) ==
  LET r == task[w]
  IN \/ Done(w) /\ UNCHANGED fails
     \/ /\ fails[w][r] < MaxRetryCount
        /\ fails' = [fails EXCEPT ![w][r] = @ + 1]
        /\ Done(w)
     \/ /\ fails[w][r] = MaxRetryCount
        /\ fails' = [fails EXCEPT ![w][r] = 0]
        /\ Goes(w, "giveup", "gaveup")

FailTask(w) ==
  /\ pc[w] = "error"
  /\ IF err[w] = "transient"
     THEN ReleaseLock(task[w]) /\ Books(w)
     ELSE DeleteTask(task[w]) /\ Done(w) /\ UNCHANGED fails
  /\ UNCHANGED <<buildVars, beat, results, mode, sweep, countVars, envVars>>

FailTaskFails(w) ==
  /\ pc[w] = "error" /\ SpendsFault
  /\ Books(w)
  /\ UNCHANGED <<buildVars, beat, results, rowVars, mode, sweep, countVars>>

\* An ingest that is given up fails its build; a chunk has its failures recorded.
GiveUpOnTask(w) ==
  /\ pc[w] = "giveup"
  /\ DeleteTask(task[w])
  /\ IF ~Queued(task[w]) THEN Done(w)
     ELSE Goes(w, IF task[w] = Ingest THEN "givefail" ELSE "record", "gaveup")
  /\ UNCHANGED <<buildVars, beat, results, mode, fails, sweep, countVars, envVars>>

GiveUpOnBuild(w) ==
  /\ pc[w] = "givefail"
  /\ IF InFlight THEN Becomes("failed", build.owner) ELSE UNCHANGED buildVars
  /\ Done(w)
  /\ UNCHANGED <<beat, results, rowVars, mode, fails, sweep, countVars, envVars>>

GiveUpFails(w) ==
  /\ pc[w] \in {"giveup", "givefail"} /\ SpendsFault
  /\ Done(w)
  /\ UNCHANGED <<buildVars, beat, results, rowVars, mode, fails, sweep, countVars>>

----------------------------------------------------------------------------
(* The stuck-build sweeper (sweepStuckBuilds), a timer of every worker.    *)

\* A threshold passes with nobody at work on the build (or one hung call).
TimePasses ==
  /\ \/ (\A w \in Workers : task[w] = NoRow) /\ UNCHANGED envVars
     \/ (\E w \in Workers : task[w] # NoRow) /\ SpendsFault
  /\ PromptClaims => \A r \in Rows : ~Queued(r)
  /\ "fresh" \in {beat, updated}
  /\ beat' = IF beat = "none" THEN "none" ELSE "old"
  /\ \/ updated' = "old"
     \/ build.status = "pending" /\ beat = "fresh" /\ UNCHANGED updated
  /\ UNCHANGED <<build, results, rowVars, mode, workVars, sweep, countVars>>

\* Mistake: no fallback to updated_at.
StuckNeedsBeat == \/ build.status = "running" /\ beat = "old"
                  \/ build.status = "pending" /\ updated = "old"

\* COALESCE(last_progress_at, updated_at) of a running build, updated_at of a pending one.
Stuck == \/ build.status = "running" /\ "old" = IF beat = "none" THEN updated ELSE beat
         \/ build.status = "pending" /\ updated = "old"

SweepSelects(w) ==
  /\ mode[w] = "up" /\ sweep[w] = "idle" /\ Stuck
  /\ sweep' = [sweep EXCEPT ![w] = build.status]
  /\ UNCHANGED <<buildVars, beat, results, rowVars, mode, workVars, countVars, envVars>>

\* UPDATE ... SET status = 'failed' WHERE status = what the sweep saw.
SweepFails(w) ==
  /\ sweep[w] \in {"pending", "running"}
  /\ IF build.status = sweep[w]
     THEN Becomes("failed", build.owner) /\ sweep' = [sweep EXCEPT ![w] = "swept"]
     ELSE UNCHANGED buildVars /\ sweep' = [sweep EXCEPT ![w] = "idle"]
  /\ UNCHANGED <<beat, results, rowVars, mode, workVars, countVars, envVars>>

SweepDeletes(w) ==
  /\ sweep[w] = "swept"
  /\ row' = [r \in Rows |-> IF Queued(r) THEN "gone" ELSE row[r]]
  /\ by' = [r \in Rows |-> NoWorker]
  /\ sweep' = [sweep EXCEPT ![w] = "idle"]
  /\ UNCHANGED <<buildVars, beat, results, attempts, mode, workVars, countVars, envVars>>

----------------------------------------------------------------------------
(* Deaths, shutdown and the startup reclaim.                               *)

Dies(w) ==
  /\ mode' = [mode EXCEPT ![w] = "down"]
  /\ Done(w)
  /\ fails' = [fails EXCEPT ![w] = [r \in Rows |-> 0]]
  /\ sweep' = [sweep EXCEPT ![w] = "idle"]
  /\ UNCHANGED <<beat, results, countVars>>

Crash(w) ==
  /\ mode[w] # "down" /\ MoreTrouble /\ crashes < MaxCrashes
  /\ crashes' = crashes + 1
  /\ Dies(w)
  /\ UNCHANGED <<buildVars, rowVars, size, signals, faults>>

PoisonKills(w) ==
  /\ pc[w] = "render" /\ ChunkOf(task[w]) \in Poison
  /\ Dies(w)
  /\ UNCHANGED <<buildVars, rowVars, envVars>>

\* The render of a chunk does not unwind: unlockChunkTask, then process.exit.
ChunkWedges(w) ==
  /\ pc[w] = "render" /\ SpendsFault
  /\ ReleaseLock(task[w])
  /\ Dies(w)
  /\ UNCHANGED buildVars

\* That of an inline build does not: failBuildBeforeExit, then process.exit.
InlineWedges(w) ==
  /\ pc[w] = "inline" /\ SpendsFault
  /\ IF InFlight THEN Becomes("failed", build.owner) ELSE UNCHANGED buildVars
  /\ Goes(w, "fatal", "none")
  /\ UNCHANGED <<beat, results, rowVars, mode, fails, sweep, countVars>>

FatalDeletes(w) ==
  /\ pc[w] = "fatal"
  /\ DeleteTask(task[w])
  /\ Dies(w)
  /\ UNCHANGED <<buildVars, envVars>>

HandleShutdownSignal(w) ==
  /\ mode[w] = "up" /\ MoreTrouble /\ signals < MaxSignals
  /\ signals' = signals + 1
  /\ mode' = [mode EXCEPT ![w] = "closing"]
  /\ UNCHANGED <<buildVars, beat, results, rowVars, workVars, sweep, countVars, size,
                 crashes, faults>>

\* A give-up no longer counts as the current task.
ShutdownReleases(w) ==
  /\ mode[w] = "closing"
  /\ mode' = [mode EXCEPT ![w] = "released"]
  /\ \/ (task[w] = NoRow \/ err[w] = "gaveup") /\ UNCHANGED <<rowVars, envVars>>
     \/ task[w] # NoRow /\ err[w] # "gaveup" /\ ReleaseLock(task[w]) /\ UNCHANGED envVars
     \/ task[w] # NoRow /\ err[w] # "gaveup" /\ UNCHANGED rowVars /\ SpendsFault
  /\ UNCHANGED <<buildVars, beat, results, workVars, sweep, countVars>>

ShutdownResets(w) ==
  /\ mode[w] = "released"
  /\ mode' = [mode EXCEPT ![w] = "drained"]
  /\ LET mine == build.status = "running" /\ build.owner = w
     IN \/ mine /\ Becomes("pending", NoWorker) /\ UNCHANGED envVars
        \/ ~mine /\ UNCHANGED <<buildVars, envVars>>
        \/ mine /\ UNCHANGED buildVars /\ SpendsFault
  /\ UNCHANGED <<beat, results, rowVars, workVars, sweep, countVars>>

ShutdownExits(w) ==
  /\ mode[w] = "drained"
  /\ Dies(w)
  /\ UNCHANGED <<buildVars, rowVars, envVars>>

\* reclaimOrphanedBuilds looks for a running build that carries this worker's id.
Boot(w) ==
  /\ mode[w] = "down"
  /\ mode' = [mode EXCEPT ![w] =
                IF build.status = "running" /\ build.owner = w THEN "boot" ELSE "up"]
  /\ UNCHANGED <<buildVars, beat, results, rowVars, workVars, sweep, countVars, envVars>>

ReclaimUnlocks(w) ==
  /\ mode[w] = "boot"
  /\ Queued(Ingest) /\ attempts[Ingest] < MaxTaskAttempts
  /\ ReleaseLock(Ingest)
  /\ mode' = [mode EXCEPT ![w] = "unlocked"]
  /\ UNCHANGED <<buildVars, beat, results, workVars, sweep, countVars, envVars>>

ReclaimRequeues(w) ==
  /\ mode[w] = "unlocked"
  /\ IF build.status = "running" THEN Becomes("pending", NoWorker) ELSE UNCHANGED buildVars
  /\ mode' = [mode EXCEPT ![w] = "up"]
  /\ UNCHANGED <<beat, results, rowVars, workVars, sweep, countVars, envVars>>

ReclaimFails(w) ==
  /\ mode[w] = "boot"
  /\ ~Queued(Ingest) \/ attempts[Ingest] >= MaxTaskAttempts
  /\ IF build.status = "running" THEN Becomes("failed", NoWorker) ELSE UNCHANGED buildVars
  /\ mode' = [mode EXCEPT ![w] = "condemned"]
  /\ UNCHANGED <<beat, results, rowVars, workVars, sweep, countVars, envVars>>

ReclaimDeletes(w) ==
  /\ mode[w] = "condemned"
  /\ DeleteTask(Ingest)
  /\ mode' = [mode EXCEPT ![w] = "up"]
  /\ UNCHANGED <<buildVars, beat, results, workVars, sweep, countVars, envVars>>

\* An error in the reclaim is only logged.
ReclaimErrs(w) ==
  /\ mode[w] \in {"boot", "unlocked", "condemned"} /\ SpendsFault
  /\ mode' = [mode EXCEPT ![w] = "up"]
  /\ UNCHANGED <<buildVars, beat, results, rowVars, workVars, sweep, countVars>>

----------------------------------------------------------------------------
Handler(w) ==
  \/ IngestLoads(w) \/ SaveReads(w) \/ SaveWrites(w) \/ EnqueueRenderChunks(w) \/ InlineRenders(w)
  \/ ChunkLoads(w) \/ CheckBudget(w) \/ RenderChunk(w) \/ PoisonKills(w) \/ RecordFailures(w)
  \/ Reconcile(w) \/ CompleteBuild(w) \/ FinishTask(w) \/ FailTask(w)
  \/ GiveUpOnTask(w) \/ GiveUpOnBuild(w) \/ FatalDeletes(w)

Fault(w) ==
  \/ EnqueueReplyLost(w) \/ FinishFails(w) \/ FailTaskFails(w) \/ GiveUpFails(w)
  \/ \E e \in {"transient", "permanent", "timeout"} : IngestErrs(w, e) \/ ChunkErrs(w, e)
  \/ ChunkWedges(w) \/ InlineWedges(w) \/ ReclaimErrs(w)

Sweep(w)    == SweepSelects(w) \/ SweepFails(w) \/ SweepDeletes(w)
Shutdown(w) == ShutdownReleases(w) \/ ShutdownResets(w) \/ ShutdownExits(w)
Reclaim(w)  == ReclaimUnlocks(w) \/ ReclaimRequeues(w) \/ ReclaimFails(w) \/ ReclaimDeletes(w)

Next ==
  \/ TimePasses
  \/ \E r \in Rows : LockExpires(r)
  \/ \E w \in Workers :
       \/ \E r \in Rows : ClaimTask(w, r)
       \/ Handler(w) \/ Fault(w) \/ Sweep(w)
       \/ HandleShutdownSignal(w) \/ Shutdown(w)
       \/ Crash(w) \/ Boot(w) \/ Reclaim(w)

Spec == Init /\ [][Next]_vars

\* Timers fire, replies arrive, rows are claimed, a dead worker is restarted.
FairSpec ==
  /\ Spec
  /\ WF_vars(TimePasses)
  /\ \A r \in Rows : WF_vars(LockExpires(r)) /\ WF_vars(\E w \in Workers : ClaimTask(w, r))
  /\ \A w \in Workers : /\ WF_vars(Handler(w)) /\ WF_vars(Sweep(w)) /\ WF_vars(Shutdown(w))
                        /\ WF_vars(Boot(w)) /\ WF_vars(Reclaim(w))

----------------------------------------------------------------------------
(* Properties.                                                             *)

\* A build is shown as finished only if every story found has a result, whatever
\* the order in which ingests, chunks, retries and stale copies write the row (a
\* stale copy may well clear the expected count of a finished build).
FinishedIsComplete == build.status = "ready" => results = Chunks

\* attempts bounds the renders of a chunk over crashes, lost locks and retries; more
\* can begin only once the row has been deleted from under a claim.
StartsBounded == \A r \in Rows : starts[r] > MaxTaskAttempts => row[r] = "gone"

\* A build that is not finished always has a row, or a worker, to finish it.
NotStranded ==
  InFlight => \/ \E r \in Rows : Queued(r)
              \/ \E w \in Workers : task[w] # NoRow \/ mode[w] \in {"boot", "unlocked"}

\* The final result of a build is posted at most once per run of its ingest.
PostedOncePerRun == completed <= IF size = "small" THEN attempts[Ingest] ELSE batches

\* A build that has been failed is not finished by chunks still being rendered.
FailedNotFinished == [][build.status = "failed" => build'.status # "ready"]_vars

\* The sweeper never fails a build a live worker is busy with.
SweepSparesActive ==
  [][\A w \in Workers : sweep[w] = "running" /\ sweep'[w] = "swept"
       => \A v \in Workers : task[v] = NoRow]_vars

\* A build is settled in the end, by its chunks, a give-up, the reclaim or the sweeper.
Settles == <>[]~InFlight

\* Every row is deleted in the end.
Drains == <>[](\A r \in Rows : ~Queued(r))

\* The workers that have made the build ready and not yet posted that it is.
Posting == {w \in Workers : pc[w] = "post"}
Life == INSTANCE BuildLife WITH Stories <- Chunks, Posters <- Workers,
          status <- build.status, done <- results, owing <- Posting, posted <- completed

\* Whatever the workers do to a build rendered by chunks, what is seen of it keeps the
\* promise of BuildLife: it becomes ready only while running and complete, and each
\* time exactly one worker owes the post, which is made at most once.
KeepsPromise == Life!Spec

\* A chunk that kills every worker costs its own story, not the build.
Converges == <>(build.status = "ready")
=============================================================================
