----------------------------- MODULE TaskQueue -----------------------------
(***************************************************************************)
(* The task_queue table and the workers that drain it (worker/src/tasks.ts *)
(* and worker/src/worker.ts).  A task is the ingest_storybook row of one   *)
(* build; what happens inside the render is left to module ShardedBuild    *)
(* and appears here as an outcome.                                         *)
(*                                                                         *)
(* A worker process is single threaded but runs three promise chains, its  *)
(* "drivers": the poll loop, the NOTIFY handler and the startup reclaim.   *)
(* Every action is one database update together with the reads just before *)
(* it and the JavaScript that runs when its reply arrives (a claim and its *)
(* reply are two actions), so any step of another worker, a signal or a    *)
(* crash may fall between two updates of one handler.                      *)
(***************************************************************************)
EXTENDS Naturals, FiniteSets

CONSTANTS
  Workers,          \* WORKER_IDs (hostnames, stable over a restart)
  Tasks,            \* ids of ingest_storybook rows; smaller is older
  NoTask, NoWorker, \* the null of a task id and of a worker id
  Dep,              \* Dep[t]: the task of t's baseline build, or NoTask
  Preloaded,        \* tasks already queued when the workers start
  Poison,           \* tasks whose render kills the worker every time
  FastRestart,      \* a dead worker is back before its locks expire
  MaxRetryCount,    \* MAX_RETRY_COUNT
  MaxDeferCount,    \* MAX_DEFER_COUNT
  MaxTaskAttempts,  \* WORKER_MAX_TASK_ATTEMPTS
  MaxCrashes,       \* bound on crashes (SIGKILL, OOM, fatal exits)
  MaxSignals,       \* bound on SIGTERM / SIGINT
  MaxFaults         \* bound on failed statements and VCS calls

ASSUME QueueAssumption ==
  /\ Tasks \subseteq Nat
  /\ NoTask \notin Tasks /\ NoWorker \notin Workers
  /\ Dep \in [Tasks -> Tasks \cup {NoTask}]
  /\ Preloaded \subseteq Tasks /\ Poison \subseteq Tasks
  /\ FastRestart \in BOOLEAN
  /\ MaxRetryCount \in Nat /\ MaxDeferCount \in Nat
  /\ MaxTaskAttempts \in Nat \ {0}
  /\ MaxCrashes \in Nat /\ MaxSignals \in Nat /\ MaxFaults \in Nat

VARIABLES
  row,       \* the row of a task, and the age of its lock
  by,        \* locked_by
  attempts,  \* attempts, saturated at MaxTaskAttempts: only "<" is asked
  build,     \* the status of the task's build; "closed" is every terminal one
  owner,     \* screenshot_tests.worker_id
  mode,      \* what a worker process is doing as a whole
  inFlight,  \* claimInFlight
  current,   \* currentTaskId
  pc, job,   \* where each driver is, and the task it holds
  err,       \* the error a driver's handler is unwinding with
  fails,     \* failedTasksMap: retry counts
  backing,   \* failedTasksMap: tasks inside their backoff window
  defers,    \* deferredTasksMap: defer counts
  deferring, \* deferredTasksMap: tasks inside their defer window
  notified,  \* NOTIFYs a worker has not handled yet
  orphans,   \* builds the startup reclaim has still to visit
  disturbed, \* history: tasks dropped by a signal, a crash or a give-up cut short
  crashes, signals, faults

rowVars     == <<row, by, attempts>>
buildVars   == <<build, owner>>
mapVars     == <<fails, backing, defers, deferring>>
driverVars  == <<inFlight, current, pc, job, err>>
faultVars   == <<crashes, signals, faults>>
vars == <<rowVars, buildVars, mode, driverVars, mapVars, notified, orphans,
          disturbed, faultVars>>

Drivers == {"poll", "notify", "boot"}
Procs   == Workers \X Drivers

RowStates == {"absent", "free", "locked", "stale", "gone"}
Modes     == {"down", "boot", "up", "closing", "released", "drained"}
Errors    == {"none", "dependency", "permanent", "timeout", "transient"}
\* A driver that holds a claim: startTask runs from "gate" to "failed".
Holding   == {"reply", "refuse", "gate", "start", "work", "done", "failed"}
Running   == {"gate", "start", "work", "done", "failed"}
Steps     == {"idle", "repoll", "giveup", "fail", "unlocked", "condemned"} \cup Holding

TypeOK ==
  /\ row \in [Tasks -> RowStates]
  /\ by \in [Tasks -> Workers \cup {NoWorker}]
  /\ attempts \in [Tasks -> 0 .. MaxTaskAttempts]
  /\ build \in [Tasks -> {"pending", "running", "closed"}]
  /\ owner \in [Tasks -> Workers \cup {NoWorker}]
  /\ mode \in [Workers -> Modes]
  /\ inFlight \in [Workers -> BOOLEAN]
  /\ current \in [Workers -> Tasks \cup {NoTask}]
  /\ pc \in [Procs -> Steps]
  /\ job \in [Procs -> Tasks \cup {NoTask}]
  /\ err \in [Procs -> Errors]
  /\ fails \in [Workers -> [Tasks -> 0 .. MaxRetryCount]]
  /\ backing \in [Workers -> SUBSET Tasks]
  /\ defers \in [Workers -> [Tasks -> 0 .. MaxDeferCount]]
  /\ deferring \in [Workers -> SUBSET Tasks]
  /\ notified \in [Workers -> SUBSET Tasks]
  /\ orphans \in [Workers -> SUBSET Tasks]
  /\ disturbed \in SUBSET Tasks
  /\ crashes \in 0 .. MaxCrashes
  /\ signals \in 0 .. MaxSignals
  /\ faults \in 0 .. MaxFaults

Init ==
  /\ row = [t \in Tasks |-> IF t \in Preloaded THEN "free" ELSE "absent"]
  /\ by = [t \in Tasks |-> NoWorker]
  /\ attempts = [t \in Tasks |-> 0]
  /\ build = [t \in Tasks |-> "pending"]
  /\ owner = [t \in Tasks |-> NoWorker]
  /\ mode = [w \in Workers |-> "up"]
  /\ inFlight = [w \in Workers |-> FALSE]
  /\ current = [w \in Workers |-> NoTask]
  /\ pc = [p \in Procs |-> "idle"]
  /\ job = [p \in Procs |-> NoTask]
  /\ err = [p \in Procs |-> "none"]
  /\ fails = [w \in Workers |-> [t \in Tasks |-> 0]]
  /\ backing = [w \in Workers |-> {}]
  /\ defers = [w \in Workers |-> [t \in Tasks |-> 0]]
  /\ deferring = [w \in Workers |-> {}]
  /\ notified = [w \in Workers |-> {}]
  /\ orphans = [w \in Workers |-> {}]
  /\ disturbed = {}
  /\ crashes = 0 /\ signals = 0 /\ faults = 0

----------------------------------------------------------------------------
(* The statements on task_queue.                                           *)

Queued(t) == row[t] \in {"free", "locked", "stale"}

\* UPDATE ... SET locked_at = NULL WHERE id = t: whoever holds the lock.
ReleaseLock(t) ==
  /\ row' = [row EXCEPT ![t] = IF Queued(t) THEN "free" ELSE @]
  /\ by'  = [by EXCEPT ![t] = NoWorker]
  /\ UNCHANGED attempts

\* DELETE ... WHERE id = t: whoever holds the lock.
DeleteTask(t) ==
  /\ row' = [row EXCEPT ![t] = IF Queued(t) THEN "gone" ELSE @]
  /\ by'  = [by EXCEPT ![t] = NoWorker]
  /\ UNCHANGED attempts

\* The task-lock heartbeat keeps a lock fresh while its owner works on the task
\* (a claim whose reply is under way is younger than the expiry anyway).
Beating(t) == \E d \in Drivers : /\ by[t] \in Workers
                                 /\ job[<<by[t], d>>] = t
                                 /\ pc[<<by[t], d>>] \in Holding

\* WORKER_TASK_LOCK_TIMEOUT_MINUTES pass without a heartbeat.
LockExpires(t) ==
  /\ row[t] = "locked" /\ ~Beating(t)
  /\ FastRestart => \A w \in Workers : by[t] = w => mode[w] \notin {"down", "boot"}
  /\ row' = [row EXCEPT ![t] = "stale"]
  /\ UNCHANGED <<by, attempts, buildVars, mode, driverVars, mapVars, notified,
                 orphans, disturbed, faultVars>>

\* The api inserts the row; the trigger notifies every listening worker.
Enqueue(t) ==
  /\ row[t] = "absent"
  /\ row' = [row EXCEPT ![t] = "free"]
  /\ notified' = [w \in Workers |-> IF mode[w] = "up" THEN notified[w] \cup {t}
                                                     ELSE notified[w]]
  /\ UNCHANGED <<by, attempts, buildVars, mode, driverVars, mapVars, orphans,
                 disturbed, faultVars>>

----------------------------------------------------------------------------
(* failedTasksMap and deferredTasksMap of worker w: counts and windows.    *)

Clear(f, w, t) == [f EXCEPT ![w][t] = 0]
Drop(f, w, t)  == [f EXCEPT ![w] = @ \ {t}]
Bump(f, w, t, max) == [f EXCEPT ![w][t] = IF @ < max THEN @ + 1 ELSE @]

----------------------------------------------------------------------------
(* Claiming.                                                               *)

ShuttingDown(w) == mode[w] \in {"closing", "released", "drained"}
CurrentExcludeIds(w) == deferring[w] \cup backing[w]
Eligible(w) == {t \in Tasks : row[t] \in {"free", "stale"}} \ CurrentExcludeIds(w)

\* Mistake: the claimInFlight guard is missing.
IdleUnguarded(w) == mode[w] = "up" /\ current[w] = NoTask

Idle(w) == mode[w] = "up" /\ current[w] = NoTask /\ ~inFlight[w]

\* One UPDATE picks the oldest eligible row and locks it.
ClaimNextTask(w, d, t) ==
  /\ t \in Eligible(w)
  /\ \A u \in Eligible(w) : t <= u
  /\ row' = [row EXCEPT ![t] = "locked"]
  /\ by'  = [by EXCEPT ![t] = w]
  /\ attempts' = [attempts EXCEPT ![t] = IF @ < MaxTaskAttempts THEN @ + 1 ELSE @]
  /\ inFlight' = [inFlight EXCEPT ![w] = TRUE]
  /\ pc'  = [pc EXCEPT ![<<w, d>>] = "reply"]
  /\ job' = [job EXCEPT ![<<w, d>>] = t]
  /\ UNCHANGED <<buildVars, mode, current, err, mapVars, orphans, disturbed, faultVars>>

PollClaims(w) ==
  /\ pc[<<w, "poll">>] \in {"idle", "repoll"}
  /\ Idle(w)
  /\ \E t \in Tasks : ClaimNextTask(w, "poll", t)
  /\ UNCHANGED notified

\* Busy, or nothing eligible: back to the long poll interval.
PollFindsNothing(w) ==
  /\ pc[<<w, "poll">>] = "repoll" /\ mode[w] = "up"
  /\ ~Idle(w) \/ Eligible(w) = {}
  /\ pc' = [pc EXCEPT ![<<w, "poll">>] = "idle"]
  /\ UNCHANGED <<rowVars, buildVars, mode, inFlight, current, job, err, mapVars,
                 notified, orphans, disturbed, faultVars>>

\* The payload is only a wake-up: the claim takes the oldest row, not this one.
NotifyClaims(w) ==
  /\ Idle(w)
  /\ \E n \in notified[w] : notified' = [notified EXCEPT ![w] = @ \ {n}]
  /\ \E t \in Tasks : ClaimNextTask(w, "notify", t)

NotifyFindsNothing(w) ==
  /\ ~Idle(w) \/ Eligible(w) = {}
  /\ mode[w] # "down"
  /\ \E n \in notified[w] : notified' = [notified EXCEPT ![w] = @ \ {n}]
  /\ UNCHANGED <<rowVars, buildVars, mode, driverVars, mapVars, orphans, disturbed, faultVars>>

\* The claim's reply reaches startTask, which may have to refuse the row.
StartTask(p) ==
  LET w == p[1]
      refused == ShuttingDown(w) \/ current[w] # NoTask
  IN /\ pc[p] = "reply"
     /\ inFlight' = [inFlight EXCEPT ![w] = FALSE]
     /\ pc' = [pc EXCEPT ![p] = IF refused THEN "refuse" ELSE "gate"]
     /\ current' = [current EXCEPT ![w] = IF refused THEN @ ELSE job[p]]
     /\ UNCHANGED <<rowVars, buildVars, mode, job, err, mapVars, notified, orphans,
                    disturbed, faultVars>>

\* startTask returns normally after the release, so the poll loop calls it a success.
RefuseTask(p) ==
  LET w == p[1]
  IN /\ pc[p] = "refuse"
     /\ ReleaseLock(job[p])
     /\ pc' = [pc EXCEPT ![p] = "idle"]
     /\ job' = [job EXCEPT ![p] = NoTask]
     /\ defers' = IF p[2] = "poll" THEN Clear(defers, w, job[p]) ELSE defers
     /\ deferring' = IF p[2] = "poll" THEN Drop(deferring, w, job[p]) ELSE deferring
     /\ UNCHANGED <<buildVars, mode, inFlight, current, err, fails, backing, notified,
                    orphans, disturbed, faultVars>>

\* The claim is committed but its reply is lost: a locked row nobody knows of.
ClaimReplyLost(p) ==
  /\ pc[p] = "reply" /\ faults < MaxFaults
  /\ faults' = faults + 1
  /\ inFlight' = [inFlight EXCEPT ![p[1]] = FALSE]
  /\ pc' = [pc EXCEPT ![p] = "idle"]
  /\ job' = [job EXCEPT ![p] = NoTask]
  /\ UNCHANGED <<rowVars, buildVars, mode, current, err, mapVars, notified, orphans,
                 disturbed, crashes, signals>>

----------------------------------------------------------------------------
(* processTask.                                                            *)

BaselinePending(t) == Dep[t] # NoTask /\ build[Dep[t]] \in {"pending", "running"}

\* Mistake: a deferral is not capped by MAX_DEFER_COUNT.
CheckBaselineUncapped(p) ==
  LET deferred == BaselinePending(job[p])
  IN /\ pc[p] = "gate"
     /\ pc' = [pc EXCEPT ![p] = IF deferred THEN "failed" ELSE "start"]
     /\ err' = [err EXCEPT ![p] = IF deferred THEN "dependency" ELSE "none"]
     /\ UNCHANGED <<rowVars, buildVars, mode, inFlight, current, job, mapVars, notified,
                    orphans, disturbed, faultVars>>

\* isBaselineBuildPending is read here; the build is only marked running later.
CheckBaseline(p) ==
  LET t == job[p]
      deferred == defers[p[1]][t] < MaxDeferCount /\ BaselinePending(t)
  IN /\ pc[p] = "gate"
     /\ pc' = [pc EXCEPT ![p] = IF deferred THEN "failed" ELSE "start"]
     /\ err' = [err EXCEPT ![p] = IF deferred THEN "dependency" ELSE "none"]
     /\ UNCHANGED <<rowVars, buildVars, mode, inFlight, current, job, mapVars, notified,
                    orphans, disturbed, faultVars>>

\* ingestStorybook saves status = running and worker_id = this worker.
StartBuild(p) ==
  /\ pc[p] = "start"
  /\ build' = [build EXCEPT ![job[p]] = "running"]
  /\ owner' = [owner EXCEPT ![job[p]] = p[1]]
  /\ pc' = [pc EXCEPT ![p] = "work"]
  /\ UNCHANGED <<rowVars, mode, inFlight, current, job, err, mapVars, notified, orphans,
                 disturbed, faultVars>>

\* Anything that throws before that save leaves the build as it was.
StartFails(p) ==
  /\ pc[p] \in {"gate", "start"} /\ faults < MaxFaults
  /\ faults' = faults + 1
  /\ pc' = [pc EXCEPT ![p] = "failed"]
  /\ err' = [err EXCEPT ![p] = "transient"]
  /\ UNCHANGED <<rowVars, buildVars, mode, inFlight, current, job, mapVars, notified,
                 orphans, disturbed, crashes, signals>>

\* The build is saved with its result, or as failed by the catch of ingestStorybook.
WorkEnds(p, e) ==
  /\ pc[p] = "work" /\ job[p] \notin Poison
  /\ build' = [build EXCEPT ![job[p]] = "closed"]
  /\ pc' = [pc EXCEPT ![p] = IF e = "none" THEN "done" ELSE "failed"]
  /\ err' = [err EXCEPT ![p] = e]
  /\ UNCHANGED <<rowVars, owner, mode, inFlight, current, job, mapVars, notified, orphans,
                 disturbed, faultVars>>

----------------------------------------------------------------------------
(* The end of a task: its last statement, then the finally of startTask    *)
(* and, on the poll path, the bookkeeping of pollForNewTasks.              *)

\* DependencyNotReadyError: wait one defer interval, poll again sooner.
Defers(p) ==
  LET w == p[1] t == job[p]
  IN /\ defers' = Bump(defers, w, t, MaxDeferCount)
     /\ deferring' = [deferring EXCEPT ![w] = @ \cup {t}]
     /\ pc' = [pc EXCEPT ![p] = "repoll"]
     /\ job' = [job EXCEPT ![p] = NoTask]
     /\ UNCHANGED <<fails, backing>>

\* Mistake: one retry too many before giving up.
BacksOffOnceMore(p) ==
  LET w == p[1] t == job[p]
  IN IF fails[w][t] <= MaxRetryCount
     THEN /\ fails' = Bump(fails, w, t, MaxRetryCount + 1)
          /\ backing' = [backing EXCEPT ![w] = @ \cup {t}]
          /\ pc' = [pc EXCEPT ![p] = "idle"]
          /\ job' = [job EXCEPT ![p] = NoTask]
          /\ UNCHANGED <<defers, deferring>>
     ELSE /\ fails' = Clear(fails, w, t) /\ backing' = Drop(backing, w, t)
          /\ defers' = Clear(defers, w, t) /\ deferring' = Drop(deferring, w, t)
          /\ pc' = [pc EXCEPT ![p] = "giveup"]
          /\ UNCHANGED job

\* Any other error but NonRetryableTaskError: back off, or give up.
BacksOff(p) ==
  LET w == p[1] t == job[p]
  IN IF fails[w][t] < MaxRetryCount
     THEN /\ fails' = Bump(fails, w, t, MaxRetryCount)
          /\ backing' = [backing EXCEPT ![w] = @ \cup {t}]
          /\ pc' = [pc EXCEPT ![p] = "idle"]
          /\ job' = [job EXCEPT ![p] = NoTask]
          /\ UNCHANGED <<defers, deferring>>
     ELSE /\ fails' = Clear(fails, w, t) /\ backing' = Drop(backing, w, t)
          /\ defers' = Clear(defers, w, t) /\ deferring' = Drop(deferring, w, t)
          /\ pc' = [pc EXCEPT ![p] = "giveup"]
          /\ UNCHANGED job

\* The release of a refused claim fails: to the poll loop, an error like any other.
RefuseFails(p) ==
  /\ pc[p] = "refuse" /\ faults < MaxFaults
  /\ faults' = faults + 1
  /\ IF p[2] = "poll"
     THEN BacksOff(p)
     ELSE /\ pc' = [pc EXCEPT ![p] = "idle"] /\ job' = [job EXCEPT ![p] = NoTask]
          /\ UNCHANGED mapVars
  /\ UNCHANGED <<rowVars, buildVars, mode, inFlight, current, err, notified, orphans,
                 disturbed, crashes, signals>>

\* The handler of driver p rejects with e: only the poll loop keeps books.
Rejects(p, e) ==
  /\ current' = [current EXCEPT ![p[1]] = NoTask]
  /\ err' = [err EXCEPT ![p] = "none"]
  /\ UNCHANGED inFlight
  /\ IF p[2] # "poll" \/ e = "permanent"
     THEN /\ pc' = [pc EXCEPT ![p] = "idle"] /\ job' = [job EXCEPT ![p] = NoTask]
          /\ fails' = IF p[2] = "poll" THEN Clear(fails, p[1], job[p]) ELSE fails
          /\ backing' = IF p[2] = "poll" THEN Drop(backing, p[1], job[p]) ELSE backing
          /\ UNCHANGED <<defers, deferring>>
     ELSE IF e = "dependency" THEN Defers(p) ELSE BacksOff(p)

\* Success: deleteTask, then clearFailedTaskId, and clearDeferredTaskId when polling.
FinishTask(p) ==
  LET w == p[1] t == job[p]
  IN /\ pc[p] = "done"
     /\ DeleteTask(t)
     /\ current' = [current EXCEPT ![w] = NoTask]
     /\ pc' = [pc EXCEPT ![p] = "idle"]
     /\ job' = [job EXCEPT ![p] = NoTask]
     /\ fails' = Clear(fails, w, t) /\ backing' = Drop(backing, w, t)
     /\ defers' = IF p[2] = "poll" THEN Clear(defers, w, t) ELSE defers
     /\ deferring' = IF p[2] = "poll" THEN Drop(deferring, w, t) ELSE deferring
     /\ UNCHANGED <<buildVars, mode, inFlight, err, notified, orphans, disturbed, faultVars>>

\* That DELETE fails: processTask catches it and turns to releaseLock.
FinishFails(p) ==
  /\ pc[p] = "done" /\ faults < MaxFaults
  /\ faults' = faults + 1
  /\ pc' = [pc EXCEPT ![p] = "failed"]
  /\ err' = [err EXCEPT ![p] = "transient"]
  /\ UNCHANGED <<rowVars, buildVars, mode, inFlight, current, job, mapVars, notified,
                 orphans, disturbed, crashes, signals>>

\* Mistake: every error deletes the row.
FailTaskDeletes(p) ==
  /\ pc[p] = "failed"
  /\ DeleteTask(job[p])
  /\ Rejects(p, err[p])
  /\ UNCHANGED <<buildVars, mode, notified, orphans, disturbed, faultVars>>

\* The catch of processTask: permanent errors and timeouts delete, the others release.
FailTask(p) ==
  /\ pc[p] = "failed"
  /\ IF err[p] \in {"permanent", "timeout"} THEN DeleteTask(job[p]) ELSE ReleaseLock(job[p])
  /\ Rejects(p, err[p])
  /\ UNCHANGED <<buildVars, mode, notified, orphans, disturbed, faultVars>>

\* That statement fails: the row stays locked, its error replaces the original one.
FailTaskFails(p) ==
  /\ pc[p] = "failed" /\ faults < MaxFaults
  /\ faults' = faults + 1
  /\ Rejects(p, "transient")
  /\ UNCHANGED <<rowVars, buildVars, mode, notified, orphans, disturbed, crashes, signals>>

\* giveUpOnTask: DELETE ... RETURNING; a row already gone ends it.
GiveUpOnTask(p) ==
  /\ pc[p] = "giveup"
  /\ DeleteTask(job[p])
  /\ pc' = [pc EXCEPT ![p] = IF Queued(job[p]) THEN "fail" ELSE "idle"]
  /\ job' = [job EXCEPT ![p] = IF Queued(job[p]) THEN @ ELSE NoTask]
  /\ UNCHANGED <<buildVars, mode, inFlight, current, err, mapVars, notified, orphans,
                 disturbed, faultVars>>

\* Its second statement fails a build that is still pending or running.
GiveUpOnBuild(p) ==
  /\ pc[p] = "fail"
  /\ build' = [build EXCEPT ![job[p]] = "closed"]
  /\ pc' = [pc EXCEPT ![p] = "idle"]
  /\ job' = [job EXCEPT ![p] = NoTask]
  /\ UNCHANGED <<rowVars, owner, mode, inFlight, current, err, mapVars, notified, orphans,
                 disturbed, faultVars>>

\* Either statement fails, which is only logged: the row lives on with a fresh
\* budget, or it is gone and the build is left to the stuck-build sweeper.
GiveUpFails(p) ==
  /\ pc[p] \in {"giveup", "fail"} /\ faults < MaxFaults
  /\ faults' = faults + 1
  /\ pc' = [pc EXCEPT ![p] = "idle"]
  /\ job' = [job EXCEPT ![p] = NoTask]
  /\ disturbed' = IF pc[p] = "fail" THEN disturbed \cup {job[p]} ELSE disturbed
  /\ UNCHANGED <<rowVars, buildVars, mode, inFlight, current, err, mapVars, notified,
                 orphans, crashes, signals>>

\* Backoff and defer windows end; the re-poll timer is shorter than a defer window.
BackoffElapses(w, t) ==
  /\ t \in backing[w] /\ mode[w] # "down"
  /\ backing' = Drop(backing, w, t)
  /\ UNCHANGED <<rowVars, buildVars, mode, driverVars, fails, defers, deferring, notified,
                 orphans, disturbed, faultVars>>

\* Mistake: the re-poll comes no sooner than the end of the defer window.
DeferElapsesEarly(w, t) ==
  /\ t \in deferring[w]
  /\ deferring' = Drop(deferring, w, t)
  /\ UNCHANGED <<rowVars, buildVars, mode, driverVars, fails, backing, defers, notified,
                 orphans, disturbed, faultVars>>

DeferElapses(w, t) ==
  /\ t \in deferring[w] /\ pc[<<w, "poll">>] # "repoll"
  /\ deferring' = Drop(deferring, w, t)
  /\ UNCHANGED <<rowVars, buildVars, mode, driverVars, fails, backing, defers, notified,
                 orphans, disturbed, faultVars>>

----------------------------------------------------------------------------
(* Signals, crashes and the startup reclaim.                               *)

Jobs(w) == {job[<<w, d>>] : d \in {"poll", "notify"}} \ {NoTask}

HandleShutdownSignal(w) ==
  /\ mode[w] = "up" /\ signals < MaxSignals
  /\ signals' = signals + 1
  /\ mode' = [mode EXCEPT ![w] = "closing"]
  /\ UNCHANGED <<rowVars, buildVars, driverVars, mapVars, notified, orphans, disturbed,
                 crashes, faults>>

\* The subscriber is closed; the lock of the task in flight is released.  An error in that
\* is only logged, and the shutdown goes on.
ShutdownReleases(w) ==
  /\ mode[w] = "closing"
  /\ mode' = [mode EXCEPT ![w] = "released"]
  /\ disturbed' = disturbed \cup ({current[w]} \ {NoTask})
  /\ \/ current[w] = NoTask /\ UNCHANGED <<rowVars, faults>>
     \/ current[w] # NoTask /\ ReleaseLock(current[w]) /\ UNCHANGED faults
     \/ /\ current[w] # NoTask /\ UNCHANGED rowVars
        /\ faults < MaxFaults /\ faults' = faults + 1
  /\ UNCHANGED <<buildVars, driverVars, mapVars, notified, orphans, crashes, signals>>

\* Builds this worker owns go back to pending, unless that statement fails.
ShutdownResets(w) ==
  /\ mode[w] = "released"
  /\ mode' = [mode EXCEPT ![w] = "drained"]
  /\ \/ LET mine == {t \in Tasks : build[t] = "running" /\ owner[t] = w}
        IN /\ build' = [t \in Tasks |-> IF t \in mine THEN "pending" ELSE build[t]]
           /\ owner' = [t \in Tasks |-> IF t \in mine THEN NoWorker ELSE owner[t]]
           /\ UNCHANGED faults
     \/ UNCHANGED buildVars /\ faults < MaxFaults /\ faults' = faults + 1
  /\ UNCHANGED <<rowVars, driverVars, mapVars, notified, orphans, disturbed, crashes, signals>>

\* The process is gone, and its memory with it.
Dies(w) ==
  /\ mode' = [mode EXCEPT ![w] = "down"]
  /\ inFlight' = [inFlight EXCEPT ![w] = FALSE]
  /\ current' = [current EXCEPT ![w] = NoTask]
  /\ pc' = [p \in Procs |-> IF p[1] = w THEN "idle" ELSE pc[p]]
  /\ job' = [p \in Procs |-> IF p[1] = w THEN NoTask ELSE job[p]]
  /\ err' = [p \in Procs |-> IF p[1] = w THEN "none" ELSE err[p]]
  /\ fails' = [fails EXCEPT ![w] = [t \in Tasks |-> 0]]
  /\ backing' = [backing EXCEPT ![w] = {}]
  /\ defers' = [defers EXCEPT ![w] = [t \in Tasks |-> 0]]
  /\ deferring' = [deferring EXCEPT ![w] = {}]
  /\ notified' = [notified EXCEPT ![w] = {}]
  /\ orphans' = [orphans EXCEPT ![w] = {}]
  /\ disturbed' = disturbed \cup Jobs(w)
  /\ UNCHANGED <<rowVars, buildVars>>

ShutdownExits(w) ==
  /\ mode[w] = "drained"
  /\ Dies(w)
  /\ UNCHANGED faultVars

\* SIGKILL, OOM, process.exit(1), or a second signal.
Crash(w) ==
  /\ mode[w] # "down" /\ crashes < MaxCrashes
  /\ crashes' = crashes + 1
  /\ Dies(w)
  /\ UNCHANGED <<signals, faults>>

\* A poisonous build takes its worker down whenever it is rendered.
PoisonKills(p) ==
  /\ pc[p] = "work" /\ job[p] \in Poison
  /\ Dies(p[1])
  /\ UNCHANGED faultVars

\* Mistake: the reclaim does not ask whose builds they are.
BootAnyOwner(w) ==
  /\ mode[w] = "down"
  /\ mode' = [mode EXCEPT ![w] = "boot"]
  /\ orphans' = [orphans EXCEPT ![w] = {t \in Tasks : build[t] = "running"}]
  /\ UNCHANGED <<rowVars, buildVars, driverVars, mapVars, notified, disturbed, faultVars>>

\* reclaimOrphanedBuilds: SELECT the running builds that carry this worker's id.
Boot(w) ==
  /\ mode[w] = "down"
  /\ mode' = [mode EXCEPT ![w] = "boot"]
  /\ orphans' = [orphans EXCEPT ![w] = {t \in Tasks : build[t] = "running" /\ owner[t] = w}]
  /\ UNCHANGED <<rowVars, buildVars, driverVars, mapVars, notified, disturbed, faultVars>>

\* Its row survives with attempts to spare: unlock it, then reset the build.
ReclaimUnlocks(w, t) ==
  LET p == <<w, "boot">>
  IN /\ t \in orphans[w] /\ pc[p] = "idle"
     /\ Queued(t) /\ attempts[t] < MaxTaskAttempts
     /\ ReleaseLock(t)
     /\ orphans' = [orphans EXCEPT ![w] = @ \ {t}]
     /\ pc' = [pc EXCEPT ![p] = "unlocked"] /\ job' = [job EXCEPT ![p] = t]
     /\ UNCHANGED <<buildVars, mode, inFlight, current, err, mapVars, notified, disturbed,
                    faultVars>>

\* The reset asks that the build still be running, not that this worker own it.
ReclaimRequeues(w) ==
  LET p == <<w, "boot">> t == job[<<w, "boot">>]
  IN /\ pc[p] = "unlocked"
     /\ build' = [build EXCEPT ![t] = IF @ = "running" THEN "pending" ELSE @]
     /\ owner' = [owner EXCEPT ![t] = IF build[t] = "running" THEN NoWorker ELSE @]
     /\ pc' = [pc EXCEPT ![p] = "idle"] /\ job' = [job EXCEPT ![p] = NoTask]
     /\ UNCHANGED <<rowVars, mode, inFlight, current, err, mapVars, notified, orphans,
                    disturbed, faultVars>>

\* No row, or the attempts are burned: fail the build, then delete the row.
ReclaimFails(w, t) ==
  LET p == <<w, "boot">>
  IN /\ t \in orphans[w] /\ pc[p] = "idle"
     /\ ~Queued(t) \/ attempts[t] >= MaxTaskAttempts
     /\ build' = [build EXCEPT ![t] = IF @ = "running" THEN "closed" ELSE @]
     /\ owner' = [owner EXCEPT ![t] = IF build[t] = "running" THEN NoWorker ELSE @]
     /\ orphans' = [orphans EXCEPT ![w] = @ \ {t}]
     /\ pc' = [pc EXCEPT ![p] = "condemned"] /\ job' = [job EXCEPT ![p] = t]
     /\ UNCHANGED <<rowVars, mode, inFlight, current, err, mapVars, notified, disturbed,
                    faultVars>>

ReclaimDeletes(w) ==
  LET p == <<w, "boot">>
  IN /\ pc[p] = "condemned"
     /\ DeleteTask(job[p])
     /\ pc' = [pc EXCEPT ![p] = "idle"] /\ job' = [job EXCEPT ![p] = NoTask]
     /\ UNCHANGED <<buildVars, mode, inFlight, current, err, mapVars, notified, orphans,
                    disturbed, faultVars>>

\* The reclaim is done (an error in it is only logged); the poll loop starts.
BootEnds(w) ==
  LET p == <<w, "boot">>
      done == orphans[w] = {} /\ pc[p] = "idle"
  IN /\ mode[w] = "boot"
     /\ \/ done /\ UNCHANGED faults
        \/ ~done /\ faults < MaxFaults /\ faults' = faults + 1
     /\ mode' = [mode EXCEPT ![w] = "up"]
     /\ orphans' = [orphans EXCEPT ![w] = {}]
     /\ pc' = [pc EXCEPT ![p] = "idle"] /\ job' = [job EXCEPT ![p] = NoTask]
     /\ UNCHANGED <<rowVars, buildVars, inFlight, current, err, mapVars, notified, disturbed,
                    crashes, signals>>

----------------------------------------------------------------------------
\* One step of the handler that driver p is running.
Handler(p) ==
  \/ StartTask(p) \/ RefuseTask(p) \/ CheckBaseline(p) \/ StartBuild(p)
  \/ \E e \in Errors \ {"dependency"} : WorkEnds(p, e)
  \/ PoisonKills(p) \/ FinishTask(p) \/ FailTask(p) \/ GiveUpOnTask(p) \/ GiveUpOnBuild(p)

Fault(p) ==
  \/ ClaimReplyLost(p) \/ RefuseFails(p) \/ StartFails(p)
  \/ FinishFails(p) \/ FailTaskFails(p) \/ GiveUpFails(p)

Shutdown(w) == ShutdownReleases(w) \/ ShutdownResets(w) \/ ShutdownExits(w)

Reclaim(w) ==
  \/ \E t \in Tasks : ReclaimUnlocks(w, t) \/ ReclaimFails(w, t)
  \/ ReclaimRequeues(w) \/ ReclaimDeletes(w) \/ BootEnds(w)

Next ==
  \/ \E t \in Tasks : Enqueue(t) \/ LockExpires(t)
  \/ \E p \in Procs : Handler(p) \/ Fault(p)
  \/ \E w \in Workers :
       \/ PollClaims(w) \/ PollFindsNothing(w)
       \/ NotifyClaims(w) \/ NotifyFindsNothing(w)
       \/ \E t \in Tasks : BackoffElapses(w, t) \/ DeferElapses(w, t)
       \/ HandleShutdownSignal(w) \/ Shutdown(w)
       \/ Crash(w) \/ Boot(w) \/ Reclaim(w)

Spec == Init /\ [][Next]_vars

\* Timers fire, replies arrive, the orchestrator restarts a dead worker.  Nothing
\* is assumed of arrivals, NOTIFYs, signals, crashes or faults.
FairSpec ==
  /\ Spec
  /\ \A p \in Procs : WF_vars(Handler(p))
  /\ \A w \in Workers : /\ WF_vars(PollClaims(w)) /\ WF_vars(PollFindsNothing(w))
                        /\ WF_vars(Shutdown(w)) /\ WF_vars(Boot(w)) /\ WF_vars(Reclaim(w))
  /\ \A w \in Workers, t \in Tasks : /\ WF_vars(BackoffElapses(w, t))
                                     /\ WF_vars(DeferElapses(w, t))
  /\ \A t \in Tasks : WF_vars(LockExpires(t))

----------------------------------------------------------------------------
(* Properties.                                                             *)

Holds(p, t) == job[p] = t /\ pc[p] \in Holding

\* Until a signal or a crash makes a worker drop the task, at most one driver
\* of one worker holds it: the claim, the heartbeat and the unguarded release
\* and delete statements together keep every other worker out.
ExclusiveProcessing ==
  \A t \in Tasks \ disturbed : \A p, q \in Procs : Holds(p, t) /\ Holds(q, t) => p = q

\* A worker locks a row only if it can process it at once: the poll loop and the
\* NOTIFY handler never hold a claim together, and only a shutdown refuses one.
SingleFlight ==
  /\ \A p, q \in Procs :
       p[1] = q[1] /\ pc[p] \in Holding /\ pc[q] \in Holding => p = q
  /\ \A p \in Procs : pc[p] = "refuse" => ShuttingDown(p[1])

\* An undisturbed task never leaves the queue with its build unfinished, unless
\* a handler that is about to finish the build is still running: no build is
\* left for the stuck-build sweeper by ordinary failures, retries and give-ups.
NoLostBuild ==
  \A t \in Tasks \ disturbed :
    row[t] = "gone" => \/ build[t] = "closed"
                       \/ \E p \in Procs : job[p] = t /\ pc[p] \in {"work", "fail"}

\* One worker with a whole backlog before it renders no build ahead of its
\* baseline, even if the baseline's row is the younger one (DEFER_REPOLL_MS).
BaselineFirst ==
  [][\A t \in Tasks : build[t] = "pending" /\ build'[t] = "running"
                       => ~BaselinePending(t)]_vars

\* Every queued row eventually leaves the queue: no backoff, deferral, cyclic
\* baseline, lost lock, give-up or restart keeps a task for ever.
Drained == \A t \in Tasks : Queued(t) ~> row[t] = "gone"

\* A build that kills every worker that renders it is retired from the queue
\* (environment.ts: WORKER_MAX_TASK_ATTEMPTS "bounds the crash loop").
CrashLoopBounded == \A t \in Poison : Queued(t) ~> row[t] = "gone"

=============================================================================
