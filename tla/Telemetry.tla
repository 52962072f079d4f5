------------------------------ MODULE Telemetry ------------------------------
(***************************************************************************)
(* What a worker tells of itself: worker/src/health.ts (its row of         *)
(* worker_status, GET /health) and worker/src/metrics.ts (GET /metrics),   *)
(* over the progress of the build it renders (worker/src/progress.ts), and *)
(* what GET /api/version makes of its row.                                 *)
(***************************************************************************)
EXTENDS Naturals

CONSTANTS
  StoriesDue,      \* expectedStories of a build
  StallAfter,      \* WORKER_PROGRESS_TIMEOUT_MS, in ticks of the clock; 0 for no watchdog
  OnlineFor,       \* WORKER_ONLINE_WINDOW_MS, in ticks
  MaxTime,         \* bound on the clock
  MaxTasks,        \* bound on the tasks run
  MaxReads         \* bound on the times the queue is counted

VARIABLES
  clock,
  activeTask,            \* activeTaskId, or 0
  tasks,           \* tasks begun
  progress,        \* the tracker of the build in flight, or NoTracker
  beat,            \* last_heartbeat_at of the worker's row; 0 while there is none
  told,            \* the last answers of GET /health and of GET /api/version
  reads,           \* how often the queue was counted: stands for the instant of a count
  asking,          \* the query of the scrape in progress, or NoCount
  late,            \* a query whose scrape has stopped waiting for it, or NoCount
  depth,           \* lastKnownQueueDepth, by the instant it was counted at; 0 for none
  gauge,           \* what the last scrape was given, likewise
  lastStory        \* lastStoryCompletedAtMs; 0 for none

\* What is assumed of the constants, where the module is instantiated.
TeleAssumption ==
  /\ StoriesDue \in Nat /\ StallAfter \in Nat /\ OnlineFor \in Nat
  /\ MaxTime \in Nat \ {0} /\ MaxTasks \in Nat /\ MaxReads \in Nat

teleVars == <<clock, activeTask, tasks, progress, beat, told, reads, asking, late, depth, gauge,
              lastStory>>
scrapeVars == <<reads, asking, late, depth, gauge, lastStory>>

NoTracker == [build |-> 0, done |-> 0, last |-> 0]
\* A query: not sent, sent (0), or with the count it has read.
NoCount == [sent |-> FALSE, of |-> 0]
Counting  == [sent |-> TRUE, of |-> 0]

TeleTypeOK ==
  /\ clock \in 1 .. MaxTime /\ activeTask \in 0 .. MaxTasks /\ tasks \in 0 .. MaxTasks
  /\ progress \in [build : 0 .. MaxTasks, done : 0 .. StoriesDue, last : 0 .. MaxTime]
  /\ beat \in 0 .. MaxTime /\ lastStory \in 0 .. MaxTime
  /\ told \in [health : {"ok", "degraded"}, online : BOOLEAN]
  /\ reads \in 0 .. MaxReads /\ depth \in 0 .. MaxReads /\ gauge \in 0 .. MaxReads
  /\ asking \in [sent : BOOLEAN, of : 0 .. MaxReads]
  /\ late \in [sent : BOOLEAN, of : 0 .. MaxReads]

TeleInit ==
  /\ clock = 1 /\ activeTask = 0 /\ tasks = 0 /\ progress = NoTracker
  /\ beat \in {0, 1} /\ told = [health |-> "ok", online |-> FALSE]
  /\ reads = 0 /\ asking = NoCount /\ late = NoCount /\ depth = 0 /\ gauge = 0 /\ lastStory = 0

----------------------------------------------------------------------------
(* The worker's work.                                                      *)

Ticks ==
  /\ clock < MaxTime /\ clock' = clock + 1
  /\ UNCHANGED <<activeTask, tasks, progress, beat, told, scrapeVars>>

MarkTaskStarted ==
  /\ activeTask = 0 /\ tasks < MaxTasks /\ tasks' = tasks + 1 /\ activeTask' = tasks'
  /\ UNCHANGED <<clock, progress, beat, told, scrapeVars>>

BeginBuildProgress ==
  /\ activeTask # 0 /\ progress.build # activeTask
  /\ progress' = [build |-> activeTask, done |-> 0, last |-> clock]
  /\ UNCHANGED <<clock, activeTask, tasks, beat, told, scrapeVars>>

\* A story completed after its build's tracker was put away changes nothing.
CompleteStory ==
  /\ progress # NoTracker /\ progress.done < StoriesDue
  /\ progress' = [progress EXCEPT !.done = @ + 1, !.last = clock]
  /\ UNCHANGED <<clock, activeTask, tasks, beat, told, scrapeVars>>

\* endBuildProgress runs before the task is marked finished, whatever came of it.
MarkTaskFinished ==
  /\ activeTask # 0 /\ activeTask' = 0 /\ progress' = NoTracker
  /\ UNCHANGED <<clock, tasks, beat, told, scrapeVars>>

----------------------------------------------------------------------------
(* Its row, and the answers about its health.                              *)

\* Every ten seconds, and best effort: an upsert the database refuses is not repeated.
ReportWorkerStatus ==
  /\ beat' = clock
  /\ UNCHANGED <<clock, activeTask, tasks, progress, told, scrapeVars>>

Status == IF progress # NoTracker /\ StallAfter > 0 /\ clock - progress.last > StallAfter
          THEN "degraded" ELSE "ok"

Health ==
  /\ told' = [told EXCEPT !.health = Status]
  /\ UNCHANGED <<clock, activeTask, tasks, progress, beat, scrapeVars>>

Version ==
  /\ told' = [told EXCEPT !.online = beat # 0 /\ clock - beat < OnlineFor]
  /\ UNCHANGED <<clock, activeTask, tasks, progress, beat, scrapeVars>>

----------------------------------------------------------------------------
(* GET /metrics: one scraper, which waits for its answer.                  *)

Scrapes ==
  /\ asking = NoCount /\ reads < MaxReads /\ asking' = Counting
  /\ UNCHANGED <<clock, activeTask, tasks, progress, beat, told, reads, late, depth, gauge,
                 lastStory>>

\* The database counts the queue, for the scrape in progress or for an abandoned query.
Counts ==
  /\ reads < MaxReads /\ reads' = reads + 1
  /\ \/ asking = Counting /\ asking' = [Counting EXCEPT !.of = reads'] /\ UNCHANGED late
     \/ late = Counting /\ late' = [Counting EXCEPT !.of = reads'] /\ UNCHANGED asking
  /\ UNCHANGED <<clock, activeTask, tasks, progress, beat, told, depth, gauge, lastStory>>

\* The gauges' collect functions: the scrape is given the last known depth.
Given(now) ==
  /\ depth' = now /\ gauge' = now /\ asking' = NoCount
  /\ lastStory' = IF progress # NoTracker THEN progress.last ELSE lastStory
  /\ UNCHANGED <<clock, activeTask, tasks, progress, beat, told, reads>>

QueryQueueDepth == asking.of # 0 /\ Given(asking.of) /\ UNCHANGED late

QueryFails == asking.sent /\ Given(depth) /\ UNCHANGED late

\* After two seconds the scrape is answered without its query, which nothing cancels.
QueryTimesOut == asking.sent /\ late = NoCount /\ late' = asking /\ Given(depth)

\* The answer of an abandoned query: nobody looks at it.
LateIsDropped ==
  /\ late.of # 0 /\ late' = NoCount
  /\ UNCHANGED <<clock, activeTask, tasks, progress, beat, told, reads, asking, depth, gauge,
                 lastStory>>

TeleNext ==
  \/ Ticks \/ MarkTaskStarted \/ BeginBuildProgress \/ CompleteStory \/ MarkTaskFinished
  \/ ReportWorkerStatus \/ Health \/ Version
  \/ Scrapes \/ Counts \/ QueryQueueDepth \/ QueryFails \/ QueryTimesOut \/ LateIsDropped

TeleSpec == TeleInit /\ [][TeleNext]_teleVars

----------------------------------------------------------------------------
\* What successive scrapes are given of the queue never goes back in time: the answer a scrape
\* did not wait for must not come up in a later one, after a younger count has been given
\* (queryQueueDepth and the gauge's collect, metrics.ts).
GaugeNeverGoesBack == [][gauge' >= gauge]_teleVars
===============================================================================
