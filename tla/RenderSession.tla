---------------------------- MODULE RenderSession ----------------------------
(***************************************************************************)
(* The rendering of one list of stories by a worker: the pool of Chrome    *)
(* sessions (worker/src/browserPool.ts), the capture and finalize lanes    *)
(* (pipeline.ts), the per-story retries (stories.ts), the build watchdog   *)
(* (timeout.ts, progress.ts) and the chunk task around them (shard.ts).    *)
(* Stories run as concurrent promises of one process: an action is what    *)
(* one of them does between two awaits.                                    *)
(*                                                                         *)
(* What a capture does to the page is module StoryCapture's subject; here  *)
(* an attempt succeeds, fails with the story's own error, or fails with an *)
(* error of the harness.                                                   *)
(***************************************************************************)
EXTENDS Naturals, Sequences, FiniteSets

CONSTANTS
  PoolSize,       \* WORKER_STORY_CONCURRENCY
  StoryCount,     \* the stories to render, in order
  FinalizeLimit,  \* WORKER_FINALIZE_CONCURRENCY
  QueueLimit,     \* WORKER_FINALIZE_QUEUE_LIMIT
  MaxAttempts,    \* WORKER_STORY_MAX_ATTEMPTS
  Broken,         \* the stories that fail by themselves
  RecycleAfter,   \* WORKER_SESSION_RECYCLE_STORIES, 0 disables
  InfraLimit,     \* WORKER_SESSION_MAX_INFRA_FAILURES, 0 disables
  Faults,         \* the kinds of fault that may happen
  MaxFaults       \* bound on their number

Stories   == 1 .. StoryCount
Sessions  == 1 .. PoolSize
NoSession == 0

ASSUME RenderAssumption ==
  /\ PoolSize \in Nat \ {0}
  /\ StoryCount \in Nat \ {0} /\ FinalizeLimit \in Nat \ {0} /\ QueueLimit \in Nat \ {0}
  /\ MaxAttempts \in Nat \ {0} /\ Broken \subseteq Stories
  /\ RecycleAfter \in Nat /\ InfraLimit \in Nat
  /\ MaxFaults \in Nat
  /\ Faults \subseteq {"launch", "init", "death", "mute", "glitch", "wedge",
                       "storage", "database", "fetch"}

VARIABLES
  phase,      \* of the chunk task and its watchdog
  fetch,      \* the download that runs while the pool launches
  pool,       \* the launch of the pool
  browser,    \* the Chrome behind a slot
  rendered, infra,     \* storiesRendered, consecutiveInfraFailures
  leaked,     \* number of Chromes running that no slot holds
  available, waiters,  \* the pool's queues
  pc, slot, attempt,   \* a story's step, the session it holds, its capture attempt
  verdict,    \* how its attempt ended, while it gives the session back
  free, blocked,       \* queueSlots: the semaphore and its waiters
  lane,       \* finalizes queued in finalizeLimit
  pipeline,   \* the pipeline's promise
  observed,   \* stories whose finalize promise has a rejection handler
  results,    \* test_results
  completed,  \* completedStories of the build's completed tracker
  outcome,    \* what the task's caller is given
  faults

poolVars  == <<pool, browser, rendered, infra, leaked, available, waiters>>
storyVars == <<pc, slot, attempt, verdict>>
laneVars  == <<free, blocked, lane, pipeline, observed>>
dogVars   == <<phase, fetch, outcome>>
vars == <<poolVars, storyVars, laneVars, dogVars, results, completed, faults>>

Holding  == {"probe", "relaunch", "capture", "wedged", "release", "recycle"}
Captures == Holding \cup {"blocked", "acquire", "waiting", "decide"}
Settling == {"queued", "finalize", "refinalize"}
Settled  == {"done", "threw", "dropped"}
Alive    == phase # "exited"

TypeOK ==
  /\ phase \in {"prewarm", "armed", "grace", "fatal", "exited", "done", "closed"}
  /\ fetch \in {"running", "done", "failed"} /\ pool \in {"launching", "up", "failed"}
  /\ browser \in [Sessions -> {"absent", "failed", "live", "dead", "closed"}]
  /\ rendered \in [Sessions -> 0 .. StoryCount] /\ infra \in [Sessions -> Nat] /\ leaked \in Nat
  /\ available \in Seq(Sessions) /\ waiters \in Seq(Stories)
  /\ pc \in [Stories -> Captures \cup Settling \cup Settled \cup {"pending"}]
  /\ slot \in [Stories -> Sessions \cup {NoSession}]
  /\ attempt \in [Stories -> 0 .. MaxAttempts]
  /\ verdict \in [Stories -> {"none", "captured", "recorded", "retry", "exhausted", "throws"}]
  /\ free \in 0 .. QueueLimit /\ blocked \in Seq(Stories) /\ lane \in Seq(Stories)
  /\ pipeline \in {"off", "capturing", "unwinding", "draining", "resolved", "rejected"}
  /\ observed \in SUBSET Stories
  /\ results \in [Stories -> {"none", "ok", "failed"}]
  /\ completed \in 0 .. StoryCount
  /\ outcome \in {"none", "results", "error", "timeout"}
  /\ faults \in 0 .. MaxFaults

Init ==
  /\ phase = "prewarm" /\ fetch = "running" /\ outcome = "none"
  /\ pool = "launching" /\ browser = [b \in Sessions |-> "absent"]
  /\ rendered = [b \in Sessions |-> 0] /\ infra = [b \in Sessions |-> 0] /\ leaked = 0
  /\ available = <<>> /\ waiters = <<>>
  /\ pc = [s \in Stories |-> "pending"] /\ slot = [s \in Stories |-> NoSession]
  /\ attempt = [s \in Stories |-> 0] /\ verdict = [s \in Stories |-> "none"]
  /\ free = QueueLimit /\ blocked = <<>> /\ lane = <<>>
  /\ pipeline = "off" /\ observed = {}
  /\ results = [s \in Stories |-> "none"]
  /\ completed = 0
  /\ faults = 0

Fault(kind) == kind \in Faults /\ faults < MaxFaults /\ faults' = faults + 1

----------------------------------------------------------------------------
(* The pool: launch, checkout, replacement, teardown.                      *)

\* destroyAll: deletes the browser each slot holds at this moment.
Destroyed(br) == [b \in Sessions |-> IF br[b] \in {"live", "dead"} THEN "closed" ELSE br[b]]

\* createBrowser calls run concurrently; slots are numbered as they answer, and the last
\* answer makes the pool.
Answers(b) == browser[b] = "absent" /\ \A x \in 1 .. b - 1 : browser[x] # "absent"

Launch(b) ==
  /\ Alive /\ pool = "launching" /\ Answers(b)
  /\ browser' = [browser EXCEPT ![b] = "live"]
  /\ available' = Append(available, b)
  /\ pool' = IF b = PoolSize THEN "up" ELSE pool
  /\ UNCHANGED <<rendered, infra, leaked, waiters, storyVars, laneVars, dogVars,
                 results, completed, faults>>

\* The first rejection tears down the sessions created so far, and no others.
LaunchFails(b) ==
  /\ Alive /\ pool = "launching" /\ Answers(b) /\ Fault("launch")
  /\ pool' = "failed"
  /\ browser' = [Destroyed(browser) EXCEPT ![b] = "failed"]
  /\ UNCHANGED <<rendered, infra, leaked, available, waiters, storyVars, laneVars, dogVars,
                 results, completed>>

LateLaunch(b) ==
  /\ Alive /\ pool = "failed" /\ Answers(b)
  /\ browser' = [browser EXCEPT ![b] = "failed"]
  /\ leaked' = leaked + 1
  /\ UNCHANGED <<pool, rendered, infra, available, waiters, storyVars, laneVars, dogVars,
                 results, completed, faults>>

BrowserDies(b) ==
  /\ Alive /\ browser[b] = "live" /\ pool = "up" /\ Fault("death")
  /\ browser' = [browser EXCEPT ![b] = "dead"]
  /\ UNCHANGED <<pool, rendered, infra, leaked, available, waiters, storyVars, laneVars,
                 dogVars, results, completed>>

Condemned(b) ==
  \/ RecycleAfter > 0 /\ rendered[b] >= RecycleAfter
  \/ InfraLimit > 0 /\ infra[b] >= InfraLimit

\* replace, once the old browser is deleted: factory, then session init.
Replaced(b) ==
  /\ browser' = [browser EXCEPT ![b] = "live"]
  /\ rendered' = [rendered EXCEPT ![b] = 0]
  /\ infra' = [infra EXCEPT ![b] = 0]
  /\ UNCHANGED leaked

\* The factory failed twice, or the init callback failed on the new browser.
NotReplaced ==
  /\ \/ Fault("launch") /\ UNCHANGED leaked
     \/ Fault("init") /\ leaked' = leaked + 1
  /\ UNCHANGED <<browser, rendered>>

----------------------------------------------------------------------------
(* The two lanes.                                                          *)

RenderBegins ==
  /\ phase = "prewarm" /\ fetch = "done" /\ pool = "up"
  /\ phase' = "armed" /\ pipeline' = "capturing"
  /\ UNCHANGED <<poolVars, storyVars, free, blocked, lane, observed, fetch, outcome,
                 results, completed, faults>>

\* captureLimit starts stories in order, one per session, and each waits for a queue slot.
CaptureStarts(s) ==
  /\ Alive /\ pipeline # "off" /\ pc[s] = "pending"
  /\ \A t \in 1 .. s - 1 : pc[t] # "pending"
  /\ Cardinality({t \in Stories : pc[t] \in Captures}) < PoolSize
  /\ attempt' = [attempt EXCEPT ![s] = 1]
  /\ IF free > 0
       THEN /\ free' = free - 1 /\ pc' = [pc EXCEPT ![s] = "acquire"] /\ UNCHANGED blocked
       ELSE /\ blocked' = Append(blocked, s) /\ pc' = [pc EXCEPT ![s] = "blocked"]
            /\ UNCHANGED free
  /\ UNCHANGED <<poolVars, slot, verdict, lane, pipeline, observed, dogVars, results,
                 completed, faults>>

\* Mistake: the slot is freed and nobody is woken.
FreeQueueSlotSilently(s, to) ==
  free' = free + 1 /\ pc' = [pc EXCEPT ![s] = to] /\ UNCHANGED blocked

\* Story s moves to step to and gives its queue slot to the first story blocked on one.
FreeQueueSlot(s, to) ==
  IF blocked = <<>>
    THEN free' = free + 1 /\ pc' = [pc EXCEPT ![s] = to] /\ UNCHANGED blocked
    ELSE /\ pc' = [pc EXCEPT ![s] = to, ![Head(blocked)] = "acquire"]
         /\ blocked' = Tail(blocked) /\ UNCHANGED free

Acquire(s) ==
  /\ Alive /\ pc[s] = "acquire"
  /\ IF available # <<>>
       THEN /\ slot' = [slot EXCEPT ![s] = Head(available)]
            /\ available' = Tail(available)
            /\ pc' = [pc EXCEPT ![s] = "probe"] /\ UNCHANGED waiters
       ELSE /\ waiters' = Append(waiters, s)
            /\ pc' = [pc EXCEPT ![s] = "waiting"] /\ UNCHANGED <<slot, available>>
  /\ UNCHANGED <<pool, browser, rendered, infra, leaked, attempt, verdict, laneVars, dogVars,
                 results, completed, faults>>

Go(s, to) == pc' = [pc EXCEPT ![s] = to]

ProbePasses(s) ==
  /\ Alive /\ pc[s] = "probe" /\ browser[slot[s]] = "live" /\ Go(s, "capture")
  /\ UNCHANGED <<poolVars, slot, attempt, verdict, laneVars, dogVars, results, completed, faults>>

\* No answer in time: the old browser is deleted, if it can be.
ProbeFails(s) ==
  /\ Alive /\ pc[s] = "probe"
  /\ \/ browser[slot[s]] # "live" /\ UNCHANGED faults
     \/ browser[slot[s]] = "live" /\ Fault("mute")
  /\ browser' = [browser EXCEPT ![slot[s]] = "closed"] /\ Go(s, "relaunch")
  /\ UNCHANGED <<pool, rendered, infra, leaked, available, waiters, slot, attempt, verdict,
                 laneVars, dogVars, results, completed>>

Relaunch(s) ==
  /\ Alive /\ pc[s] = "relaunch" /\ Replaced(slot[s]) /\ Go(s, "capture")
  /\ UNCHANGED <<pool, available, waiters, slot, attempt, verdict, laneVars, dogVars, results,
                 completed, faults>>

Verdict(s, v) == verdict' = [verdict EXCEPT ![s] = v] /\ Go(s, "release")
\* Mistake: one attempt too many.
InfraVerdictOnceMore(s) ==
  /\ infra' = [infra EXCEPT ![slot[s]] = @ + 1]
  /\ Verdict(s, IF attempt[s] <= MaxAttempts THEN "retry" ELSE "exhausted")
InfraVerdict(s) ==
  /\ infra' = [infra EXCEPT ![slot[s]] = @ + 1]
  /\ Verdict(s, IF attempt[s] < MaxAttempts THEN "retry" ELSE "exhausted")

\* recordErrorTestResult inside the attempt: the failed row, or the database's own error.
RecordsInAttempt(s) ==
  \/ /\ results' = [results EXCEPT ![s] = "failed"] /\ Verdict(s, "recorded")
     /\ UNCHANGED faults
  \/ Fault("database") /\ Verdict(s, "throws") /\ UNCHANGED results

\* Mistake: a failed replacement is recorded and retried.
RelaunchFailsTwice(s) ==
  /\ Alive /\ pc[s] = "relaunch" /\ NotReplaced
  /\ InfraVerdict(s) /\ results' = [results EXCEPT ![s] = "failed"]
  /\ UNCHANGED <<pool, available, waiters, slot, attempt, laneVars, dogVars, completed>>

\* The message of an error decides its class: the infrastructure's, or, as any that is not
\* recognised, the story's, which is recorded at once unless the database fails as well.
EitherClass(s) ==
  \/ InfraVerdict(s) /\ UNCHANGED results
  \/ /\ results' = [results EXCEPT ![s] = "failed"] /\ Verdict(s, "recorded")
     /\ UNCHANGED infra
  \/ "database" \in Faults /\ Verdict(s, "throws") /\ UNCHANGED <<infra, results>>

\* Chrome could not be launched.
RelaunchFails(s) ==
  /\ Alive /\ pc[s] = "relaunch" /\ NotReplaced /\ EitherClass(s)
  /\ UNCHANGED <<pool, available, waiters, slot, attempt, laneVars, dogVars, completed>>

CaptureSucceeds(s) ==
  /\ Alive /\ pc[s] = "capture" /\ s \notin Broken /\ browser[slot[s]] = "live"
  /\ infra' = [infra EXCEPT ![slot[s]] = 0]
  /\ rendered' = [rendered EXCEPT ![slot[s]] = @ + 1]
  /\ Verdict(s, "captured")
  /\ UNCHANGED <<pool, browser, leaked, available, waiters, slot, attempt, laneVars, dogVars,
                 results, completed, faults>>

\* The story threw, or never became ready.
StoryFails(s) ==
  /\ Alive /\ pc[s] = "capture" /\ s \in Broken /\ browser[slot[s]] = "live"
  /\ RecordsInAttempt(s)
  /\ UNCHANGED <<poolVars, slot, attempt, laneVars, dogVars, completed>>

\* The session is gone, which its message shows, or a command of a live one failed.
CaptureFails(s) ==
  /\ Alive
  /\ \/ /\ pc[s] \in {"capture", "wedged"} /\ browser[slot[s]] # "live"
        /\ InfraVerdict(s) /\ UNCHANGED <<results, faults>>
     \/ /\ pc[s] = "capture" /\ browser[slot[s]] = "live"
        /\ EitherClass(s) /\ Fault("glitch")
  /\ UNCHANGED <<pool, browser, rendered, leaked, available, waiters, slot, attempt, laneVars,
                 dogVars, completed>>

\* A command that never settles on its own.
CaptureWedges(s) ==
  /\ Alive /\ pc[s] = "capture" /\ Fault("wedge") /\ Go(s, "wedged")
  /\ UNCHANGED <<poolVars, slot, attempt, verdict, laneVars, dogVars, results, completed>>

\* The session goes to the first waiter, or back among the available ones.
ReturnSession(s) ==
  /\ IF waiters = <<>>
       THEN /\ available' = Append(available, slot[s]) /\ UNCHANGED waiters
            /\ slot' = [slot EXCEPT ![s] = NoSession] /\ Go(s, "decide")
       ELSE /\ waiters' = Tail(waiters) /\ UNCHANGED available
            /\ slot' = [slot EXCEPT ![Head(waiters)] = slot[s], ![s] = NoSession]
            /\ pc' = [pc EXCEPT ![Head(waiters)] = "probe", ![s] = "decide"]

\* Mistake: the thresholds are not looked at.
ReleaseAtOnce(s) ==
  /\ Alive /\ pc[s] = "release" /\ ReturnSession(s)
  /\ UNCHANGED <<pool, browser, rendered, infra, leaked, attempt, verdict, laneVars, dogVars,
                 results, completed, faults>>
Release(s) ==
  /\ Alive /\ pc[s] = "release"
  /\ IF Condemned(slot[s])
       THEN /\ browser' = [browser EXCEPT ![slot[s]] = "closed"] /\ Go(s, "recycle")
            /\ UNCHANGED <<slot, available, waiters>>
       ELSE ReturnSession(s) /\ UNCHANGED browser
  /\ UNCHANGED <<pool, rendered, infra, leaked, attempt, verdict, laneVars, dogVars, results,
                 completed, faults>>

\* Mistake: a failed replacement loses the slot.
RecycleLosesSlot(s) ==
  /\ Alive /\ pc[s] = "recycle"
  /\ \/ Replaced(slot[s]) /\ UNCHANGED faults /\ ReturnSession(s)
     \/ /\ NotReplaced /\ UNCHANGED <<infra, available, waiters>>
        /\ slot' = [slot EXCEPT ![s] = NoSession] /\ Go(s, "decide")
  /\ UNCHANGED <<pool, attempt, verdict, laneVars, dogVars, results, completed>>

\* A failed replacement still returns the slot.
Recycle(s) ==
  /\ Alive /\ pc[s] = "recycle"
  /\ \/ Replaced(slot[s]) /\ UNCHANGED faults
     \/ NotReplaced /\ UNCHANGED infra
  /\ ReturnSession(s)
  /\ UNCHANGED <<pool, attempt, verdict, laneVars, dogVars, results, completed>>

----------------------------------------------------------------------------
(* A story after its attempt, and the finalize lane.                       *)

\* completeStory: a no-op once the tracker has ended.
CompletedOne == IF phase \in {"armed", "grace", "fatal"} THEN completed + 1 ELSE completed

\* Mistake: a story counts when captured and again when finalized.
HandsOffCounts(s) ==
  /\ Alive /\ pc[s] = "decide" /\ verdict[s] = "captured"
  /\ lane' = Append(lane, s) /\ Go(s, "queued") /\ completed' = CompletedOne
  /\ UNCHANGED <<poolVars, slot, attempt, verdict, free, blocked, pipeline, observed, dogVars,
                 results, faults>>
HandsOff(s) ==
  /\ Alive /\ pc[s] = "decide" /\ verdict[s] = "captured"
  /\ lane' = Append(lane, s) /\ Go(s, "queued")
  /\ UNCHANGED <<poolVars, slot, attempt, verdict, free, blocked, pipeline, observed, dogVars,
                 results, completed, faults>>

Retries(s) ==
  /\ Alive /\ pc[s] = "decide" /\ verdict[s] = "retry"
  /\ attempt' = [attempt EXCEPT ![s] = @ + 1] /\ Go(s, "acquire")
  /\ UNCHANGED <<poolVars, slot, verdict, laneVars, dogVars, results, completed, faults>>

\* Recorded in the attempt, or now that the attempts are exhausted.
CaptureRecorded(s) ==
  /\ Alive /\ pc[s] = "decide" /\ verdict[s] \in {"recorded", "exhausted"}
  /\ results' = [results EXCEPT ![s] = "failed"]
  /\ completed' = CompletedOne /\ FreeQueueSlot(s, "done")
  /\ UNCHANGED <<poolVars, slot, attempt, verdict, lane, pipeline, observed, dogVars, faults>>

\* Mistake: a capture that throws keeps its queue slot.
CaptureThrowsKeepsSlot(s) ==
  /\ Alive /\ pc[s] = "decide"
  /\ \/ verdict[s] = "throws" /\ UNCHANGED faults
     \/ verdict[s] = "exhausted" /\ Fault("database")
  /\ Go(s, "threw")
  /\ UNCHANGED <<poolVars, slot, attempt, verdict, laneVars, dogVars, results, completed>>
CaptureThrows(s) ==
  /\ Alive /\ pc[s] = "decide"
  /\ \/ verdict[s] = "throws" /\ UNCHANGED faults
     \/ verdict[s] = "exhausted" /\ Fault("database")
  /\ FreeQueueSlot(s, "threw")
  /\ UNCHANGED <<poolVars, slot, attempt, verdict, lane, pipeline, observed, dogVars, results,
                 completed>>

FinalizeStarts(s) ==
  /\ Alive /\ lane # <<>> /\ s = Head(lane)
  /\ Cardinality({t \in Stories : pc[t] \in {"finalize", "refinalize"}}) < FinalizeLimit
  /\ lane' = Tail(lane) /\ Go(s, "finalize")
  /\ UNCHANGED <<poolVars, slot, attempt, verdict, free, blocked, pipeline, observed, dogVars,
                 results, completed, faults>>

\* Finalized, or recorded as failed: an error that is not storage's, or storage's second.
FinalizeSettles(s) ==
  /\ Alive /\ pc[s] \in {"finalize", "refinalize"}
  /\ \/ results' = [results EXCEPT ![s] = "ok"] /\ UNCHANGED faults
     \/ results' = [results EXCEPT ![s] = "failed"] /\ Fault("storage")
  /\ completed' = CompletedOne /\ FreeQueueSlot(s, "done")
  /\ UNCHANGED <<poolVars, slot, attempt, verdict, lane, pipeline, observed, dogVars>>

FinalizeRetries(s) ==
  /\ Alive /\ pc[s] = "finalize" /\ Fault("storage") /\ Go(s, "refinalize")
  /\ UNCHANGED <<poolVars, slot, attempt, verdict, laneVars, dogVars, results, completed>>

\* Its record fails too.  A rejection nothing handles ends the process.
FinalizeThrows(s) ==
  /\ Alive /\ pc[s] \in {"finalize", "refinalize"} /\ Fault("database")
  /\ FreeQueueSlot(s, "dropped") /\ completed' = CompletedOne
  /\ phase' = IF s \in observed THEN phase ELSE "exited"
  /\ UNCHANGED <<poolVars, slot, attempt, verdict, lane, pipeline, observed, fetch, outcome,
                 results>>

\* A capture rejected: wait for the finalizes pushed so far.
CapturesReject ==
  /\ Alive /\ pipeline = "capturing" /\ \E s \in Stories : pc[s] = "threw"
  /\ pipeline' = "unwinding" /\ observed' = {s \in Stories : pc[s] \in Settling}
  /\ UNCHANGED <<poolVars, storyVars, free, blocked, lane, dogVars, results, completed, faults>>

CapturesDrain ==
  /\ Alive /\ pipeline = "capturing"
  /\ \A s \in Stories : pc[s] \in Settling \cup {"done", "dropped"}
  /\ pipeline' = "draining" /\ observed' = Stories
  /\ UNCHANGED <<poolVars, storyVars, free, blocked, lane, dogVars, results, completed, faults>>

PipelineSettles ==
  /\ Alive
  /\ \/ /\ pipeline = "unwinding" /\ \A s \in observed : pc[s] \in {"done", "dropped"}
        /\ pipeline' = "rejected"
     \/ /\ pipeline = "draining" /\ \E s \in Stories : pc[s] = "dropped"
        /\ pipeline' = "rejected"
     \/ /\ pipeline = "draining" /\ \A s \in Stories : pc[s] = "done"
        /\ pipeline' = "resolved"
  /\ UNCHANGED <<poolVars, storyVars, free, blocked, lane, observed, dogVars, results, completed,
                 faults>>

----------------------------------------------------------------------------
(* The chunk task: prewarm, watchdog, teardown.                            *)

FetchSettles ==
  /\ Alive /\ phase = "prewarm" /\ fetch = "running"
  /\ \/ fetch' = "done" /\ UNCHANGED faults
     \/ fetch' = "failed" /\ Fault("fetch")
  /\ UNCHANGED <<poolVars, storyVars, laneVars, phase, outcome, results, completed>>

\* Every way to stop before rendering: the pool or the download failed (settlePrewarmedPool
\* awaits both), or the setup of the sessions and the stories did.
SetupFails ==
  /\ phase = "prewarm" /\ fetch # "running" /\ pool # "launching"
  /\ \/ (pool = "failed" \/ fetch = "failed") /\ UNCHANGED faults
     \/ pool = "up" /\ fetch = "done" /\ Fault("fetch")
  /\ browser' = Destroyed(browser)
  /\ phase' = "closed" /\ outcome' = "error"
  /\ UNCHANGED <<pool, rendered, infra, leaked, available, waiters, storyVars, laneVars, fetch,
                 results, completed>>

PipelineSettled == pipeline \in {"resolved", "rejected"}

WorkWins ==
  /\ phase = "armed" /\ PipelineSettled
  /\ phase' = "done"
  /\ outcome' = IF pipeline = "resolved" THEN "results" ELSE "error"
  /\ UNCHANGED <<poolVars, storyVars, laneVars, fetch, results, completed, faults>>

\* The ceiling, or a stall window without completed: destroyAll, then wait for the work.
WatchdogFires ==
  /\ phase = "armed" /\ ~PipelineSettled
  /\ phase' = "grace" /\ browser' = Destroyed(browser)
  /\ UNCHANGED <<pool, rendered, infra, leaked, available, waiters, storyVars, laneVars, fetch,
                 outcome, results, completed, faults>>

AbortedWorkSettles ==
  /\ phase = "grace" /\ PipelineSettled
  /\ phase' = "done" /\ outcome' = "timeout"
  /\ UNCHANGED <<poolVars, storyVars, laneVars, fetch, results, completed, faults>>

\* Mistake: the abort waits for the work with no grace timer.
GraceNeverExpires ==
  /\ phase = "grace" /\ PipelineSettled /\ phase' = "fatal"
  /\ UNCHANGED <<poolVars, storyVars, laneVars, fetch, outcome, results, completed, faults>>

\* Then the fatal cleanup, which is bounded, and process.exit.
GraceExpires ==
  /\ phase = "grace" /\ ~PipelineSettled /\ phase' = "fatal"
  /\ UNCHANGED <<poolVars, storyVars, laneVars, fetch, outcome, results, completed, faults>>
Exit ==
  /\ phase = "fatal" /\ phase' = "exited"
  /\ UNCHANGED <<poolVars, storyVars, laneVars, fetch, outcome, results, completed, faults>>

\* The task's finally, and the process goes on with its next task.
Close ==
  /\ phase = "done" /\ phase' = "closed" /\ browser' = Destroyed(browser)
  /\ UNCHANGED <<pool, rendered, infra, leaked, available, waiters, storyVars, laneVars, fetch,
                 outcome, results, completed, faults>>

----------------------------------------------------------------------------
CaptureStep(s) ==
  \/ CaptureStarts(s) \/ Acquire(s) \/ ProbePasses(s) \/ ProbeFails(s) \/ Relaunch(s)
  \/ RelaunchFails(s) \/ CaptureSucceeds(s) \/ StoryFails(s) \/ CaptureFails(s)
  \/ Release(s) \/ Recycle(s)
SettleStep(s) ==
  \/ HandsOff(s) \/ Retries(s) \/ CaptureRecorded(s) \/ CaptureThrows(s)
  \/ FinalizeStarts(s) \/ FinalizeSettles(s) \/ FinalizeRetries(s) \/ FinalizeThrows(s)
PipelineStep == CapturesReject \/ CapturesDrain \/ PipelineSettles
TaskStep     == FetchSettles \/ SetupFails \/ RenderBegins \/ WorkWins \/ AbortedWorkSettles
                \/ GraceExpires \/ Exit \/ Close
Starting(b)  == Launch(b) \/ LaunchFails(b) \/ LateLaunch(b)

Next ==
  \/ \E b \in Sessions : Starting(b) \/ BrowserDies(b)
  \/ \E s \in Stories : CaptureStep(s) \/ SettleStep(s) \/ CaptureWedges(s)
  \/ PipelineStep \/ TaskStep \/ WatchdogFires

Spec == Init /\ [][Next]_vars

\* Promises go on, commands and timers settle; only the watchdog may stay silent, and a
\* wedged command may.  No behaviour is infinite, so that something goes on is enough.
GoesOn ==
  \/ \E b \in Sessions : Starting(b)
  \/ \E s \in Stories : (CaptureStep(s) /\ pc[s] # "wedged") \/ SettleStep(s)
  \/ PipelineStep \/ TaskStep
FairSpec == Spec /\ WF_vars(GoesOn)
----------------------------------------------------------------------------
(* Properties.                                                             *)

\* Every session of a launched pool is in exactly one place: available once, or held by
\* one story; and no capture ever waits for one (acquire, release, shard.ts:788).
SessionsConserved ==
  pool = "up" =>
    /\ \A b \in Sessions :
         Cardinality({i \in DOMAIN available : available[i] = b})
           + Cardinality({s \in Stories : slot[s] = b}) = 1
    /\ \A s \in Stories : slot[s] # NoSession <=> pc[s] \in Holding
    /\ waiters = <<>>

\* A session past a replacement threshold is handed out only if its replacement failed, and
\* then its browser is no longer there to be used (release).
NeverCondemned ==
  \A b \in Sessions :
    browser[b] = "live" /\ Condemned(b) => \E s \in Stories : slot[s] = b /\ pc[s] = "release"

\* At most QueueLimit stories are between the start of their capture and the end of their
\* finalize, and no slot of the semaphore is lost on any path (pipeline.ts).
BacklogBounded ==
  /\ free + Cardinality({s \in Stories : pc[s] \in (Captures \ {"blocked"}) \cup Settling})
       = QueueLimit
  /\ blocked # <<>> => free = 0

\* A resolved pipeline has one result per story and has counted each story once, and
\* nothing of it is still running; its task leaves no session open.
ResolvedIsComplete ==
  outcome = "results" =>
    /\ \A s \in Stories : results[s] # "none" /\ slot[s] = NoSession
    /\ completed = StoryCount
    /\ phase = "closed" => \A b \in Sessions : browser[b] # "live"

\* A story's one row is written once: no attempt or finalize overwrites it.
OneRowPerStory ==
  [][\A s \in Stories : results[s] # "none" => results'[s] = results[s]]_results

\* Without a wedged command the lanes never block each other: the pipeline settles, with no
\* help from the watchdog, unless the task ends before it or the process dies.
LanesSettle == <>(PipelineSettled \/ phase \in {"closed", "exited"}
                  \/ \E s \in Stories : pc[s] = "wedged")

\* An abort ends: the work settles in its grace, or the process exits.
AbortEnds == phase = "grace" ~> phase \in {"closed", "exited"}
=============================================================================
