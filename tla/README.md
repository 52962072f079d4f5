# VizDiff, verified

TLA+ models of the parts of VizDiff that decide what happens to a build, the
TLC instances that check them, and TLAPS proofs about them. Every definition is
translated from the source; `PROJECT.json` maps each one to its file and lines.

## The system

VizDiff renders every story of an uploaded Storybook in headless Chrome,
compares the screenshots with those of a baseline build and asks for approval
of the differences. Three services share a Postgres database and an S3 bucket.

| Component | State | Operations | Interacts through |
|---|---|---|---|
| Upload API (`api/src/endpoints/upload.ts`, `api/src/screenshotTests.ts`) | rows of `screenshot_tests` and `task_queue`, tarballs in S3 | create a build with the next build number, enqueue its ingest, clean up after a failure | insert trigger -> `NOTIFY`; S3 |
| Task queue (`worker/src/tasks.ts`) | `task_queue`: `locked_at`, `locked_by`, `attempts` | claim the oldest eligible row, heartbeat its lock | row locks of Postgres |
| Worker loop (`worker/src/worker.ts`) | `currentTaskId`, `claimInFlight`, `shuttingDown`, `failedTasksMap`, `deferredTasksMap` | poll, `NOTIFY`, retry with backoff, defer, give up, shut down, reclaim orphans, sweep stuck builds | queue rows; `screenshot_tests.status`, `worker_id` |
| Ingest (`worker/src/ingest.ts`) | an in-memory copy of the build row | gate on the baseline, mark running, discover, shard or render inline, complete | `save(entity)`, queue rows |
| Render chunks (`worker/src/shard.ts`) | `test_results`, `expected_story_count` | check the claim budget, render, record failures, reconcile completion, post the result | conditional UPDATE on the build |
| Progress and watchdog (`progress.ts`, `timeout.ts`) | `last_progress_at`, in-memory progress | heartbeat, abort a stalled or overlong render, exit when it does not unwind | timers |
| Story pipeline (`pipeline.ts`, `stories.ts`) | capture slots, finalize queue | capture with retries, finalize | semaphores |
| Browser pool (`browserPool.ts`) | sessions, waiters | acquire, release, replace, destroy | promises |
| Story capture (`stories.ts`, `storyReady.ts`) | one page shared by the stories of a session, a cache of its viewport and last navigation | navigate or switch in place, wait, style, fit, stabilize, shoot | WebDriver |
| Story finalize (`stories.ts`) | the images and the row of a story | upload, compare, upload the diff, upsert, record an error | S3, then Postgres |
| Upload cache (`shard.ts`, `extract.ts`, `download.ts`) | a directory per upload with a marker file | look, fetch, unpack, mark, sweep | the worker's disk |
| Safeguards and diagnostics (`safeguards.ts`, `sessionDiagnostics.ts`) | init script, interceptor, buffers of requests and console lines | install, intercept, record, report | WebDriver events |
| Retention (`retention.ts`) | S3 objects and build rows | select and delete old builds | S3 first, then the row |
| Approval and webhooks (`api/src/endpoints/approval.ts`, `webhooks.ts`) | `screenshot_tests.status` | approve, deny, set the merge request | read, then save |
| Projects, users (`api/src/endpoints`) | rows of projects and users | create, remove, reset a token, close an account | cascades in Postgres, objects purged afterwards |
| Sign-in (`auth.ts`, `api/src/auth`) | a state cookie, a token cookie, the user's row | begin and complete a flow, log out | redirects of the browser |
| GitHub installations (`api/src/github.ts`) | two tables of installations and links | sync after each sign-in and for the dialog | GitHub's API |
| VCS status (`vcsStatus.ts`) | the commit's statuses and check runs | best-effort posts | HTTP |
| Health and metrics (`health.ts`, `metrics.ts`) | the worker's status row, gauges | heartbeat, scrape with a timeout | HTTP |
| Frontend (`frontend/src`) | the last answer shown, requests in flight, what is open and chosen | poll, click, sign in, look at a result, load more builds, reset a token, add a project | the API |
| Deployment | | | |

What is hard: several workers and two claim paths inside each worker run
against the same rows; a worker may be killed, shut down or wedged between any
two statements; locks expire; most writes carry no guard on who owns the row;
the ingest writes back a stale copy of the build; completion is decided by
whichever chunk finishes last; and three recovery mechanisms (startup reclaim,
give-up, stuck-build sweeper) work on the same builds as the handlers they
recover from.

What makes each component correct:

- queue and worker loop: one holder per task, one claim per worker, no task
  leaves the queue with its build unfinished, every task leaves it in the end,
  a baseline is rendered before its dependents, a build that kills workers is
  retired;
- build lifecycle: a finished build has a result for every story, a failed
  build stays unfinished, a chunk is retried a bounded number of times, an
  unfinished build always has someone to finish it, every build settles;
- pool and pipeline: no lost slot, no waiter left behind, no session handed out
  that is due for replacement, every session deleted at the end;
- watchdog: one outcome, no timer left running, a wedged render ends the process;
- capture: a screenshot shows its own story in its own viewport, and an error or a
  timeout is recorded only of the story it is of;
- finalize: a row speaks of the images its keys name;
- API: build numbers unique and increasing, no build without task or tarball, an
  approval is not lost, the commit shows what the row says;
- upload cache: a chunk is served a whole Storybook;
- safeguards: no request leaves past a layer that is in place, in any browser;
- retention: never a build in flight, no image a retained build shows, no object
  left without its row;
- page, metrics: no late answer takes the place of a younger one;
- pages: a result is shown in a view it has, no build that was there when the
  list was opened is passed over, an added project is listed, no spinner turns for
  ever;
- functions: a story is rendered in one chunk, an object belongs to one story, a
  token goes to its own host, a list holds each build once;
- sign-in and installations: a flow ends where it was begun, a listed
  installation is linked.

## Modules

| Module | Models | Uses |
|---|---|---|
| `TaskQueue` | the queue table and the workers that drain it; the render is an outcome | |
| `MCTaskQueue` | its instances: the dependency functions, symmetry | `TaskQueue` |
| `TaskQueueProofs` | type correctness, three safety invariants and, for one worker, the order of a backlog, proved | `TaskQueue`, `TLAPS` |
| `BuildLife` | the abstract life of a build: status, results, posts owed and made | |
| `ShardedBuild` | one build from its upload to its final status, over all its queue rows | `BuildLife` (as its promise) |
| `MCShardedBuild` | its instances | `ShardedBuild` |
| `ShardedBuildProofs` | type correctness, two safety invariants, an action property and the refinement of `BuildLife`, proved | `ShardedBuild`, `TLAPS` |
| `OneWorkerProofs` | two more safety invariants of `ShardedBuild`, proved for one worker | `ShardedBuildProofs` |
| `RenderSession` | the rendering of one list of stories: browser pool, pipeline, retries, watchdog and the chunk task around them | |
| `MCRenderSession` | its instance | `RenderSession` |
| `RenderSessionProofs` | type correctness, four safety invariants and an action property, proved | `RenderSession`, `TLAPS` |
| `StoryCapture` | one browser session, story after story, in a page they share | |
| `StoryFinalize` | screenshot, diff and row of one story, over reruns and two workers | |
| `StoryProofs` | whose a screenshot or a failure is, and that a verdict is on its images, proved | `StoryCapture`, `StoryFinalize`, `TLAPS` |
| `UploadCache` | the extracted uploads on a worker's disk | |
| `PageRequests` | safeguards and diagnostics of a browser session | |
| `Uploads` | the upload endpoint next to the project and account endpoints | |
| `BuildReview` | everybody who writes a build's status, and what its commit shows | |
| `MCBuildReview` | the instance of the run `verdict` | `BuildReview` |
| `ApiProofs` | type correctness, five safety invariants and an action property of the two, proved | `Uploads`, `BuildReview`, `TLAPS` |
| `Retention` | the reaper next to builds that need the images it deletes | |
| `SignIn` | the OIDC and GitHub flows in the tabs of one browser | |
| `Installations` | the syncs of GitHub App installations | |
| `PartsProofs` | what is served from the cache, what leaves a session and what is known of its requests, and the safety invariants of the three parts above, proved; and four of `Formulas` | `UploadCache`, `PageRequests`, `Retention`, `SignIn`, `Installations`, `Formulas`, `TLAPS` |
| `Telemetry` | heartbeat, health and scrapes of a worker | |
| `BuildPage` | the build page: polls, requests in flight, clicks, sign-in | |
| `ResultDialog` | the dialog of one result, over a list that is polled | |
| `ProjectPage` | the project page: builds by offset, the token | |
| `AddProject` | the projects page and the dialog that adds one | |
| `Parts` | the fourteen parts side by side | the fourteen parts |
| `PagesProofs` | the properties of the pages and of `Telemetry`, and the properties of `Parts`, proved | `Parts`, `PartsProofs`, `ApiProofs`, `StoryProofs` |
| `Formulas` | the pure functions the others take for granted | |
| `MCFormulas` | what those must give, as named assumptions over bounded inputs | `Formulas` |
| `MCParts` | one instance of each part without a run of its own | `Parts`, `MCFormulas` |

The models overlap on purpose. `TaskQueue` has many tasks and the exact
bookkeeping of the worker loop, and reduces a render to its outcome.
`ShardedBuild` has one build with all its rows and every statement of its
handlers, and reduces the bookkeeping of a claim to one action and the rendering
of a chunk to an outcome. `RenderSession` is that rendering, with a story's
capture reduced to success, a failure of its own or one of the harness;
`StoryCapture`, `StoryFinalize`, `UploadCache` and `PageRequests` are what it
leaves inside. `Uploads` ends where the queue begins, and `BuildReview` begins
where a build is created and reduces the whole render to what it writes to the
row.

### TaskQueue

A process runs three promise chains, its *drivers*: the poll loop, the `NOTIFY`
handler and the startup reclaim. `pc[<<w, d>>]` is the await a driver is at and
`job` the row it holds. An action is one database update, together with the
reads just before it and the JavaScript that runs on its reply; the claim is two
actions (the statement, then `StartTask` on its reply) because another driver
may run between them. So everything that can happen at an `await` can happen in
the model.

| Variables | Code |
|---|---|
| `row`, `by`, `attempts` | a row of `task_queue`: free, locked, stale (older than the lock timeout) or gone; `locked_by`; `attempts` |
| `build`, `owner` | `screenshot_tests.status` (every terminal status is "closed") and `worker_id` |
| `inFlight`, `current`, `mode` | `claimInFlight`, `currentTaskId`, `shuttingDown` and the stages of start and shutdown |
| `fails`, `backing`, `defers`, `deferring` | `failedTasksMap` and `deferredTasksMap`: counts, and the windows as sets of hidden tasks |
| `notified`, `orphans` | pending `NOTIFY`s; the result of the reclaim's SELECT |
| `disturbed` | history: tasks a signal, crash or interrupted give-up made a worker drop |

Time is abstracted to its order: a backoff or deferral window closes by an
action of its own (`BackoffElapses`, `DeferElapses`), a lock is stale once
`LockExpires` has fired, which a live owner's heartbeat prevents (`Beating`).
The one relation between two delays that the code relies on,
`DEFER_REPOLL_MS < DEFER_INTERVAL_MS`, is the guard of `DeferElapses`. The release of a
lock in the shutdown and the code after its reply are one action. So are the
SELECT and the UPDATE of `ReclaimUnlocks` (`worker.ts:807-818`, 825). In the shutdown
the release and the reset may each fail; the error is logged and the shutdown goes
on.

### ShardedBuild

A chunk stands for the one story it renders, `<<n, c>>` is chunk `c` of the
n-th `enqueueRenderChunks`, and `<<0, 0>>` the ingest row. The point of the
model is that TypeORM's `save(entity)` is not atomic: it reads the row, keeps
the columns in which the in-memory copy differs (`SaveReads`), and then writes
those (`SaveWrites`), whatever happened to the row in between or since the copy
was loaded. Every other write is one statement and one action.

| Variables | Code |
|---|---|
| `build`, `updated`, `beat` | `screenshot_tests`: `status` ("ready" stands for unapproved and no_changes), `worker_id`, whether `expected_story_count` is set; the ages of `updated_at` and `last_progress_at` |
| `results` | stories with a row in `test_results` |
| `row`, `by`, `attempts`, `task`, `mode`, `fails` | as in `TaskQueue`, without the two claim paths |
| `pc`, `mem`, `saving`, `err` | the step of a handler, the ingest's copy of the row, the columns its save is about to write, the error it unwinds with |
| `sweep` | where the stuck-build sweep of a worker is |
| `size` | whether the build reaches `WORKER_SHARD_MIN_STORIES` |
| `starts`, `completed` | history: renders begun per row, final results posted |

`TimePasses` makes the timestamps old: freely while no worker is busy with the
build, and as a fault (a hung call) while one is. With `PromptClaims` it never
does so while a row is queued; that is the assumption that no row waits fifteen
minutes behind other work, made by the run `single` and by the violation run
`handoff`, which is about another cause. The claim may take any row: the
backoff windows of a worker may hide any older one.

`ReclaimUnlocks` reads the ingest row and unlocks it in one action; the shutdown's
release and reset may each fail on their own; the reclaim's flip of
the build that follows is a step of its own. An error inside the sweeper leaves
what a death at that point leaves, so only deaths are modelled there.

### BuildLife

`status`, `done`, `owing` and `posted`: results are only added, a running build
becomes ready when all are in, and whoever makes it ready owes one post, made
or forgotten. `ShardedBuild` maps `build.status`, `results`, the workers between
their winning reconcile and its reply (`Posting`) and `completed` to them; the
property `KeepsPromise` is `BuildLife`'s specification under this mapping. The
abstract specification names the ways the code leaves the straight path: an
ingest that works on an old copy may show the build as running again (`Runs`),
a shutdown or reclaim requeues it, a sweep or give-up fails it.

### RenderSession

The stories of a chunk are concurrent promises of one process, so an action is
what one of them does between two awaits. `browser`, `available` and `waiters`
are the pool, `pc`, `slot`, `attempt` and `verdict` a story's place, `free`,
`blocked` and `lane` the semaphore and the finalize lane, `phase` the watchdog
and the task around it. An error is the story's own, one that rejects the pipeline,
or one of a command or a launch, whose message decides whether the harness has it and the
story is retried, or nobody knows it and the story is recorded as failed at once
(`EitherClass`); a command may wedge, in which case only the watchdog's
end of the process is left. `leaked` counts the Chromes that no slot holds.

### The parts

- `StoryCapture`: `page`, `events` and `view` are what the browser holds,
  `cache` what the worker believes of it. The page renders, emits events and
  grows on its own; a `setViewport` that timed out may still take effect
  (`abandoned`). `pageKind` is how well the page reports: events and a phase that name
  their story, events that need not and a phase that does not ("nameless"), the phase
  alone, or nothing. An event comes once a render and may be late; its field `of`, the
  story it is about, is history and read by the properties only. A command that fails
  is retried, or recorded as "unknown" (`CommandFails`).
- `StoryFinalize`: two floors decide between changed and unchanged; the images
  are told apart by what the capture produced.
- `UploadCache`: `disk[u]` is the marker and how much of the files is there;
  the worker may stop at each step and start again over it.
- `PageRequests`: a request passes the init script, which knows pages and some
  APIs, and the network layer of `WORKER_EGRESS_BLOCK_MODE`. Each installation
  may fail and is repeated in each new browser. A request that is let through, but
  whose continuation fails, is stopped by the fallback; one of a worker may stay
  stuck (`Settled`).
- `Uploads`: `at[r]` is the statement an upload is at; build numbers, rows,
  tasks, tarballs and checks are what it leaves. Statements fail and the
  process dies between any two.
- `BuildReview`: as in `ShardedBuild`, a `save` selects again (`Selects`) and
  then writes the columns that differ (`Writes`), so that a column the caller
  never assigned is written back when somebody else changed it. Once the sweeper has
  deleted the task no worker starts the build (`Swept`); what is then shown is the
  sweeper's own post.
- `Retention`: builds in the order of `created_at`, their baselines, references,
  objects and the sweepers' selections.
- `SignIn`, `Installations`, `Telemetry`, `BuildPage`: the cookie shared by
  tabs, the rows and links written by syncs, the clock and the scrape that gives
  up on its query, the answers in flight. Verdict posts of the build page may overlap
  (`clicks`); the status and the results of an answer are two queries in the code
  (`screenshotTests.ts:205`, 227) and one state in `Serves`.
- `ResultDialog`: a render and its effects are two steps (`due`), so that a key
  pressed in between reaches the listener of the render before (`listener`).
- `ProjectPage`: `fetch` is the one request of `useBuilds`; builds are uploaded
  and reaped at any time. `opened` is history: the newest build when the first page
  was served.
- `AddProject`: an instance of the dialog per opening; `repoAsks` and `posts`
  outlive the instance they were asked by (`by`), as promises do.

## Runs

All bounds are constants: `MaxCrashes`, `MaxSignals`, `MaxFaults` and their
namesakes in the parts bound the deaths, shutdown signals and errors of a run,
`MaxTroubles` all of them together in `ShardedBuild`, `MaxBatches` the times the
chunks are enqueued (large enough in every liveness run that an ingest never
waits for it: waiting would be found as a violation of `Drains`).

| Run | Instance | Shows |
|---|---|---|
| `queue` | 2 workers, 1 task that is polled and notified, 1 crash, 1 signal, 1 failed statement | `TypeOK`; one holder per task (`ExclusiveProcessing`), one claim per worker (`SingleFlight`), no unfinished build leaves the queue (`NoLostBuild`) |
| `baseline` | 1 worker, a backlog whose older task depends on the younger | the baseline is rendered first (`BaselineFirst`) |
| `drain` | 1 worker, 2 builds that name each other as baseline, one of which kills the worker at every render; 1 crash, 1 fault; restarts faster than lock expiry | the queue drains (`Drained`), and with it the crash loop |
| `poison_slow` | 2 workers, a build that kills them, locks that expire before the restart | violation of `CrashLoopBounded` (below) |
| `build` | 2 workers, 2 chunks, 1 fault (error, hung call, wedge, lost reply), a budget of 1 claim | `FinishedIsComplete`, `StartsBounded`, `FailedNotFinished`, `KeepsPromise` |
| `single` | 1 worker, 2 chunks of which one kills it, 2 crashes | `NotStranded`, `PostedOncePerRun`, `Converges` |
| `settle` | 1 worker, a small or large build, any two of a crash, a signal and two faults, no retries left | `TypeOK`, `Settles`, `Drains` |
| `handoff` | 2 workers, 2 chunks, nothing goes wrong | violation of `NotStranded` (below) |
| `heartbeat` | 1 worker, 1 crash | violation of `SweepSparesActive` (below) |
| `session` | 3 stories of which one is broken, 2 sessions recycled after each story, 1 finalize lane, a backlog of 2, 2 attempts, 1 failure of any of nine kinds | `SessionsConserved`, `NeverCondemned`, `BacklogBounded`, `ResolvedIsComplete`, `OneRowPerStory`, `LanesSettle`, `AbortEnds` |
| `parts` | the fourteen parts, each with its own bounds (the constants of `MCParts_parts.cfg`) | fifteen properties, of one to six facts each |
| `verdict` | a worker, an approval and a merge-request event | violation of `VerdictStands` (below) |

Two workers are enough for every race the code has: each pairs a handler with
one other actor (a second claim, a sweeper, a reclaim, a signal). Two chunks
are enough for "another chunk is still missing"; two tasks for order and
dependency. One crash, signal or fault reaches every step of every handler,
because it may come at each. Retry counts of 0 and 1 reach both branches of
every bound. Three stories over two sessions and a backlog of two make one
story wait at each of the limits; a session recycled after every story makes
every release a replacement.

`Parts` exists because the parts share no state: a behaviour picks a part
(`part`), takes that part's steps, and leaves the others in one initial state.
The `VIEW` of `MCParts` is the part and its variables; of a capture it leaves out what
no step reads any more: the story a failure names, as every failure counts, and the
locals of a capture that has ended. Where several properties of a
part say one thing together they are one property of `Parts`. The instances: in
`StoryCapture` four stories (one broken, one silent, one with a ready signal, one taller
than its viewport that also throws late), two viewports and four kinds of page; in `Uploads`
three uploads at once, two with a failure, and one against each administrative
action; in `BuildReview` two handlers and a worker, or a handler, the sweeper and
a worker that dies once; in `PageRequests` three requests with room for two; in
`Retention` three builds with three histories, one kept and two per sweep; in
`UploadCache` one archive within the limits and one beyond; two workers and two
captures in `StoryFinalize`; two tabs and two people in `SignIn`; two users and
two installations, one personal, in `Installations`; in `ResultDialog` two
stories, each a failure with or without a screenshot, a change with or without a
mask, or a result without a readable baseline, three polls and three images that
do not load; in `ProjectPage` pages of one build out of five, one reset, one
lost answer; in `AddProject` a repository of each provider, two openings of the
dialog, two requests for repositories, two POSTs and one lost answer.

`MCFormulas` states what the functions must give, over bounded inputs, as named
assumptions that TLC evaluates at the start of `parts`: the chunks partition the
stories in order (`ChunksPartition`) and are given enough time together
(`ChunksHaveTime`); pauses grow unless the interval is above 500 ms
(`PausesGrow`); a payload reads back whatever jsonb made of its ids
(`PayloadsReadBack`); the console tail is the latest that fits (`TailIsLatest`);
keys of different stories differ but for a story called like another's diff
(`KeysAreOwn`); a host's token answers for its own origin (`TokensStayHome`);
comment, page and list agree on the counts (`CountsAgree`); pages of a list hold
each build once (`PagesCoverList`).

No run checks for deadlock: a worker with an empty queue has nothing to do, a
session and a request end, and the bounds stop the faults.

### What the violations show

- `poison_slow`: `claimNextTask` takes over a row whose lock expired whatever
  its `attempts`; only the startup reclaim looks at them, and by then the build is
  another worker's. `environment.ts` says the limit bounds the crash loop. It does
  so only when a worker restarts before its lock expires, as `drain` shows.
- `handoff`: `ingest.ts:365-366` saves the entity after the chunks are
  claimable. If they finish first, the save writes its stale "running" over the
  final status. No row is left, so only the sweeper ends the build, as failed.
  For the same reason a finished build may lose its expected count, which is why
  `FinishedIsComplete` speaks of the results only, and a chunk that reconciles
  after such a save posts again, which is why `PostedOncePerRun` is checked with
  one worker only.
- `heartbeat`: `last_progress_at` is never cleared, and the sweeper prefers it
  to `updated_at`. A build requeued after a pause is swept as soon as it runs
  again.
- `verdict`: `webhooks.ts:636-640` loads the whole build, sets the merge
  request's number and saves. If an approval is saved in between, the status in
  the loaded copy differs from the row's and is written back: the approval is
  gone from the row while the commit still shows it.

### Other divergences met while modelling

These are in the models, or visible from them, without a run of their own.

- `worker.ts:665` says a released task "will not finish here", but its handler
  runs on until `process.exit`, and its unguarded DELETE or unlock hits the row
  even if another worker has it (`ShardedBuild`, run `settle`, has such
  shutdowns; the build settles all the same).
- `pipeline.ts:104-106` promises that enqueued finalizes are awaited before a
  rejection propagates; captures still under way enqueue more after that.
- `shard.ts:812-817` and `browserPool.ts:98-100`: after an abort or a failed
  launch, a capture or launch still unwinding starts a Chrome that nobody
  deletes; a failed session setup (`browserPool.ts:152-154`) leaves one too.
- `stories.ts:113`: the cached viewport survives a `setViewport` that timed out
  and took effect later, so one story may be shot in the size of another; `ShotSized`
  excludes that (`abandoned`).
- `storyReady.ts:321-326`: readiness is "story-scoped", but a success event that names
  no story is accepted in both modes because the buffer was cleared at the switch. The
  page still shows the story before for a beat after that, and its late
  `storyRendered` without an id ends the wait for the next one, whose screenshot then
  is not its own. `ShotIsOwn` excludes that case (`Misled`), and `MisledInPlace` says
  it takes a switch in place in a page whose events need not name their story.
- `errorClassify.ts:57-61` prefers a mislabelled failure to a retry storm: an error it does
  not recognise is the story's, as "unknown". So a command of the harness or a full
  disk may cost a story its result without a retry, and `BlamesOnlyOwn` claims nothing
  of such failures.
- `webhooks.ts:360-392`: the check-run action never answers the request when it
  succeeds.
- `upload.ts:213-228`: a failure while the build's number is found leaves the
  tarball; a check created before a failing statement stays queued.
- `projects.ts:199`: a token reset that races the removal of its project inserts
  the project again; projects created by uploads outlive their creator.
- Two syncs of one new installation insert it twice; closing the account that
  recorded an installation takes it away from everybody linked to it.
- An approval before the GitHub check run is posted leaves the newer run on top;
  an unapproved build's check stays "queued", its GitLab status pending.
- `OidcAuthProvider.ts:61-63` keeps a discovery promise that was rejected.
- `s3Keys.ts:60-79`: a story called like another with `-diff` or `-failure`
  behind shares its key. `markdown.ts:143-147` links a missing image before a
  failure.
- `useApiGet.tsx:33`: a failed poll sets the data to null. `build.tsx:181-182`
  says that polls "must not blank out the page"; this one does, and because a
  page without data is not pending, it also ends the polling. Requests still in
  flight are dropped at each poll, so a server slower than four seconds is never
  shown.
- `project.tsx:97-100`: after a reset the page shows the new token and copies the
  old one. A build reaped while the list is open moves the offset, so the next
  page leaves one out: `ListIsWhole` excludes that case (`reapedAhead`). It also
  excludes the builds uploaded since the page was opened (`opened`): once more of
  them have come than the list and a page together are long, the next page ends
  above the list and leaves a hole. `BUILDS_PAGE_SIZE` is 100, so that takes a
  busy project; the attempt to prove the property without the exclusion showed it.
- `worker.ts:84-92` says that the gap between `DEFER_REPOLL_MS` (2 s) and
  `DEFER_INTERVAL_MS` (5 s) "guarantees the unfinished dependency is the only
  eligible candidate at the re-poll". It does for one dependent that is older
  than its baseline. With three of them each re-poll finds one whose window is
  over again: none but they are claimed until one has been deferred
  `MAX_DEFER_COUNT` times and is rendered before its baseline. Other work in front of the
  baseline has the same effect. `TaskQueue` contains that behaviour, and the
  hypothesis `OneBehind` of `BaselineIsFirst` excludes it.
- `NewProjectDialog.tsx:103-123`: the spinner over the dialog ends by its timer
  while the POST is in flight, so that a repository can be clicked again, and
  `projects.tsx:222` closes whichever dialog is open when a POST of an earlier one
  is answered. A second POST for a GitLab repository is a 409; for GitHub it
  makes a second project, though `1752000000000-AddProjectKey.ts:13-15` says that
  "creating one *without* a key is still rejected": `gitlab_host` is NULL, and the
  index holds NULLs to be distinct (`Indexed`).
- `pages/docs/index.tsx:28` says one lands on the page of a project that was
  created; the dialog only closes.
- `safeguards.ts:443-444`: if the subscription fails after the intercept was
  added, every request of the page waits for nobody.
- `retention.ts:54-93`: a reference saved after the baseline was selected is left
  dangling; the limit of a sweep may take a baseline before its eligible
  referrer.
- `shard.ts:481-488`: giving up a chunk whose payload does not parse reconciles
  nothing; `shard.ts:699`: a sweep of a stale directory that stops half way may
  leave the marker.

### Fairness

`FairSpec` of `TaskQueue` and `ShardedBuild` assumes weak fairness of what the
runtime does by itself: a handler goes on when its reply arrives, the poll timer
and the sweep timer fire (`setTimeout`, `setInterval`), windows and locks expire,
a shutdown and a reclaim run to their end, and the orchestrator restarts a dead
worker. Nothing is assumed of arrivals, `NOTIFY`s, signals, crashes or faults. In
`ShardedBuild` each row is fairly claimed by some worker: a backoff window is
finite and the oldest eligible row is taken first. `RenderSession` assumes that
something other than the watchdog and a wedged command goes on: promises are
resumed and commands and timers settle. The watchdog may stay silent, so
`LanesSettle` does not owe its truth to it. The parts have safety properties only.

## Proofs

`TaskQueueProofs` proves, for every number of workers and tasks, every
dependency function and every bound on crashes, signals, faults, retries and
deferrals, from `QueueAssumption` alone:

- `TypeCorrect`: `Spec => []TypeOK`;
- `Exclusive`: `Spec => []ExclusiveProcessing`;
- `OneFlight`: `Spec => []SingleFlight`;
- `NoBuildLost`: `Spec => []NoLostBuild`.

None of the three safety invariants is inductive. That two drivers never hold
the same undisturbed task depends on the lock being held in the row by the
worker that holds the task, on `currentTaskId` and `claimInFlight` agreeing
with the drivers' steps, on the reclaim only visiting builds its own worker
left behind, and on the build being "running" exactly while a handler past the
claim works on it. `IInv` is the conjunction of these facts, each a definition
of its own; `Invariance` proves `Spec => []IInv`, with one lemma per action and
one step per conjunct it can disturb, and the theorems follow.

`BaselineIsFirst` (`BaselineFirst`) is about one worker that works off a backlog
in which nothing fails but renders. It holds for any number of tasks under
`OneBehind`: no baseline waits for another, and one that is younger than its dependent has
nobody else before it. Older baselines are first because the oldest row is
claimed. For the younger one the proof follows the turns of the deferral
(`TakeTurns`): the dependent is claimed once, deferred, and is out of the claim's
sight until the re-poll has taken the baseline. That needs that nothing else keeps
the baseline's row from being claimed (`Untouched`), and that what a handler fails with
tells how far it came (`FailsLate`). Without `OneBehind` it is not so (see the
divergences).

`ShardedBuildProofs` proves, for every finite set of workers, any chunks and any
bound on batches, claims, retries, crashes, signals and faults, from
`BuildAssumption` alone:

- `BuildTypeCorrect`: `Spec => []TypeOK`;
- `FinishedComplete`: `Spec => []FinishedIsComplete`;
- `RendersBounded`: `Spec => []StartsBounded`;
- `FailedForGood`: `Spec => FailedNotFinished`, if all builds are large.

Here too `IInv` is needed. A stale copy may be written over the row at any time,
so "ready means complete" has to hold of every copy in memory too
(`ResultsInv`), and that a result only ever belongs to a chunk of the build
rests on a handler being at a step that suits its row (`TaskInv`, `BatchInv`).
A render is bounded by the claims because each render begun, and each that a
claim may still begin, has a claim of its own: `StartsInv` counts the two
together. And a large build stays failed because no copy an ingest of it saves
ever says "ready" (`CopyInv`, `SavingInv`); only the guarded reconcile does.
A small build is excluded: its ingest saves "ready" over whatever the sweeper
has written (`FinishedIsComplete` holds of it all the same). `BuildInvariance`
has one lemma per conjunct and one step per action.

`PromiseKept` is the refinement of `BuildLife`: if all builds are large, `Spec =>
KeepsPromise`. Its step lemmas use the inductive invariant: that a save of a
large build's ingest never writes "ready" (`SavingInv`), that the reconcile's
guard sees every result (`ResultsInv`), and that the process that wins it was
not already owing. Small builds are excluded because their ingest completes
inline: it saves "ready" with no guard on the row's status, and so may finish a
build the sweeper has just failed.

`OneWorkerProofs` proves two properties of the same specification that hold of
one worker and of no more, under the hypothesis `OneWorker`: one worker, no
failed statement, no shutdown signal, and no row that waits as long as the
sweeper's thresholds (`PromptClaims`). The chunks, of which there is one at
least, their poison, and the number of crashes, claims and batches are arbitrary.

- `NeverStranded` (`NotStranded`);
- `PostedOnce` (`PostedOncePerRun`), if all builds are large.

No conjunct of `OneWorker` could be left out of `NeverStranded`. The run
`handoff` shows how two workers strand a build until the sweeper fails it; on
one worker TLC finds that a shutdown while the ingest hands over does, that a
chunk deleted for a permanent error does, and that the sweeper does when it
selects a build that is being claimed, deletes the row from under the ingest and
the worker then crashes. What is left is not sequential: the worker may be
killed between any two steps, and the next start finds the row, the build and
the queue as they were. The invariant is that a build in flight is carried
(`CarriedInv`): its ingest is queued, or it is running with its stories counted,
a chunk is still to reconcile, and every missing result has a queued chunk that
has not got past recording it. It rests on the ingest's copy being the row but
for what a save is about to write (`ReadInv`, `IngestInv`), on the rows of the
last batch being queued when an ingest is finished (`HandedInv`), and on an
owner being written only while the ingest is queued (`OwnedInv`), so that a
restart never fails a build whose chunks are at work. A post needs a batch of its
own (`OwedInv`): a running build nobody owns has one that is not posted. With
two workers TLC finds one post too many: a crashed ingest is run again while
another worker has a chunk of its first batch at the reconcile.

The other modules follow the same pattern: an inductive invariant whose
conjuncts are named for what they tie together, checked with TLC on an instance
of the component before it was proved, and one lemma per action or per conjunct.
The assumption in front of each theorem is the named assumption of the
component (`PartsAssumption` has TLC evaluate it for the instances of the run
`parts`): bounds are naturals, and where it is said, sets are finite or disjoint.

`RenderSessionProofs`, for every number of stories, every size of the pool,
backlog and lane, and every bound on attempts and failures: `SessionTypeCorrect`,
`NoSessionLost` (`SessionsConserved`), `CondemnedReplaced` (`NeverCondemned`),
`BacklogKeepsBound` (`BacklogBounded`), `ResultsComplete` (`ResolvedIsComplete`)
and `RowsAreFinal` (`OneRowPerStory`).

- A session is in one place because a story between its acquire and its release
  holds it, nobody else does, and the free list has no duplicate (`PlaceInv`);
  nobody waits for one because no more stories capture than there are sessions
  (`CaptureInv`).
- The semaphore counts what has not been given back (`ChargeInv`, `CountInv`):
  each path out of a capture, thrown ones included, gives back one slot or hands
  it on to the finalize.
- Completeness needs both queues (`QueueInv`: who waits in which lane), what a
  verdict says of the story's row (`VerdictInv`, `RowInv`), and that an outcome
  is only set once the pipeline is over (`OutcomeInv`, `StageInv`).

`StoryProofs`, first `CapturedOwn` (`CapturesAreOwn`): once a capture has
navigated, the page has been asked for its story and for no other, so an event
that names the story, or its phase, is evidence of a rendered story, whatever the
stories before it still emit or throw (`OpenedInv`), and no later step of the
page takes it back (`RenderedInv`). An event that names no story is evidence only if
it is about this one: in a document of its own it always is, after a switch in place
it need not be (`Misled`). In a document of its own there is also nobody else to fail
it, and after a switch in place a failure costs a navigation. What the worker remembers of the browser, its viewport and its style,
is so until a command has timed out (`CachesInv`), and so are the frame and the
shot (`FramedInv`, `ShotInv`).

Then `VerdictIsOnItsImages` (`RowMatchesImages`): as long as no two workers have
been at the story at once (`AloneInv`), the images in storage are, up to the step
a worker is at, those its draft was decided on (`DraftInv`).

`ApiProofs`, first `Uploads` (`UploadsLeaveWhole`, from `NoBuildForgotten` and
`ClaimsAreServable`; `NobodyStarves`): what each request has left behind is
determined by its step and the state of its project (`RowInv`, `PlaceInv`,
`TarballInv`), so that a project that is purged has no rows left, unless a reset
of its token has brought it back (`DeletionInv`). An upload that gives up has
been passed by a row for each of its attempts (`TryInv`), and a number is never
higher than the uploads past their insertion, also that of a row which a save of
the check's id inserts again because its project was brought back (`NumberInv`).

Then `BuildReview` (`CommitFollows`, from `ShownIsSaved` and `ShownIsRow`;
`VerdictsLast`): what a writer's copy says at the steps where it is going to be
written (`CopyInv`), and that whoever could still write something else over a
verdict has a copy older than it (`StaleInv`). That only such a writer undoes a
verdict is an action property and uses both. That the commit follows the row
holds as long as nobody has overlapped, and then rests on what the one writer
that works, the worker, the sweeper or a handler, has saved and still has to post
(`CalmInv`).

`PartsProofs`:

- `ReapedWholly` (`ReapsWholly`): for any number of builds, sweepers and
  failures. What a sweep holds was closed when it was selected (`DoomedInv`); a
  baseline that a retained build refers to has its images and is in no sweep's
  selection, unless the reference is one the sweep could not have known
  (`ShownInv`).
- `LoginLandsOwn` (`LoginIsOwn`): a state is given to one tab, and the cookie
  that holds it holds the page this tab asked for (`StateInv`); any other answer
  fails.
- `EgressContained` (`Contained`, an action property): a browser that is ready
  has the interceptor or has missed its installation, and every request it lets
  through stays with its host (`EgressInv`).
- `ServedWhole` (`ServesWhole`): a marker is only ever next to all files
  (`MarkerInv`), unless a sweep of its directory was cut short, because it is
  written last, and because nothing is left of an upload that is fetched again
  and it has no marker while it is unpacked (`StageInv`).
- `ListedLinked` (`ListedAreLinked`): each run of a sync has a row of the
  installation it is at, and every listed one is linked, still to come or the one
  it is at (`RunInv`). Rows and links only come, unless an account is closed,
  and so one sync never undoes what another rests on (`RunStays`).

- `PendingKnown` (`StillKnown`): a request that is out is in the map of pending
  ones unless it has been pushed out, and no more of those that came after it are in
  the map than were counted (`PendingInv`); so nobody is pushed out early.
- `SyncTypeCorrect` and its likes: the type invariants of the five parts.

About `Formulas`, for all inputs, where `MCFormulas` has bounded ones:

- `PlanPartitions`: the chunks of a build hold every story at one place
  (`ChunkShape`: which stories a chunk holds; `Quotient`: where each story is).
- `ObjectsAreOwn`: two images have one key exactly if they are of one upload and
  named alike; a prefix covers what is its own.
- `TokensAreOwn`: the host that answers is the first of the address's origin.
- `PagesHoldEach`: the pages of a list hold the newest row of each build number
  once, newest first. The list is the ranking of a finite set by a strict order,
  which has no ties and no gaps (`Ranks`); a page is a cut of it (`PageShape`).

`PagesProofs`, for any number of polls, clicks, results, builds, people and lost
answers:

- `PageForward` (`NeverBackwards`) and `GaugeForward` (`GaugeNeverGoesBack`), together
  `AnswersGoForward` (`AnswersNeverGoBack`): only the last request of a key is
  answered to, and when it was served the server had moved on from what is shown
  (`FlightsInv`); the gauge is never ahead of the query that a scrape waits for, and
  one that outlived its timeout does not set it (`GaugeInv`).
- `PagesAreRight` (`PagesKeepUp`). The view of a result is one it has because a
  broken image is noted for its own result, even by a handler of the render before
  (`OwnErrorsInv`). The oldest build listed is at least as far down on the server as the
  list is long, so the next page does not begin below it (`ListInv`,
  `LeastIsDeep`), and an answer under way was served from such an offset
  (`FetchInv`). A project answered as created is there (`AskedInv`), and a list
  that is shown, or about to be, has all that was heard of before it was fetched
  (`ListedInv`). While organizations are loaded the time is noted, so a timer ends
  the spinner (`SpinnerInv`).
- `PartsTypeCorrect` (`TypeOK`).

The last two are about `Parts`, whose behaviours are behaviours of each part
(`PartsRefined`); so the theorems of the parts hold of what the run `parts` checks.

Only model-checked: everything under fairness (`Drained`, `Settles`, `Drains`,
`Converges`, `LanesSettle`, `AbortEnds`), because liveness is out of the prover's
reach; and those assumptions of `MCFormulas` that are not
named above: they count, add up or pick by recursion over a sequence, which takes an
induction over data that the provers cannot do, or they compare two cases of a
definition. Every invariant and action property that a passing run checks is proved.

## Plan

1. (done) `TaskQueue`, its runs and its proofs.
2. (done) `ShardedBuild`, its runs and its proofs.
3. (done) `BuildLife`, and its refinement by `ShardedBuild`, checked and proved.
4. (done) `RenderSession`: pool, pipeline, watchdog and the task around them.
5. (done) The parts: capture, finalize, cache, requests, uploads, reviews,
   retention, sign-in, installations, telemetry, the build, project and projects
   pages and the dialog of a result.
6. (done) `Formulas`.
7. (done) Proofs for `RenderSession`, `UploadCache`, `StoryFinalize`, `Uploads`,
   `StoryCapture`, `BuildReview`, `Retention`, `SignIn`, `Installations` and the
   egress of `PageRequests`.
8. (done) The one-worker properties of `ShardedBuild`.
9. (done) Proofs for the pages and `Telemetry`, the composition `Parts`, the
   one-worker property of `TaskQueue` and four of the `Formulas`.

What is left is liveness, which waits for a prover of it.

## Not modelled

What runs inside the page (the DOM, its fonts and animations) and the pixels of
a comparison; the parsing of archives and images, S3 transfer and the HTTP
clients of GitHub and GitLab, which are outcomes; `deletePreviousTestResults`
between two builds of one commit; the verification of tokens and signatures,
which libraries do; `DevAuthProvider` and the GitLab listings, which keep
nothing; the other pages of the frontend, which show one request each; end-to-end scripts and deployment. A healthy sharded build whose
chunks wait longer than the sweeper's threshold behind other work is failed by
the sweeper; the models contain that behaviour and show that the build settles,
but no property forbids it, since the code promises nothing.
