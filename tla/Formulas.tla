------------------------------- MODULE Formulas -------------------------------
(***************************************************************************)
(* The pure functions the other modules take for granted: how a build is   *)
(* cut into chunks and its ceiling computed (worker/src/shard.ts), how a   *)
(* task's jsonb is read back (worker/src/tasks.ts, vcsStatus.ts), where    *)
(* objects are kept (shared/src/s3Keys.ts), which host's token answers     *)
(* (shared/src/gitlabHosts.ts), what a status says of the results          *)
(* (shared/src/markdown.ts, frontend/src/lib) and which builds a page      *)
(* lists (api/src/endpoints/screenshotTests.ts).                           *)
(***************************************************************************)
EXTENDS Integers, Sequences, FiniteSets

Least(a, b) == IF a < b THEN a ELSE b
Most(a, b) == IF a > b THEN a ELSE b
SelectIndices(s, Test(_)) == {i \in DOMAIN s : Test(s[i])}

----------------------------------------------------------------------------
(* Chunks and their time.                                                  *)

PlanChunks(storyIds, chunkSize) ==
  LET size == Most(1, chunkSize)
      n == Len(storyIds)
  IN [i \in 1 .. (n + size - 1) \div size |->
        SubSeq(storyIds, (i - 1) * size + 1, Least(i * size, n))]

\* BUILD_TIMEOUT_MS as it is given, or a ceiling that grows with the stories.
ComputeBuildTimeout(storyCount, concurrency, explicit, floor, budget) ==
  LET slots == Most(1, concurrency)
  IN IF explicit # {} THEN CHOOSE ms \in explicit : TRUE
     ELSE Most(floor, (storyCount * budget + slots - 1) \div slots)

StabilizePause(attempt, interval) ==
  IF attempt <= 1 THEN 0
  ELSE IF attempt = 2 THEN Least(interval, 100)
  ELSE IF attempt = 3 THEN interval
  ELSE Least(interval * 2, 500)

\* An identifier is known by its length; name, title and path may be missing (length 0).
IdentifiersValid(stories, maxLength) ==
  maxLength > 0 => \A id \in DOMAIN stories : \A field \in DOMAIN stories[id] :
                     stories[id][field] <= maxLength

----------------------------------------------------------------------------
(* What comes back out of a task's jsonb: a value has a type and, for the  *)
(* number it is or spells, the one-element sequence of it.                 *)

IsText(v) == v.type \in {"empty", "string"}

\* A bigint column comes back as the string that spells it.
AsFiniteNumber(v) == IF v.type \in {"string", "number"} THEN v.num ELSE <<>>

NormalizeTaskDataId(v) ==
  IF v.type \in {"string", "number"} THEN {[v EXCEPT !.type = "string"]} ELSE {}

AsGitHubCheckData(o) ==
  IF /\ IsText(o.owner) /\ IsText(o.repo)
     /\ AsFiniteNumber(o.checkRunId) # <<>> /\ AsFiniteNumber(o.installationId) # <<>>
  THEN {[owner |-> o.owner, repo |-> o.repo, checkRunId |-> AsFiniteNumber(o.checkRunId)[1],
         installationId |-> AsFiniteNumber(o.installationId)[1]]}
  ELSE {}

AsGitLabCheckData(o) ==
  IF AsFiniteNumber(o.projectId) # <<>> /\ IsText(o.commitSha) /\ IsText(o.gitlabHost)
  THEN {[projectId |-> AsFiniteNumber(o.projectId)[1], commitSha |-> o.commitSha,
         gitlabHost |-> o.gitlabHost]}
  ELSE {}

\* The two kinds of check data of a task, each a set of at most one.
ParseBuildCheckData(data) ==
  LET github == UNION {AsGitHubCheckData(o) : o \in data.github}
      gitlab == UNION {AsGitLabCheckData(o) : o \in data.gitlab}
  IN IF github = {} /\ gitlab = {} THEN {} ELSE {[github |-> github, gitlab |-> gitlab]}

IsNumberFrom(v, low) == v.type = "number" /\ v.num[1] >= low

ParseRenderChunk(data) ==
  IF /\ NormalizeTaskDataId(data.projectId) # {} /\ NormalizeTaskDataId(data.uploadId) # {}
     /\ data.storyIds # <<>> /\ \A i \in DOMAIN data.storyIds : data.storyIds[i].type = "string"
     /\ IsNumberFrom(data.chunkIndex, 0) /\ IsNumberFrom(data.chunkCount, 1)
  THEN {[projectId |-> NormalizeTaskDataId(data.projectId),
         uploadId |-> NormalizeTaskDataId(data.uploadId), storyIds |-> data.storyIds,
         chunkIndex |-> data.chunkIndex.num[1], chunkCount |-> data.chunkCount.num[1],
         checks |-> ParseBuildCheckData(data)]}
  ELSE {}

\* The console tail of a failed story, by the size of its entries: the latest ones that fit.
DiagnosticsTail(sizes, fixed, maxEntries, maxBytes) ==
  LET n == Len(sizes)
      total[k \in 1 .. n + 1] == IF k > n THEN fixed ELSE sizes[k] + total[k + 1]
      fitting == {k \in Most(1, n - maxEntries + 1) .. n : total[k] <= maxBytes}
  IN IF fitting = {} THEN <<>>
     ELSE SubSeq(sizes, CHOOSE k \in fitting : \A l \in fitting : k <= l, n)

----------------------------------------------------------------------------
(* Object keys, as sequences of path segments. A story id is a sequence of *)
(* words; the segment ".png" ends a file name.                             *)

\* Sixteen bits of a hash of the project's id.
ProjectHashSegment(project) == <<project % 2>>
ProjectKeyPrefix(project) == <<"projects">> \o ProjectHashSegment(project) \o <<project>>
UploadTarballKey(project, upload) == ProjectKeyPrefix(project) \o <<upload, ".tar.gz">>
ScreenshotsKeyPrefix(project, upload) == ProjectKeyPrefix(project) \o <<"screenshots", upload>>
ScreenshotKey(project, upload, story) == ScreenshotsKeyPrefix(project, upload) \o <<story>>
DiffImageKey(project, upload, story) ==
  ScreenshotsKeyPrefix(project, upload) \o <<story \o <<"diff">>>>
FailureScreenshotKey(project, upload, story) ==
  ScreenshotsKeyPrefix(project, upload) \o <<story \o <<"failure">>>>

----------------------------------------------------------------------------
(* GitLab hosts: an address has an origin and the path that follows it.    *)

ToOrigin(address) == address.origin

\* {} is a configuration that is refused; an entry without an address or a token spoils all.
ParseGitLabHosts(entries) ==
  IF \E i \in DOMAIN entries : ~entries[i].hasHost \/ ~entries[i].hasToken THEN {}
  ELSE {[i \in DOMAIN entries |-> [host |-> ToOrigin(entries[i].address), token |-> i]]}

ResolveGitLabHost(hosts, address) ==
  LET same == SelectIndices(hosts, LAMBDA h : h.host = ToOrigin(address))
  IN IF same = {} THEN {} ELSE {hosts[CHOOSE i \in same : \A j \in same : i <= j]}

----------------------------------------------------------------------------
(* What is said of a build's results.                                      *)

INFRA_ERROR_KINDS == {"browser-timeout", "browser-gone", "screenshot-failed", "storage"}
IsInfraErrorKind(kind) == kind \in INFRA_ERROR_KINDS

GetChangeCount(results) ==
  Cardinality(SelectIndices(results, LAMBDA r : r.changeStatus \in {"new", "changed"}))

StatusOrder == [failed |-> 0, changed |-> 1, new |-> 2, unchanged |-> 3]

\* By status, then by name, and otherwise as they were.
GetSortedTestResults(results) ==
  LET Before(a, b) ==
        LET x == StatusOrder[results[a].changeStatus]
            y == StatusOrder[results[b].changeStatus]
        IN \/ x < y
           \/ x = y /\ results[a].name < results[b].name
           \/ x = y /\ results[a].name = results[b].name /\ a < b
      Rank(i) == 1 + Cardinality({j \in DOMAIN results : Before(j, i)})
  IN [p \in DOMAIN results |-> results[CHOOSE i \in DOMAIN results : Rank(i) = p]]

GetStatusHeader(status) == IF status = "unapproved" THEN "pending" ELSE status

\* The two images of a result and its line; an image that is not there is a broken link.
ResultLine(r) ==
  [name |-> r.name,
   before |-> IF r.changeStatus = "new" THEN "empty" ELSE IF r.baseline THEN "image" ELSE "broken",
   after |-> IF r.changeStatus = "failed" THEN "cross" ELSE IF r.shot THEN "image" ELSE "broken",
   infra |-> r.changeStatus = "failed" /\ IsInfraErrorKind(r.errorKind)]

CreateMarkdownForBuildResult(status, results) ==
  LET failed == SelectIndices(results, LAMBDA r : r.changeStatus = "failed")
      sorted == GetSortedTestResults(results)
  IN [title |-> GetChangeCount(results), tests |-> Len(results),
      header |-> GetStatusHeader(status), failed |-> Cardinality(failed),
      infraFailed |-> Cardinality({i \in failed : IsInfraErrorKind(results[i].errorKind)}),
      text |-> [i \in DOMAIN sorted |-> ResultLine(sorted[i])]]

\* {} where the code throws.
CreateMarkdownForBuildApproval(status, results) ==
  IF status \in {"approved", "denied"} THEN {CreateMarkdownForBuildResult(status, results)} ELSE {}

\* computeProgress of the build page.
ComputeProgress(results) ==
  [completed |-> Len(results),
   ok |-> Cardinality(SelectIndices(results, LAMBDA r : r.changeStatus = "unchanged")),
   changed |-> GetChangeCount(results),
   failed |-> Cardinality(SelectIndices(results, LAMBDA r : r.changeStatus = "failed"))]

----------------------------------------------------------------------------
(* The list of a project's builds, and the activity of several projects.   *)

Clamp(limit, most) == Least(Most(limit, 1), most)

\* The newest row of every build number of every project.
LatestOf(builds) ==
  {b \in builds : ~\E c \in builds : c.project = b.project /\ c.number = b.number /\ c.id > b.id}

\* The newest first, and of those that began together the one with the larger id.
Newest(builds) ==
  LET After(b) == {c \in builds : c.at > b.at \/ (c.at = b.at /\ c.id > b.id)}
  IN [i \in 1 .. Cardinality(builds) |-> CHOOSE b \in builds : Cardinality(After(b)) = i - 1]

\* The counts of one build over the last row of each of its stories.
Stats(rows) ==
  LET last == {r \in rows : ~\E s \in rows : s.story = r.story /\ s.id > r.id}
  IN [testcount |-> Cardinality({r.story : r \in last}),
      changecount |-> Cardinality({r \in last : r.changeStatus \in {"new", "changed"}})]

\* One row more than the page is fetched to learn whether there are others.
ListBuilds(builds, project, limit, offset, most) ==
  LET all == Newest(LatestOf({b \in builds : b.project = project}))
      fetched == 
        SubSeq(all, Most(offset, 0) + 1, Least(Len(all), Most(offset, 0) + Clamp(limit, most) + 1))
  IN [builds |-> SubSeq(fetched, 1, Least(Len(fetched), Clamp(limit, most))),
      hasMore |-> Len(fetched) > Clamp(limit, most)]

\* Builds that began together come in any order: an answer is one of several.
ListActivity(answer, builds, projects, most) ==
  LET latest == LatestOf({b \in builds : b.project \in projects})
      listed == {answer[i] : i \in DOMAIN answer}
  IN /\ listed \subseteq latest /\ Cardinality(listed) = Len(answer)
     /\ Len(answer) = Least(most, Cardinality(latest))
     /\ \A i \in DOMAIN answer : \A b \in latest :
          b.at > answer[i].at => \E j \in 1 .. i - 1 : answer[j] = b
===============================================================================
