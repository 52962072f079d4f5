------------------------------ MODULE MCFormulas ------------------------------
(***************************************************************************)
(* What the functions of Formulas must give, over bounded inputs.          *)
(***************************************************************************)
EXTENDS Formulas, TLC

LOCAL INSTANCE SequencesExt
LOCAL INSTANCE Functions

LOCAL UpTo(S, n) == UNION {[1 .. k -> S] : k \in 0 .. n}

\* Every story is in one chunk, in the order of discovery; no chunk is empty or too long, and
\* only the last one is short (planChunks).
ASSUME ChunksPartition ==
  \A n \in 0 .. 7, size \in -1 .. 4 :
    LET ids == [i \in 1 .. n |-> i]
        chunks == PlanChunks(ids, size)
        full == IF size < 1 THEN 1 ELSE size
    IN /\ FlattenSeq(chunks) = ids
       /\ \A i \in DOMAIN chunks : Len(chunks[i]) \in 1 .. full
       /\ \A i \in DOMAIN chunks : i < Len(chunks) => Len(chunks[i]) = full

\* A chunk is never given less than the floor, and what the chunks of a build are given together
\* covers what the whole of it would be given (computeBuildTimeoutMs).
ASSUME ChunksHaveTime ==
  \A n \in 1 .. 8, size \in 1 .. 4, slots \in 0 .. 3, budget \in {0, 5} :
    LET chunks == PlanChunks([i \in 1 .. n |-> i], size)
        Time(stories) == ComputeBuildTimeout(stories, slots, {}, 4, budget)
        sum[k \in 0 .. Len(chunks)] == IF k = 0 THEN 0 ELSE sum[k - 1] + Time(Len(chunks[k]))
    IN /\ \A i \in DOMAIN chunks : Time(Len(chunks[i])) >= 4
       /\ sum[Len(chunks)] >= Time(n)
       /\ ComputeBuildTimeout(n, slots, {7}, 4, budget) = 7

\* The pauses between two looks at a story only grow, unless the interval is set above 500 ms,
\* where the fourth pause falls back to 500 (stabilizePauseMs).
ASSUME PausesGrow ==
  \A interval \in {1, 50, 100, 250, 499, 500, 501, 900} :
    (\A k \in 1 .. 5 : StabilizePause(k, interval) <= StabilizePause(k + 1, interval))
      <=> interval <= 500

LOCAL Values == {[type |-> "undefined", num |-> <<>>], [type |-> "empty", num |-> <<>>],
                 [type |-> "string", num |-> <<>>], [type |-> "string", num |-> <<7>>],
                 [type |-> "number", num |-> <<7>>], [type |-> "object", num |-> <<>>]}

\* A chunk's payload gives the same chunk whether the ids of its project and of its checks come
\* back from jsonb as numbers or as the strings that spell them, and check data that lacks an id
\* is not taken for a check (parseRenderChunkPayload, parseBuildCheckData).
ASSUME PayloadsReadBack ==
  \A id, project, upload, story \in Values :
    LET text == [type |-> "string", num |-> <<>>]
        number == [type |-> "number", num |-> <<1>>]
        spelled == IF id.type = "number" THEN [id EXCEPT !.type = "string"] ELSE id
        data(x, p) == [projectId |-> p, uploadId |-> upload, storyIds |-> <<text, story>>,
                       chunkIndex |-> number, chunkCount |-> number,
                       github |-> {[owner |-> text, repo |-> text, checkRunId |-> x,
                                    installationId |-> x]},
                       gitlab |-> {[projectId |-> x, commitSha |-> text, gitlabHost |-> text]}]
        parsed == ParseRenderChunk(data(id, project))
    IN /\ parsed = ParseRenderChunk(data(spelled, project))
       /\ NormalizeTaskDataId(project) # {} =>
            parsed = ParseRenderChunk(data(id, CHOOSE p \in NormalizeTaskDataId(project) : TRUE))
       /\ \A chunk \in parsed : chunk.checks = {} <=> AsFiniteNumber(id) = <<>>
       /\ (parsed # {}) <=> /\ story.type = "string"
                            /\ {project.type, upload.type} \subseteq {"string", "number"}

\* The console tail kept is the longest that fits beside the rest, and is cut at its old end.
ASSUME TailIsLatest ==
  \A sizes \in UpTo({1, 3}, 5), most \in {2, 3}, bytes \in {2, 4, 6} :
    LET kept == DiagnosticsTail(sizes, 1, most, bytes)
        Weight(s) == FoldFunction(LAMBDA x, y : x + y, 1, s)
    IN /\ IsSuffix(kept, sizes) /\ Len(kept) <= most /\ (kept = <<>> \/ Weight(kept) <= bytes)
       /\ \A k \in DOMAIN sizes :
            LET longer == SubSeq(sizes, k, Len(sizes))
            IN Len(longer) \in Len(kept) + 1 .. most => Weight(longer) > bytes

LOCAL Names == UpTo({"button", "diff", "failure"}, 2) \ {<<>>}

\* Two objects of different uploads never share a key, the prefix of a project or of an upload
\* covers what is kept of it and nothing else, and within one upload two stories' images are
\* confused exactly when one's id is the other's with "-diff" or "-failure" behind it (s3Keys.ts).
ASSUME KeysAreOwn ==
  \A p, q \in 1 .. 3, u, v \in {"u", "v"}, a, b \in Names :
    LET kinds(x, y, s) == <<ScreenshotKey(x, y, s), DiffImageKey(x, y, s),
                            FailureScreenshotKey(x, y, s)>>
        one == kinds(p, u, a)
        other == kinds(q, v, b)
    IN /\ \A i, j \in 1 .. 3 : one[i] = other[j] =>
            /\ p = q /\ u = v
            /\ \/ i = j /\ a = b
               \/ a \o (<<<<>>, <<"diff">>, <<"failure">>>>)[i]
                  = b \o (<<<<>>, <<"diff">>, <<"failure">>>>)[j]
       /\ \A i \in 1 .. 3 : IsPrefix(ProjectKeyPrefix(q), one[i]) <=> p = q
       /\ \A i \in 1 .. 3 : IsPrefix(ScreenshotsKeyPrefix(q, v), one[i]) <=> p = q /\ u = v
       /\ ScreenshotKey(p, u, a \o <<"diff">>) = DiffImageKey(p, u, a)
       /\ UploadTarballKey(p, u) \notin Range(other)
       /\ ~IsPrefix(ScreenshotsKeyPrefix(q, v), UploadTarballKey(p, u))

\* The token of a host answers for addresses of its own origin only, and the first of several
\* entries of one origin does (resolveGitLabHost).
ASSUME TokensStayHome ==
  \A entries \in UpTo([address : [origin : {1, 2}, path : {"", "x"}], hasHost : BOOLEAN,
                       hasToken : {TRUE}], 2), origin \in 1 .. 3, path \in {"", "x"} :
    \A hosts \in ParseGitLabHosts(entries) :
      LET found == ResolveGitLabHost(hosts, [origin |-> origin, path |-> path])
      IN /\ (found = {}) <=> \A i \in DOMAIN entries : entries[i].address.origin # origin
         /\ \A h \in found : /\ entries[h.token].address.origin = origin
                             /\ \A i \in 1 .. h.token - 1 : entries[i].address.origin # origin

LOCAL Results == {r \in [name : 1 .. 2, changeStatus : {"failed", "changed", "new", "unchanged"},
                         baseline : BOOLEAN, shot : BOOLEAN, errorKind : {"storage", "none"}] :
                    /\ r.changeStatus = "failed" => ~r.baseline /\ ~r.shot
                    /\ r.changeStatus # "failed" => r.shot /\ r.errorKind = "none"
                    /\ r.baseline <=> r.changeStatus \in {"changed", "unchanged"}}

\* The comment, the build page and the list of builds agree on what changed; failures come
\* first; and the only image that is linked without being there is the one before a failure,
\* whose row has no baseline (createMarkdownForBuildResult, computeProgress, list).
ASSUME CountsAgree ==
  \A rs \in UpTo(Results, 3) :
    LET sorted == GetSortedTestResults(rs)
        said == CreateMarkdownForBuildResult("unapproved", rs)
        seen == ComputeProgress(rs)
        rows == {[id |-> i, story |-> i, changeStatus |-> rs[i].changeStatus] : i \in DOMAIN rs}
    IN /\ \A i, j \in DOMAIN sorted : i < j =>
            StatusOrder[sorted[i].changeStatus] <= StatusOrder[sorted[j].changeStatus]
       /\ \A r \in Range(rs) : Cardinality({i \in DOMAIN rs : rs[i] = r})
                                = Cardinality({i \in DOMAIN sorted : sorted[i] = r})
       /\ said.title = seen.changed /\ said.failed = seen.failed /\ said.infraFailed <= said.failed
       /\ Stats(rows) = [testcount |-> seen.completed, changecount |-> said.title]
       /\ seen.completed = seen.ok + seen.changed + seen.failed
       /\ \A i \in DOMAIN sorted :
            /\ said.text[i].after # "broken"
            /\ said.text[i].before = "broken" <=> sorted[i].changeStatus = "failed"
       /\ CreateMarkdownForBuildApproval("approved", rs) # {}
       /\ CreateMarkdownForBuildApproval("unapproved", rs) = {}

\* The pages of a list that does not change hold every build number once, the newest first, and
\* the last page says that it is the last (list).
ASSUME PagesCoverList ==
  \A ids \in SUBSET (1 .. 4) : \A number, at \in [ids -> 1 .. 2], limit \in 0 .. 2 :
    LET builds == {[project |-> 1, id |-> i, number |-> number[i], at |-> at[i]] : i \in ids}
        size == Clamp(limit, 2)
        Page(k) == ListBuilds(builds, 1, limit, k * size, 2)
        pages == [k \in 1 .. 4 |-> Page(k - 1).builds]
        all == FlattenSeq(pages)
    IN /\ {b.id : b \in Range(all)} = {i \in ids : \A j \in ids : number[j] = number[i] => j <= i}
       /\ Len(all) = Cardinality({number[i] : i \in ids})
       /\ \A i, j \in DOMAIN all : i < j => all[i].at >= all[j].at
       /\ \A k \in 1 .. 3 : Page(k - 1).hasMore <=> pages[k + 1] # <<>>
       /\ all # <<>> => ListActivity(<<all[1]>>, builds, {1, 2}, 1)
===============================================================================
