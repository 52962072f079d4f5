---------------------------- MODULE BuildReview ----------------------------
(***************************************************************************)
(* Who writes the status of one build, and what its commit then shows: the *)
(* worker that renders it (worker/src/ingest.ts, shard.ts), the sweeper    *)
(* that fails it when it is stuck (worker.ts), people who approve or deny  *)
(* it (api/src/endpoints/approval.ts), and the webhooks of GitHub and      *)
(* GitLab (webhooks.ts).                                                   *)
(*                                                                         *)
(* Most of them load the row, change the object and call TypeORM's save(), *)
(* which selects the row again and then updates each column in which the   *)
(* object differs from what it found: three steps, and a column the caller *)
(* never assigned is written back when somebody else changed it.  The      *)
(* completion of a sharded build and the sweep are single guarded UPDATEs. *)
(***************************************************************************)
EXTENDS Naturals

CONSTANTS
  Handlers,     \* api requests: approvals and webhook deliveries
  Bounds        \* for each behaviour: the writers besides the worker, the attempts at the build's
                \* task, the failed statements, failed posts and deaths of the worker

Verdicts == {"approved", "denied"}
Results  == {"no_changes", "unapproved"}
Statuses == {"pending", "running", "failed"} \cup Results \cup Verdicts
Kinds    == {"review", "action", "merge"}
Writers  == Handlers \cup {"worker", "sweeper"}

\* What is assumed of the constants, where the module is instantiated.
ReviewAssumption ==
  /\ Handlers \cap {"worker", "sweeper"} = {}
  /\ Bounds \subseteq [writers : SUBSET Writers, starts : Nat, mishaps : Nat]

VARIABLES
  bound,        \* the one this behaviour has
  host,         \* of the project: "github" or "gitlab"
  path,         \* of the build: rendered "inline", or "sharded" over chunk tasks
  row,          \* its row in screenshot_tests: the status, and whether it has the MR's number
  stage,        \* the step each writer is at
  copy,         \* the object each has loaded
  patch,        \* the columns its save() found to differ
  kind, given,  \* what a handler was asked, and the verdict
  check,        \* what the host has: the build's own status, and a check run with a verdict
  stale,        \* history: writers whose copy is older than the latest verdict
  saved,        \* history: verdicts that were once in the row
  muddled,      \* history: two writers overlapped, a mishap, or a verdict before the result
  starts, mishaps

reviewVars == <<bound, host, path, row, stage, copy, patch, kind, given, check, stale, saved,
                muddled, starts, mishaps>>
setting == <<bound, host, path, starts>>
asked == <<kind, given>>

Coming == bound.writers \cup {"worker"}
Blank == [status |-> "pending", mr |-> FALSE]
Rows == [status : Statuses, mr : BOOLEAN]
ReviewTypeOK ==
  /\ bound \in Bounds
  /\ host \in {"github", "gitlab"} /\ path \in {"inline", "sharded"} /\ row \in Rows
  /\ stage \in [Writers -> {"idle", "start", "select", "update", "render", "settle", "post",
                            "guarded", "clear", "asked", "over"}]
  /\ copy \in [Writers -> Rows] /\ patch \in [Writers -> SUBSET {"status", "mr"}]
  /\ kind \in [Handlers -> Kinds] /\ given \in [Handlers -> Verdicts]
  /\ check \in [build : {"queued", "running", "failed", "success"},
                verdict : Verdicts \cup {"none"}]
  /\ stale \in SUBSET Writers /\ saved \in SUBSET Verdicts /\ muddled \in BOOLEAN
  /\ starts \in 0 .. bound.starts /\ mishaps \in 0 .. bound.mishaps

ReviewInit ==
  /\ bound \in Bounds /\ host \in {"github", "gitlab"} /\ path \in {"inline", "sharded"}
  /\ row = Blank
  /\ stage = [w \in Writers |-> IF w \in Coming THEN "idle" ELSE "over"]
  /\ copy = [w \in Writers |-> row] /\ patch = [w \in Writers |-> {}]
  /\ kind \in [Handlers -> Kinds] /\ given \in [Handlers -> Verdicts]
  /\ \A h \in Handlers : /\ h \notin Coming => kind[h] = "review" /\ given[h] = "denied"
                         /\ kind[h] = "action" => host = "github"
                         /\ kind[h] = "merge" => host = "gitlab" /\ given[h] = "denied"
  /\ check = [build |-> "queued", verdict |-> "none"]
  /\ stale = {} /\ saved = {} /\ muddled = FALSE /\ starts = 0 /\ mishaps = 0

Mishap == mishaps < bound.mishaps /\ mishaps' = mishaps + 1 /\ muddled' = TRUE
Turns(w, to) == stage' = [stage EXCEPT ![w] = to]
Resting == {"idle", "over"}
Busy == {w \in Writers : stage[w] \notin Resting}

\* Loads the row: what follows goes by this copy.
Loads(w) ==
  /\ copy' = [copy EXCEPT ![w] = row] /\ stale' = stale \ {w}
  /\ muddled' = (muddled \/ Busy \ {w} # {})

\* save(), first the SELECT: the columns of the object that differ from the row.
Selects(w) ==
  /\ stage[w] = "select" /\ Turns(w, "update")
  /\ patch' = [patch EXCEPT ![w] = {c \in {"status", "mr"} : copy[w][c] # row[c]}]
  /\ UNCHANGED <<setting, row, copy, asked, check, stale, saved, muddled, mishaps>>

\* The row is written by w; every other copy of it is now older than a verdict in it.
Writes(w, new) ==
  /\ row' = new
  /\ LET judged == new.status \in Verdicts /\ new.status # row.status IN
     /\ saved' = IF judged THEN saved \cup {new.status} ELSE saved
     /\ stale' = IF judged THEN stale \cup (Busy \ {w}) ELSE stale

\* What is not read again is forgotten.
Forget(w) == copy' = [copy EXCEPT ![w] = Blank] /\ patch' = [patch EXCEPT ![w] = {}]

Patched(w) == [c \in {"status", "mr"} |-> IF c \in patch[w] THEN copy[w][c] ELSE row[c]]

----------------------------------------------------------------------------
(* The worker, from ingestStorybook to completeBuild.                      *)

\* GitHub's check run of the upload is updated, whatever runs came after it; GitLab has one
\* status of this name.  A post that fails is logged and forgotten.
Tells(s) == check' = [build |-> s, verdict |-> IF host = "gitlab" THEN "none" ELSE check.verdict]
Tries(s) == \/ Tells(s) /\ UNCHANGED <<mishaps, muddled>>
            \/ Mishap /\ UNCHANGED check

Swept   == stage["sweeper"] \in {"post", "over"} /\ "sweeper" \in Coming   \* its task is deleted

\* The build's task is claimed, or claimed again: the row's status is not looked at.
WorkerStarts ==
  /\ stage["worker"] = "idle" /\ ~Swept /\ Turns("worker", "start") /\ Loads("worker")
  /\ starts < bound.starts /\ starts' = starts + 1
  /\ UNCHANGED <<bound, host, path, row, patch, asked, check, saved, mishaps>>

Waiting == IF host = "github" THEN "queued" ELSE "running"

WorkerTellsStart ==
  /\ stage["worker"] = "start" /\ Turns("worker", "select")
  /\ copy' = [copy EXCEPT !["worker"].status = "running"]
  /\ Tries(Waiting)
  /\ UNCHANGED <<setting, row, patch, asked, stale, saved>>

WorkerSaves ==
  /\ stage["worker"] = "update" /\ Writes("worker", Patched("worker"))
  /\ Turns("worker", IF copy["worker"].status = "running" THEN "render" ELSE "post")
  /\ patch' = [patch EXCEPT !["worker"] = {}]
  /\ UNCHANGED <<setting, copy, asked, check, muddled, mishaps>>

\* Inline, the copy gets the outcome and is saved; on both paths an error is saved as failed.
\* A sharded build is left to its chunks.
WorkerRenders ==
  /\ stage["worker"] = "render"
  /\ \/ \E s \in {"failed"} \cup (IF path = "inline" THEN Results ELSE {}) :
          copy' = [copy EXCEPT !["worker"].status = s] /\ Turns("worker", "select")
     \/ path = "sharded" /\ Turns("worker", "settle") /\ UNCHANGED copy
  /\ UNCHANGED <<setting, row, patch, asked, check, stale, saved, muddled, mishaps>>

\* Mistake: without AND st.status = 'running'.
ReconcilesUnguarded ==
  /\ stage["worker"] = "settle"
  /\ \E s \in Results : /\ copy' = [copy EXCEPT !["worker"].status = s]
                        /\ Writes("worker", [row EXCEPT !.status = s])
  /\ Turns("worker", "post")
  /\ UNCHANGED <<setting, patch, asked, check, muddled, mishaps>>

\* RECONCILE_SQL with the last result there: only who flips the build posts its result.
Reconciles ==
  /\ stage["worker"] = "settle"
  /\ \/ /\ row.status = "running" /\ Turns("worker", "post")
        /\ \E s \in Results : /\ copy' = [copy EXCEPT !["worker"].status = s]
                              /\ Writes("worker", [row EXCEPT !.status = s])
     \/ row.status # "running" /\ Turns("worker", "over") /\ UNCHANGED <<row, copy, stale, saved>>
  /\ UNCHANGED <<setting, patch, asked, check, muddled, mishaps>>

\* completeBuild and the error path: a build to approve stays queued at GitHub, which is told
\* a conclusion only with "completed", and pending at GitLab, which is told nothing.
Concludes(s) ==
  \/ s = "failed" /\ Tries("failed")
  \/ s = "no_changes" /\ Tries("success")
  \/ s = "unapproved" /\ host = "github" /\ Tries(Waiting)
  \/ s = "unapproved" /\ host = "gitlab" /\ UNCHANGED <<check, mishaps, muddled>>

\* After a failure the task may be tried again.
WorkerPosts ==
  /\ stage["worker"] = "post" /\ Concludes(copy["worker"].status)
  /\ \/ Turns("worker", "over")
     \/ copy["worker"].status = "failed" /\ ~Swept /\ Turns("worker", "idle")
  /\ Forget("worker")
  /\ UNCHANGED <<setting, row, asked, stale, saved>>

\* The worker dies before its task's row is deleted, and the task is reclaimed.
WorkerDies ==
  /\ stage["worker"] # "idle" /\ Mishap
  /\ Turns("worker", IF Swept THEN "over" ELSE "idle")
  /\ Forget("worker")
  /\ UNCHANGED <<setting, row, asked, check, stale, saved>>

----------------------------------------------------------------------------
(* sweepStuckBuilds.                                                       *)

SweeperLooks ==
  /\ stage["sweeper"] = "idle" /\ row.status \in {"pending", "running"}
  /\ Turns("sweeper", "guarded") /\ Loads("sweeper")
  /\ UNCHANGED <<setting, row, patch, asked, check, saved, mishaps>>

\* UPDATE ... WHERE status = the one it saw; the next sweep looks again.
SweeperFails ==
  /\ stage["sweeper"] = "guarded"
  /\ \/ /\ row.status = copy["sweeper"].status /\ Turns("sweeper", "clear")
        /\ Writes("sweeper", [row EXCEPT !.status = "failed"])
     \/ row.status # copy["sweeper"].status /\ Turns("sweeper", "idle")
        /\ UNCHANGED <<row, stale, saved>>
  /\ Forget("sweeper")
  /\ UNCHANGED <<setting, asked, check, muddled, mishaps>>

\* The build's tasks are deleted; a worker that has one of them is not told.
SweeperClears ==
  /\ stage["sweeper"] = "clear" /\ Turns("sweeper", "post")
  /\ UNCHANGED <<setting, row, copy, patch, asked, check, stale, saved, muddled, mishaps>>

\* postBuildFailedStatus; without usable check data there is nothing to post to.
SweeperPosts ==
  /\ stage["sweeper"] = "post" /\ Turns("sweeper", "over") /\ Tries("failed")
  /\ UNCHANGED <<setting, row, copy, patch, asked, stale, saved>>

----------------------------------------------------------------------------
(* The api's handlers.                                                     *)

\* A delivery that is malformed, badly signed or of another kind changes nothing.
Routed(h) ==
  /\ Turns(h, "asked") \/ Turns(h, "over")
  /\ UNCHANGED <<setting, row, copy, patch, asked, check, stale, saved, muddled, mishaps>>
GithubWebhook(h) == stage[h] = "idle" /\ kind[h] = "action" /\ Routed(h)
\* The secret is that of the payload's host; the project is looked up by id and host.
GitlabWebhook(h) == stage[h] = "idle" /\ kind[h] = "merge" /\ Routed(h)

\* The row as it is found, with the column that the caller assigns.
Asks(h, found, early) ==
  /\ Turns(h, "select") /\ copy' = [copy EXCEPT ![h] = found] /\ stale' = stale \ {h}
  /\ muddled' = (muddled \/ Busy \ {h} # {} \/ early)
  /\ UNCHANGED <<setting, row, patch, asked, check, saved, mishaps>>
Judged(h) == [row EXCEPT !.status = given[h]]
Drops(h) ==
  /\ Turns(h, "over")
  /\ UNCHANGED <<setting, row, copy, patch, asked, check, stale, saved, muddled, mishaps>>

\* Nobody writes the result of the build any more; a verdict before that is early.
Written == stage["worker"] = "over" \/ (stage["worker"] = "idle" /\ Swept)
Early == ~Written

\* Any user may judge any build, whatever its status.
ApproveOrDeny(h) ==
  stage[h] = "idle" /\ kind[h] = "review" /\ Asks(h, Judged(h), Early)

GithubCheckRunRequestedAction(h) ==
  /\ stage[h] = "asked" /\ kind[h] = "action"
  /\ \/ row.status = "unapproved" /\ Asks(h, Judged(h), Early)
     \/ row.status # "unapproved" /\ Drops(h)

HandleGitLabMergeRequest(h) ==
  /\ stage[h] = "asked" /\ kind[h] = "merge"
  /\ \/ ~row.mr /\ Asks(h, [row EXCEPT !.mr = TRUE], FALSE)
     \/ row.mr /\ Drops(h)

\* Mistake: a save that fails does not keep the handler from posting.
HandlerSavesAnyway(h) ==
  /\ stage[h] = "update" /\ Turns(h, IF kind[h] = "merge" THEN "over" ELSE "post")
  /\ \/ Writes(h, Patched(h)) /\ UNCHANGED <<mishaps, muddled>>
     \/ Mishap /\ UNCHANGED <<row, stale, saved>>
  /\ Forget(h)
  /\ UNCHANGED <<setting, asked, check>>
HandlerSaves(h) ==
  /\ stage[h] = "update"
  /\ \/ /\ Turns(h, IF kind[h] = "merge" THEN "over" ELSE "post")
        /\ Writes(h, Patched(h)) /\ UNCHANGED <<mishaps, muddled>>
     \/ Mishap /\ Turns(h, "over") /\ UNCHANGED <<row, stale, saved>>
  /\ Forget(h)
  /\ UNCHANGED <<setting, asked, check>>

\* GitHub gets another check run of the same name, GitLab the same status again.
HandlerPosts(h) ==
  /\ stage[h] = "post" /\ Turns(h, "over")
  /\ \/ check' = [check EXCEPT !.verdict = given[h]] /\ UNCHANGED <<mishaps, muddled>>
     \/ Mishap /\ UNCHANGED check
  /\ UNCHANGED <<setting, row, copy, patch, asked, stale, saved>>

Handler(h) ==
  \/ GithubWebhook(h) \/ GitlabWebhook(h) \/ ApproveOrDeny(h)
  \/ GithubCheckRunRequestedAction(h) \/ HandleGitLabMergeRequest(h)
  \/ HandlerSaves(h) \/ HandlerPosts(h)
Worker == WorkerStarts \/ WorkerTellsStart \/ WorkerSaves \/ WorkerRenders \/ Reconciles
            \/ WorkerPosts \/ WorkerDies
Sweeper == SweeperLooks \/ SweeperFails \/ SweeperClears \/ SweeperPosts
ReviewNext == Worker \/ Sweeper \/ \E w \in Writers : Selects(w) \/ \E h \in Handlers : Handler(h)
ReviewSpec == ReviewInit /\ [][ReviewNext]_reviewVars

----------------------------------------------------------------------------
(* Properties.                                                             *)

\* A verdict gives way to something that is no verdict only where a copy that is older than
\* it is saved, or where the task runs again from the start (shard.ts:262, worker.ts:905).
Undoes(w) == stage[w] = "update" /\ stage'[w] # "update"
UndoneOnlyByStaleCopy ==
  [][row.status \in Verdicts /\ row'.status \notin Verdicts =>
       \/ \E w \in stale : Undoes(w)
       \/ Undoes("worker") /\ row'.status = "running"]_reviewVars

\* A verdict on the commit is one that was saved (approval.ts:53-57, webhooks.ts:359-366).
ShownWasSaved == check.verdict # "none" => check.verdict \in saved

\* Writers that do not overlap leave the commit with the status of the row, unless a verdict
\* came before the result or something failed.
Fits(s) ==
  IF s \in Verdicts THEN check.verdict = s
  ELSE /\ check.verdict = "none"
       /\ check.build = CASE s = "no_changes" -> "success" [] s = "failed" -> "failed"
                          [] OTHER -> Waiting
ShownFollows ==
  ~muddled /\ Busy = {} /\ Written => Fits(row.status)

\* "Update the MR number if not already set" (webhooks.ts:637): the merge-request event
\* changes no status.
VerdictStands ==
  [][\A h \in Handlers :
       kind[h] = "merge" /\ stage'[h] # stage[h] => row'.status = row.status]_reviewVars

\* The commit shows what the build's row says: a verdict that was saved, and once everybody is
\* done the one that stands.
CommitShowsReview == ShownWasSaved /\ ShownFollows
=============================================================================
