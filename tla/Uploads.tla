------------------------------ MODULE Uploads ------------------------------
(***************************************************************************)
(* How builds come to be: the upload endpoint (api/src/endpoints/upload.ts)*)
(* from its credential to the queued task, next to the project endpoints   *)
(* (projects.ts, user.ts, gitlabOidcProjects.ts) that create and delete    *)
(* what it writes to.  A request is a sequence of statements against a     *)
(* database and a bucket that share no transaction: each is an action, any *)
(* of them may fail, and the process may die between two of them.          *)
(*                                                                         *)
(* There is one repository and one project key.                            *)
(***************************************************************************)
EXTENDS Naturals, FiniteSets, FiniteSetsExt

CONSTANTS
  Requests,       \* uploads
  MaxProjects,    \* bound on the projects ever created for the repository
  MaxTries,       \* MAX_BUILD_NUMBER_ATTEMPTS
  Providers,      \* subset of {"gitlab", "github"}
  Scenarios       \* bounds: the uploads that come, the other requests that do, the number of
                  \* failed statements and crashes

Ids == 1 .. MaxProjects
\* What is assumed of the constants, where the module is instantiated.
UploadAssumption ==
  /\ IsFiniteSet(Requests) /\ MaxProjects \in Nat \ {0} /\ MaxTries \in Nat \ {0}
  /\ Providers \subseteq {"gitlab", "github"}
  /\ Scenarios \subseteq [uploads : SUBSET Requests, faults : Nat,
                          admin : SUBSET {"create", "remove", "reset", "account"}]

VARIABLES
  scenario,       \* the one this behaviour is an instance of
  provider,       \* of the repository
  account,        \* the user who owns the repository's projects exists
  project,        \* a row of projects
  secret,         \* its token, counted up by each reset
  at, target, carried,   \* an upload's step, its project and the token it came with
  number, tries,  \* its build number and its attempt at it
  build,          \* the number of the upload's row in screenshot_tests, 0 without a row
  task,           \* its row in task_queue
  tarballs,       \* uploads with an object in the bucket
  checks, noted,  \* uploads with a VCS status, and rows that have its id
  removal, resetting, closing,  \* projects that requests in flight have found
  purging,        \* projects whose objects are being deleted, after the response
  scarred,        \* history: a fault kept the cleanup of this upload from being whole
  gaveUp,         \* history: uploads that failed on their build number
  passed,         \* history: rows others inserted while this upload looked for a number
  faults

fixed       == <<scenario, provider>>
numbering   == <<number, tries, gaveUp, passed>>
requestVars == <<at, target, carried, numbering>>
rowVars     == <<fixed, account, project, secret, build, task, noted>>
adminVars   == <<removal, resetting, closing, purging>>
uploadVars  == <<requestVars, rowVars, adminVars, tarballs, checks, scarred, faults>>

Ended    == {"done", "refused", "failed", "gone"}
Inserted == {"post", "save", "enqueue", "row"}   \* the steps an upload takes with its row
Live     == {p \in Ids : project[p] \in {"live", "revived"}}
\* IDX_vcs_repo_host_key: the host of a GitHub project is NULL, and NULLs are distinct.
Insertable == provider = "gitlab" => Live = {}

UploadTypeOK ==
  /\ scenario \in Scenarios /\ provider \in Providers /\ account \in BOOLEAN
  /\ project \in [Ids -> {"none", "live", "gone", "revived"}]
  /\ secret \in [Ids -> Nat]
  /\ at \in [Requests -> {"idle", "token", "find", "owner", "insert", "refetch", "store",
                          "number", "write", "object"} \cup Inserted \cup Ended]
  /\ target \in [Requests -> Ids \cup {0}] /\ carried \in [Requests -> Nat]
  /\ number \in [Requests -> 0 .. Cardinality(Requests)]
  /\ tries \in [Requests -> 1 .. MaxTries]
  /\ build \in [Requests -> 0 .. Cardinality(Requests)]
  /\ task \in [Requests -> {"none", "queued", "taken"}]
  /\ tarballs \in SUBSET Requests /\ checks \in SUBSET Requests /\ noted \in SUBSET Requests
  /\ removal \in Ids \cup {0} /\ resetting \in Ids \cup {0} /\ closing \in SUBSET Ids
  /\ purging \in SUBSET Ids /\ scarred \in SUBSET Requests
  /\ gaveUp \in SUBSET Requests /\ passed \in [Requests -> Nat] /\ faults \in 0 .. scenario.faults

UploadInit ==
  /\ scenario \in Scenarios /\ provider \in Providers
  /\ account = TRUE /\ project = [p \in Ids |-> IF p = 1 THEN "live" ELSE "none"]
  /\ secret = [p \in Ids |-> 0]
  /\ at = [r \in Requests |-> "idle"] /\ target = [r \in Requests |-> 0]
  /\ carried = [r \in Requests |-> 0] /\ number = [r \in Requests |-> 0]
  /\ tries = [r \in Requests |-> 1] /\ build = [r \in Requests |-> 0]
  /\ task = [r \in Requests |-> "none"]
  /\ tarballs = {} /\ checks = {} /\ noted = {}
  /\ removal = 0 /\ resetting = 0 /\ closing = {} /\ purging = {}
  /\ scarred = {} /\ gaveUp = {} /\ passed = [r \in Requests |-> 0] /\ faults = 0

Fault == faults < scenario.faults /\ faults' = faults + 1
Moves(r, to) == at' = [at EXCEPT ![r] = to]
Uses(r, p, to) == target' = [target EXCEPT ![r] = p] /\ Moves(r, to)

----------------------------------------------------------------------------
(* The credential and the project.                                         *)

\* A CI job knows some token of the project, or presents an ID token of its own.
Receives(r) ==
  /\ at[r] = "idle" /\ r \in scenario.uploads
  /\ \/ \E p \in Ids : /\ project[p] # "none" /\ Uses(r, p, "token")
                       /\ \E k \in 0 .. secret[p] : carried' = [carried EXCEPT ![r] = k]
     \/ provider = "gitlab" /\ Moves(r, "find") /\ UNCHANGED <<target, carried>>
  /\ UNCHANGED <<rowVars, adminVars, numbering, tarballs, checks, scarred, faults>>

\* Malformed headers, claims that do not match, a repository that must use ID tokens, a
\* provider that is switched off: nothing has been written yet.
Refuses(r) ==
  /\ at[r] \in {"idle", "token", "find", "store"} /\ r \in scenario.uploads /\ Moves(r, "refused")
  /\ UNCHANGED <<target, carried, numbering, rowVars, adminVars, tarballs, checks, scarred,
                 faults>>

GetProjectByToken(r) ==
  /\ at[r] = "token"
  /\ Moves(r, IF target[r] \in Live /\ secret[target[r]] = carried[r] THEN "store" ELSE "refused")
  /\ UNCHANGED <<target, carried, numbering, rowVars, adminVars, tarballs, checks, scarred,
                 faults>>

\* resolveOidcProject: find the project, or create it for the configured owner.
FindsProject(r) ==
  /\ at[r] = "find"
  /\ \/ \E p \in Live : Uses(r, p, "store")
     \/ Live = {} /\ Moves(r, "owner") /\ UNCHANGED target
  /\ UNCHANGED <<carried, numbering, rowVars, adminVars, tarballs, checks, scarred, faults>>

FindsOwner(r) ==
  /\ at[r] = "owner" /\ Moves(r, IF account THEN "insert" ELSE "refused")
  /\ UNCHANGED <<target, carried, numbering, rowVars, adminVars, tarballs, checks, scarred,
                 faults>>

Fresh(p) == project[p] = "none" /\ \A q \in 1 .. p - 1 : project[q] # "none"

\* ON CONFLICT DO NOTHING: another request may have created it.
InsertsProject(r) ==
  /\ at[r] = "insert"
  /\ \/ ~account /\ Moves(r, "failed") /\ UNCHANGED project
     \/ account /\ Live # {} /\ Moves(r, "refetch") /\ UNCHANGED project
     \/ /\ account /\ Live = {} /\ Moves(r, "refetch")
        /\ \E p \in Ids : Fresh(p) /\ project' = [project EXCEPT ![p] = "live"]
  /\ UNCHANGED <<target, carried, numbering, fixed, account, secret, build, task, noted,
                 adminVars, tarballs, checks, scarred, faults>>

RefetchesProject(r) ==
  /\ at[r] = "refetch"
  /\ \/ \E p \in Live : Uses(r, p, "store")
     \/ Live = {} /\ Moves(r, "failed") /\ UNCHANGED target
  /\ UNCHANGED <<carried, numbering, rowVars, adminVars, tarballs, checks, scarred, faults>>

----------------------------------------------------------------------------
(* The tarball, the row, the status and the task.                          *)

Stores(r) ==
  /\ at[r] = "store"
  /\ \/ tarballs' = tarballs \cup {r} /\ Moves(r, "number") /\ UNCHANGED faults
     \/ Fault /\ Moves(r, "failed") /\ UNCHANGED tarballs
  /\ UNCHANGED <<target, carried, numbering, rowVars, adminVars, checks, scarred>>

Numbers(p) == {build[q] : q \in {x \in Requests : target[x] = p}}
ReadsMax(r) ==
  /\ at[r] = "number" /\ Moves(r, "write")
  /\ number' = [number EXCEPT ![r] = Max(Numbers(target[r]) \cup {0}) + 1]
  /\ UNCHANGED <<target, carried, tries, gaveUp, passed, rowVars, adminVars, tarballs, checks,
                 scarred, faults>>

Taken(r) == number[r] \in Numbers(target[r])

Looking(q, r) == q # r /\ at[q] \in {"number", "write"} /\ target[q] = target[r]
WritesRow(r) ==
  /\ build' = [build EXCEPT ![r] = number[r]]
  /\ passed' = [q \in Requests |-> passed[q] + IF Looking(q, r) THEN 1 ELSE 0]

GivesUp(r)   == Moves(r, "failed") /\ gaveUp' = gaveUp \cup {r} /\ UNCHANGED tries
Recomputes(r) == Moves(r, "number") /\ tries' = [tries EXCEPT ![r] = @ + 1] /\ UNCHANGED gaveUp

\* Mistake: the last attempt is one too early.
ConflictsEarly(r) == IF tries[r] >= MaxTries - 1 THEN GivesUp(r) ELSE Recomputes(r)
Conflicts(r) == IF tries[r] >= MaxTries THEN GivesUp(r) ELSE Recomputes(r)

\* The foreign key and the unique index are checked with the insert.  An error after the
\* commit is an error all the same.
CreateScreenshotTest(r) ==
  /\ at[r] = "write"
  /\ \/ /\ target[r] \notin Live /\ Moves(r, "failed")
        /\ UNCHANGED <<tries, gaveUp, passed, build, scarred, faults>>
     \/ /\ target[r] \in Live /\ Taken(r) /\ Conflicts(r)
        /\ UNCHANGED <<passed, build, scarred, faults>>
     \/ /\ target[r] \in Live /\ ~Taken(r) /\ WritesRow(r) /\ Moves(r, "post")
        /\ UNCHANGED <<tries, gaveUp, scarred, faults>>
     \/ /\ target[r] \in Live /\ ~Taken(r) /\ Fault /\ Moves(r, "failed")
        /\ (UNCHANGED <<build, passed>> \/ WritesRow(r))
        /\ scarred' = scarred \cup {r} /\ UNCHANGED <<tries, gaveUp>>
  /\ UNCHANGED <<target, carried, number, fixed, account, project, secret, task, noted, adminVars,
                 tarballs, checks>>

\* A GitHub check run that cannot be created fails the upload, a GitLab status does not.
\* Mistake: it fails it without the cleanup.
PostsUnguarded(r) ==
  /\ at[r] = "post"
  /\ \/ checks' = checks \cup {r} /\ Moves(r, "save") /\ UNCHANGED faults
     \/ Fault /\ UNCHANGED checks /\ Moves(r, IF provider = "github" THEN "failed" ELSE "save")
  /\ UNCHANGED <<target, carried, numbering, rowVars, adminVars, tarballs, scarred>>
Posts(r) ==
  /\ at[r] = "post"
  /\ \/ checks' = checks \cup {r} /\ Moves(r, "save") /\ UNCHANGED faults
     \/ Fault /\ UNCHANGED checks /\ Moves(r, IF provider = "github" THEN "row" ELSE "save")
  /\ UNCHANGED <<target, carried, numbering, rowVars, adminVars, tarballs, scarred>>

\* save() of a row that a cascade has deleted inserts it again, against the foreign key and the
\* unique index: it succeeds if a reset has brought the project back.
Reinsertable(r) == build[r] = 0 /\ target[r] \in Live /\ ~Taken(r)
SavesStatusId(r) ==
  /\ at[r] = "save"
  /\ \/ /\ build[r] # 0 \/ Reinsertable(r)
        /\ noted' = noted \cup (checks \cap {r}) /\ Moves(r, "enqueue") /\ UNCHANGED faults
        /\ IF build[r] = 0 THEN WritesRow(r) ELSE UNCHANGED <<build, passed>>
     \/ /\ build[r] = 0 /\ ~Reinsertable(r) /\ Moves(r, "row")
        /\ UNCHANGED <<build, passed, noted, faults>>
     \/ /\ build[r] # 0 \/ Reinsertable(r)
        /\ Fault /\ Moves(r, "row") /\ UNCHANGED <<build, passed, noted>>
  /\ UNCHANGED <<target, carried, number, tries, gaveUp, fixed, account, project, secret, task,
                 adminVars, tarballs, checks, scarred>>

Enqueues(r) ==
  /\ at[r] = "enqueue"
  /\ \/ /\ build[r] # 0 /\ task' = [task EXCEPT ![r] = "queued"] /\ Moves(r, "done")
        /\ UNCHANGED faults
     \/ build[r] = 0 /\ Moves(r, "row") /\ UNCHANGED <<task, faults>>
     \/ /\ build[r] # 0 /\ Fault /\ Moves(r, "row")
        /\ (UNCHANGED task \/ task' = [task EXCEPT ![r] = "queued"])
  /\ UNCHANGED <<target, carried, numbering, fixed, account, project, secret, build, noted,
                 adminVars, tarballs, checks, scarred>>

\* The cleanup: the row, with the task that may have been committed, then the object.
DeletesRow(r) ==
  /\ at[r] = "row" /\ Moves(r, "object")
  /\ \/ /\ build' = [build EXCEPT ![r] = 0] /\ task' = [task EXCEPT ![r] = "none"]
        /\ UNCHANGED <<scarred, faults>>
     \/ Fault /\ scarred' = scarred \cup {r} /\ UNCHANGED <<build, task>>
  /\ UNCHANGED <<target, carried, numbering, fixed, account, project, secret, noted, adminVars,
                 tarballs, checks>>

DeletesTarball(r) ==
  /\ at[r] = "object" /\ Moves(r, "failed")
  /\ \/ tarballs' = tarballs \ {r} /\ UNCHANGED <<scarred, faults>>
     \/ Fault /\ scarred' = scarred \cup {r} /\ UNCHANGED tarballs
  /\ UNCHANGED <<target, carried, numbering, rowVars, adminVars, checks>>

\* A worker claims the task; module TaskQueue goes on from here.
IsClaimed(r) ==
  /\ task[r] = "queued" /\ task' = [task EXCEPT ![r] = "taken"]
  /\ UNCHANGED <<requestVars, fixed, account, project, secret, build, noted, adminVars, tarballs,
                 checks, scarred, faults>>

----------------------------------------------------------------------------
(* Projects come and go.                                                   *)

\* ON DELETE CASCADE, from the project to its builds and their tasks.
Cascade(ps) ==
  /\ project' = [p \in Ids |-> IF p \in ps THEN "gone" ELSE project[p]]
  /\ build' = [r \in Requests |-> IF target[r] \in ps THEN 0 ELSE build[r]]
  /\ task' = [r \in Requests |-> IF target[r] \in ps THEN "none" ELSE task[r]]

\* projects.create; the index may refuse it (409).
CreatesProject ==
  /\ "create" \in scenario.admin /\ account /\ Insertable
  /\ \E p \in Ids : Fresh(p) /\ project' = [project EXCEPT ![p] = "live"]
  /\ UNCHANGED <<requestVars, fixed, account, secret, build, task, noted, adminVars, tarballs,
                 checks, scarred, faults>>

\* projects.remove: find, delete, answer; the objects go later.
RemovalFinds ==
  /\ "remove" \in scenario.admin /\ removal = 0 /\ removal' \in Live
  /\ UNCHANGED <<requestVars, rowVars, resetting, closing, purging, tarballs, checks, scarred,
                 faults>>
RemovalDeletes ==
  /\ removal # 0 /\ Cascade({removal} \cap Live)
  /\ purging' = purging \cup {removal} /\ removal' = 0
  /\ UNCHANGED <<requestVars, fixed, account, secret, noted, resetting, closing, tarballs, checks,
                 scarred, faults>>

\* projects.resetToken, at most once a project: find, then save, which inserts the row if it
\* is gone.
ResetFinds ==
  /\ "reset" \in scenario.admin /\ resetting = 0 /\ resetting' \in {p \in Live : secret[p] = 0}
  /\ UNCHANGED <<requestVars, rowVars, removal, closing, purging, tarballs, checks, scarred,
                 faults>>
ResetSaves ==
  /\ resetting # 0 /\ resetting' = 0
  /\ \/ /\ resetting \in Live /\ secret' = [secret EXCEPT ![resetting] = @ + 1]
        /\ UNCHANGED project
     \/ /\ resetting \notin Live /\ account /\ Insertable
        /\ secret' = [secret EXCEPT ![resetting] = @ + 1]
        /\ project' = [project EXCEPT ![resetting] = "revived"]
     \/ resetting \notin Live /\ ~(account /\ Insertable) /\ UNCHANGED <<secret, project>>
  /\ UNCHANGED <<requestVars, fixed, account, build, task, noted, removal, closing, purging,
                 tarballs, checks, scarred, faults>>

\* user.deleteAccount: the ids first, then the user and everything below.
AccountFinds ==
  /\ "account" \in scenario.admin /\ account /\ closing = {} /\ Live # {} /\ closing' = Live
  /\ UNCHANGED <<requestVars, rowVars, removal, resetting, purging, tarballs, checks, scarred,
                 faults>>
AccountDeletes ==
  /\ closing # {} /\ closing' = {}
  /\ \/ /\ account' = FALSE /\ Cascade(Live) /\ purging' = purging \cup closing
        /\ UNCHANGED faults
     \/ Fault /\ UNCHANGED <<account, project, build, task, purging>>
  /\ UNCHANGED <<requestVars, fixed, secret, noted, removal, resetting, tarballs, checks,
                 scarred>>

\* deleteObjectsByPrefixes of the project: some objects may not be deleted.
Purges(p) ==
  /\ p \in purging /\ purging' = purging \ {p}
  /\ LET objects == {r \in tarballs : target[r] = p} IN
     \/ tarballs' = tarballs \ objects /\ UNCHANGED faults
     \/ objects # {} /\ Fault /\ UNCHANGED tarballs
  /\ UNCHANGED <<requestVars, rowVars, removal, resetting, closing, checks, scarred>>

\* The api process dies: requests in flight get no answer, deletions are forgotten.
Crash ==
  /\ Fault
  /\ at' = [r \in Requests |-> IF at[r] \in Ended \cup {"idle"} THEN at[r] ELSE "gone"]
  /\ scarred' = scarred \cup {r \in Requests : at[r] \notin Ended \cup {"idle"}}
  /\ removal' = 0 /\ resetting' = 0 /\ closing' = {} /\ purging' = {}
  /\ UNCHANGED <<target, carried, numbering, rowVars, tarballs, checks>>

Step(r) ==
  \/ Receives(r) \/ Refuses(r) \/ GetProjectByToken(r) \/ FindsProject(r) \/ FindsOwner(r)
  \/ InsertsProject(r) \/ RefetchesProject(r) \/ Stores(r) \/ ReadsMax(r)
  \/ CreateScreenshotTest(r) \/ Posts(r) \/ SavesStatusId(r) \/ Enqueues(r) \/ DeletesRow(r)
  \/ DeletesTarball(r) \/ IsClaimed(r)
Projects ==
  \/ CreatesProject \/ RemovalFinds \/ RemovalDeletes \/ ResetFinds \/ ResetSaves
  \/ AccountFinds \/ AccountDeletes \/ \E p \in Ids : Purges(p)
UploadNext == Projects \/ Crash \/ \E r \in Requests : Step(r)

UploadSpec == UploadInit /\ [][UploadNext]_uploadVars

----------------------------------------------------------------------------
(* Properties.                                                             *)

\* Concurrent uploads compute the same number; an upload gives up only after others have
\* inserted MaxTries rows while it was trying (screenshotTests.ts:52-54).
GivesUpLast ==
  \A r \in gaveUp : passed[r] >= MaxTries

\* A pending build has a task that will process it, or an upload that will give it one or
\* delete it; only a crash, or a statement that failed with nobody left to repeat it, leaves
\* one behind (upload.ts:230-232).
PendingIsOwned ==
  \A r \in Requests \ scarred : build[r] # 0 => task[r] # "none" \/ at[r] \in Inserted

\* What a worker claims is complete: the build's row, its tarball and the id of its status are
\* there before the task, and stay as long as it does, unless a reset of its token has brought
\* its deleted project back.
TaskIsServable ==
  \A r \in Requests \ scarred :
    task[r] # "none" /\ project[target[r]] # "revived" =>
      build[r] # 0 /\ r \in tarballs /\ (r \in checks => r \in noted)

\* What an upload leaves is whole: a pending build is going to be rendered, and its task can be.
UploadsAreWhole == PendingIsOwned /\ TaskIsServable
=============================================================================
