------------------------------ MODULE AddProject ------------------------------
(***************************************************************************)
(* The projects page and its dialog (frontend/src/pages/projects.tsx,      *)
(* components/NewProjectDialog.tsx): the organizations of a provider, the  *)
(* repositories of an organization, and the POST that makes one of them a  *)
(* project.  Each time the dialog is opened it is another instance; what   *)
(* an instance has asked for is answered whether or not it is still there. *)
(*                                                                         *)
(* No project key is given.  The dialog is never opened with an            *)
(* organization (initialSelectedOrg), and useApiGet drops the answers of   *)
(* requests that were superseded, as in BuildPage.  Clicks on an           *)
(* organization that is being asked for count as one.                      *)
(***************************************************************************)
EXTENDS Naturals

CONSTANTS
  Orgs,           \* organizations and groups: [provider, repos]
  NoOrg,
  MaxOpens,       \* bound on the instances of the dialog
  MaxAsks,        \* bound on the requests for organizations and repositories
  MaxPosts,       \* bound on the POSTs in flight at once
  MaxAddFaults    \* bound on requests that fail

VARIABLES
  opens, open,    \* instances so far; showModal
  addTab,         \* provider
  orgsLoading, orgs,       \* useAuthenticatedFetch of the tab: whether it lists any
  spinning,       \* loading
  started,        \* loadingStartTime # null
  repos,          \* githubRepos or gitlabProjects: the organization they are of
  reposLoading,
  repoAsks,       \* handleOrgClick calls in progress
  asks,
  posts,          \* handleRepoClick calls in progress
  added,          \* the repositories that have a project on the server
  heard,          \* history: those whose creation was answered
  listing,        \* GET /api/projects in flight
  projects,       \* projectsResponse
  addFaults

addVars == <<opens, open, addTab, orgsLoading, orgs, spinning, started, repos, reposLoading,
             repoAsks, asks, posts, added, heard, listing, projects, addFaults>>
dialogState == <<addTab, orgsLoading, orgs, spinning, started, repos, reposLoading, repoAsks,
                 asks>>
serverState == <<posts, added, heard>>
pageState == <<opens, open, listing, projects>>

TabNames   == {"github", "gitlab"}
Repos  == UNION {o.repos : o \in Orgs}
NoList == [ok |-> FALSE, held |-> {}]
ProjectLists == [ok : BOOLEAN, held : SUBSET Repos]
RepoAsk == [org : Orgs, by : 1 .. MaxOpens, answered : BOOLEAN]
Post    == [repo : Repos, by : 1 .. MaxOpens, nth : 1 .. MaxPosts,
            state : {"sent", "ok", "error"}]
\* What is assumed of the constants, where the module is instantiated.
AddAssumption == MaxOpens \in Nat /\ MaxAsks \in Nat /\ MaxAddFaults \in Nat

AddTypeOK ==
  /\ opens \in 0 .. MaxOpens /\ open \in BOOLEAN /\ addTab \in TabNames
  /\ orgsLoading \in BOOLEAN /\ orgs \in BOOLEAN /\ spinning \in BOOLEAN /\ started \in BOOLEAN
  /\ repos \in Orgs \cup {NoOrg} /\ reposLoading \in BOOLEAN /\ repoAsks \in SUBSET RepoAsk
  /\ asks \in 0 .. MaxAsks /\ posts \in SUBSET Post /\ added \in SUBSET Repos
  /\ heard \in SUBSET added /\ projects \in ProjectLists
  /\ addFaults \in 0 .. MaxAddFaults
  /\ listing \in [state : {"none", "sent", "answered"}, list : ProjectLists]

ListAsked == [state |-> "sent", list |-> NoList]
Listed(list) == [state |-> "answered", list |-> list]
ListQuiet == [state |-> "none", list |-> NoList]

AddInit ==
  /\ opens = 0 /\ open = FALSE /\ addTab = "github" /\ orgsLoading = FALSE /\ orgs = FALSE
  /\ spinning = FALSE /\ started = FALSE /\ repos = NoOrg /\ reposLoading = FALSE
  /\ repoAsks = {} /\ asks = 0 /\ posts = {} /\ added = {} /\ heard = {}
  /\ listing = ListAsked /\ projects = NoList /\ addFaults = 0

AddFault == addFaults < MaxAddFaults /\ addFaults' = addFaults + 1
AskCounted == asks < MaxAsks /\ asks' = asks + 1

----------------------------------------------------------------------------
(* The list of projects.                                                   *)

\* A refetch cancels the one in flight.
Refetches == listing' = ListAsked

ListServed ==
  /\ listing.state = "sent"
  /\ \/ listing' = Listed([ok |-> TRUE, held |-> added]) /\ UNCHANGED addFaults
     \/ AddFault /\ listing' = Listed(NoList)
  /\ UNCHANGED <<opens, open, projects, dialogState, serverState>>

ListArrives ==
  /\ listing.state = "answered" /\ listing' = ListQuiet /\ projects' = listing.list
  /\ UNCHANGED <<opens, open, dialogState, serverState, addFaults>>

\* The button is on the page unless it is the spinner of the first load.
Opens ==
  /\ ~open /\ (listing = ListQuiet \/ projects.ok) /\ opens < MaxOpens /\ opens' = opens + 1
  /\ open' = TRUE /\ addTab' = "github" /\ orgsLoading' = TRUE /\ orgs' = FALSE
  /\ spinning' = TRUE /\ started' = TRUE /\ repos' = NoOrg /\ reposLoading' = FALSE
  /\ UNCHANGED <<repoAsks, asks, serverState, listing, projects, addFaults>>

\* onClose, of whichever instance: the dialog that is there goes, and the list is fetched.
OnClose == open' = FALSE /\ Refetches /\ UNCHANGED <<opens, projects>>

DialogCloses == open /\ OnClose /\ UNCHANGED <<dialogState, serverState, addFaults>>

----------------------------------------------------------------------------
(* Organizations and repositories.                                         *)

Spinner == spinning \/ orgsLoading \/ started

\* Another tab, or the refresh button: the endpoint changes, and the effect notes the time.
AsksOrgs ==
  /\ AskCounted /\ orgsLoading' = TRUE /\ started' = TRUE
  /\ repos' = NoOrg /\ reposLoading' = FALSE
  /\ UNCHANGED <<pageState, repoAsks, serverState, addFaults>>

PicksTab(p) ==
  open /\ addTab # p /\ addTab' = p /\ orgs' = FALSE /\ AsksOrgs /\ UNCHANGED spinning
Refreshes == open /\ spinning' = TRUE /\ AsksOrgs /\ UNCHANGED <<addTab, orgs>>

OrgsArrive ==
  /\ open /\ orgsLoading /\ orgsLoading' = FALSE
  /\ \/ orgs' \in BOOLEAN /\ UNCHANGED addFaults
     \/ AddFault /\ orgs' = FALSE
  /\ UNCHANGED <<pageState, addTab, spinning, started, repos, reposLoading, repoAsks, asks,
                 serverState>>

\* At once or after MIN_LOADING_TIME, and updateLoading's effect after it.
TimeIsUp ==
  /\ open /\ started /\ ~orgsLoading /\ started' = FALSE /\ spinning' = FALSE
  /\ UNCHANGED <<pageState, addTab, orgsLoading, orgs, repos, reposLoading, repoAsks, asks,
                 serverState, addFaults>>

ClicksOrg(o) ==
  /\ open /\ ~Spinner /\ orgs /\ o.provider = addTab /\ AskCounted
  /\ reposLoading' = TRUE
  /\ repoAsks' = repoAsks \cup {[org |-> o, by |-> opens, answered |-> FALSE]}
  /\ UNCHANGED <<pageState, addTab, orgsLoading, orgs, spinning, started, repos, serverState,
                 addFaults>>

\* The repositories, or none; those of the other provider are dropped.
ReposArrive(a) ==
  /\ a \in repoAsks /\ ~a.answered
  /\ repoAsks' = (repoAsks \ {a}) \cup {[a EXCEPT !.answered = TRUE]}
  /\ \/ repos' = (IF open /\ a.by = opens THEN a.org ELSE repos) /\ UNCHANGED addFaults
     \/ AddFault /\ repos' = (IF open /\ a.by = opens THEN NoOrg ELSE repos)
  /\ UNCHANGED <<pageState, addTab, orgsLoading, orgs, spinning, started, reposLoading, asks,
                 serverState>>

ReposSettle(a) ==
  /\ a \in repoAsks /\ a.answered /\ repoAsks' = repoAsks \ {a}
  /\ reposLoading' = (reposLoading /\ ~(open /\ a.by = opens))
  /\ UNCHANGED <<pageState, addTab, orgsLoading, orgs, spinning, started, repos, asks,
                 serverState, addFaults>>

----------------------------------------------------------------------------
(* A repository becomes a project.                                         *)

\* What is listed is of the tab that is open.
Shown == IF repos # NoOrg /\ ~Spinner /\ ~reposLoading /\ repos.provider = addTab THEN repos.repos
         ELSE {}

ClicksRepo(r) ==
  /\ open /\ r \in Shown /\ spinning' = TRUE /\ started' = TRUE
  /\ \E n \in 1 .. MaxPosts :
       /\ \A p \in posts : p.nth # n
       /\ \A m \in 1 .. n - 1 : \E p \in posts : p.nth = m
       /\ posts' = posts \cup {[repo |-> r, by |-> opens, nth |-> n, state |-> "sent"]}
  /\ UNCHANGED <<pageState, addTab, orgsLoading, orgs, repos, reposLoading, repoAsks, asks, added,
                 heard, addFaults>>

\* The unique index has gitlab_host in it, which is NULL for GitHub: only a GitLab project that is
\* there already is a 409.  An answer may get lost.
Indexed(r) == \E o \in Orgs : r \in o.repos /\ o.provider = "gitlab"
Makes(r) == ~(r \in added /\ Indexed(r)) /\ added' = added \cup {r}

PostServed(p) ==
  /\ p \in posts /\ p.state = "sent"
  /\ \E state \in {"ok", "error"} :
       /\ posts' = (posts \ {p}) \cup {[p EXCEPT !.state = state]}
       /\ \/ state = "ok" /\ Makes(p.repo) /\ UNCHANGED addFaults
          \/ state = "error" /\ p.repo \in added /\ Indexed(p.repo)
             /\ UNCHANGED <<added, addFaults>>
          \/ state = "error" /\ AddFault /\ Makes(p.repo)
          \/ state = "error" /\ AddFault /\ UNCHANGED added
  /\ UNCHANGED <<pageState, dialogState, heard>>

\* An error is shown, and the dialog stays, if it is still the one that asked; the effect notes
\* the time again while organizations are being loaded.
PostAnswered(p) ==
  /\ p \in posts /\ p.state # "sent" /\ posts' = posts \ {p}
  /\ IF p.state = "ok"
     THEN heard' = heard \cup {p.repo} /\ OnClose /\ UNCHANGED <<spinning, started>>
     ELSE /\ UNCHANGED <<pageState, heard>>
          /\ IF open /\ p.by = opens THEN spinning' = FALSE /\ started' = orgsLoading
                                     ELSE UNCHANGED <<spinning, started>>
  /\ UNCHANGED <<addTab, orgsLoading, orgs, repos, reposLoading, repoAsks, asks, added,
                 addFaults>>

AddNext ==
  \/ ListServed \/ ListArrives \/ Opens \/ DialogCloses \/ Refreshes \/ OrgsArrive \/ TimeIsUp
  \/ \E p \in TabNames : PicksTab(p)
  \/ \E o \in Orgs : ClicksOrg(o)
  \/ \E a \in repoAsks : ReposArrive(a) \/ ReposSettle(a)
  \/ \E r \in Repos : ClicksRepo(r)
  \/ \E p \in posts : PostServed(p) \/ PostAnswered(p)
AddSpec == AddInit /\ [][AddNext]_addVars

----------------------------------------------------------------------------
\* A project whose creation was answered is in the list that is shown in the end, whatever was
\* opened, closed and fetched meanwhile (projects.tsx, the refetch on close).
CreatedIsListed == listing = ListQuiet /\ projects.ok => heard \subseteq projects.held

\* The dialog spins only while something will end it: a timer, the organizations or its POST; and
\* a column of repositories only while they are asked for (NewProjectDialog.tsx, its effects).
NoEndlessSpinner ==
  open => /\ Spinner => orgsLoading \/ started \/ \E p \in posts : p.by = opens
          /\ reposLoading => \E a \in repoAsks : a.by = opens
=============================================================================
