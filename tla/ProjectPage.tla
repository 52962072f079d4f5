------------------------------ MODULE ProjectPage ------------------------------
(***************************************************************************)
(* The page of one project (frontend/src/pages/project.tsx): its builds,   *)
(* which it fetches a page at a time by offset (GET                        *)
(* /api/projects/:id/builds, endpoints/screenshotTests.ts) while others    *)
(* are uploaded and reaped, and its token, which the owner may reset.  A   *)
(* build is a number, in the order of created_at; a token the number of    *)
(* resets before it.                                                       *)
(***************************************************************************)
EXTENDS Naturals, FiniteSets

CONSTANTS
  PageSize,       \* BUILDS_PAGE_SIZE
  MaxUploads,     \* bound on the builds uploaded
  MaxResets,      \* bound on the resets of the token
  MaxPageFaults   \* bound on requests that fail

\* What is assumed of the constants, where the module is instantiated.
ProjectAssumption ==
  PageSize \in Nat \ {0} /\ MaxUploads \in Nat /\ MaxResets \in Nat /\ MaxPageFaults \in Nat

VARIABLES
  onServer,           \* builds on the server
  newest,         \* the build uploaded last
  token,          \* the project's token on the server
  ready,          \* router.isReady: the page knows its project
  builds,         \* the builds that useBuilds lists
  length,         \* how many rows the list has: a build may be in two pages of it
  hasMore, buildsLoading, loadingMore,
  fetch,          \* its request in flight: an offset, and what has been answered
  ownToken,        \* project.token as useApiGet has it; what the copy button copies
  currentToken,
  reset,          \* the POST reset-token in flight
  opened,         \* history: the newest build when the first page was served
  reapedAhead,    \* history: a build was reaped that is not older than all that are listed
  pageFaults

projectVars == <<onServer, newest, token, ready, builds, length, hasMore, buildsLoading,
                 loadingMore, fetch, ownToken, currentToken, reset, opened, reapedAhead,
                 pageFaults>>
listVars == <<builds, length, hasMore, buildsLoading, loadingMore, fetch>>
tokenVars == <<ownToken, currentToken, reset>>

UploadNos == 1 .. MaxUploads
Tokens   == 0 .. MaxResets
NoToken  == MaxResets + 1
Answer   == [state : {"none", "sent", "answered", "failed"}, offset : Nat,
             page : SUBSET UploadNos, more : BOOLEAN]
NoFetch  == [state |-> "none", offset |-> 0, page |-> {}, more |-> FALSE]
NoReset  == [state |-> "none", token |-> 0]
Fetch(offset) == [state |-> "sent", offset |-> offset, page |-> {}, more |-> FALSE]

ProjectTypeOK ==
  /\ onServer \in SUBSET UploadNos /\ newest \in 0 .. MaxUploads /\ token \in Tokens
  /\ ready \in BOOLEAN /\ builds \in SUBSET UploadNos /\ length \in Nat /\ hasMore \in BOOLEAN
  /\ buildsLoading \in BOOLEAN /\ loadingMore \in BOOLEAN /\ fetch \in Answer
  /\ ownToken \in Tokens \cup {NoToken} /\ currentToken \in Tokens \cup {NoToken}
  /\ reset \in [state : {"none", "sent", "answered", "failed"}, token : Tokens]
  /\ opened \in 0 .. newest /\ reapedAhead \in BOOLEAN /\ pageFaults \in 0 .. MaxPageFaults

ProjectInit ==
  /\ newest \in 0 .. MaxUploads /\ onServer = 1 .. newest /\ token = 0 /\ ready = FALSE
  /\ builds = {} /\ length = 0 /\ hasMore = FALSE /\ buildsLoading = FALSE /\ loadingMore = FALSE
  /\ fetch = NoFetch /\ ownToken = NoToken /\ currentToken = NoToken /\ reset = NoReset
  /\ opened = 0 /\ reapedAhead = FALSE /\ pageFaults = 0

PageFault == pageFaults < MaxPageFaults /\ pageFaults' = pageFaults + 1

----------------------------------------------------------------------------
(* The server.                                                             *)

Uploads ==
  /\ newest < MaxUploads /\ newest' = newest + 1 /\ onServer' = onServer \cup {newest + 1}
  /\ UNCHANGED <<token, ready, listVars, tokenVars, opened, reapedAhead, pageFaults>>

\* The reaper passes over baselines and open builds: any but the newest may go.
Reaps(b) ==
  /\ b \in onServer /\ (\E c \in onServer : c > b) /\ onServer' = onServer \ {b}
  /\ reapedAhead' = (reapedAhead \/ \E c \in builds \cup fetch.page : c <= b)
  /\ UNCHANGED <<newest, token, ready, listVars, tokenVars, opened, pageFaults>>

\* The newest come first.
Newer(b) == {c \in onServer : c > b}
PageFrom(offset) == {b \in onServer : Cardinality(Newer(b)) \in offset .. offset + PageSize - 1}

\* limit + 1 rows from the offset: the last tells whether there are more.
ServesBuilds ==
  /\ fetch.state = "sent"
  /\ fetch' = [fetch EXCEPT !.state = "answered",
                 !.page = PageFrom(fetch.offset),
                 !.more = Cardinality(onServer) > fetch.offset + PageSize]
  /\ opened' = IF buildsLoading THEN newest ELSE opened
  /\ UNCHANGED <<onServer, newest, token, ready, builds, length, hasMore, buildsLoading,
                 loadingMore, tokenVars, reapedAhead, pageFaults>>

BuildsFail ==
  /\ fetch.state = "sent" /\ PageFault /\ fetch' = [fetch EXCEPT !.state = "failed"]
  /\ UNCHANGED <<onServer, newest, token, ready, builds, length, hasMore, buildsLoading,
                 loadingMore, tokenVars, opened, reapedAhead>>

----------------------------------------------------------------------------
(* useBuilds.                                                              *)

\* The project is known: the first page is asked for, and the project.
Mounts ==
  /\ ~ready /\ ready' = TRUE /\ buildsLoading' = TRUE /\ fetch' = Fetch(0)
  /\ builds' = {} /\ length' = 0 /\ hasMore' = FALSE
  /\ UNCHANGED <<onServer, newest, token, loadingMore, tokenVars, opened, reapedAhead,
                 pageFaults>>

\* setBuilds of the first page, or what it was appended to; an error keeps both.
BuildsArrive ==
  /\ fetch.state \in {"answered", "failed"} /\ fetch' = NoFetch
  /\ IF fetch.state = "failed" THEN UNCHANGED <<builds, length, hasMore>>
     ELSE /\ builds' = (IF buildsLoading THEN {} ELSE builds) \cup fetch.page
          /\ length' = (IF buildsLoading THEN 0 ELSE length) + Cardinality(fetch.page)
          /\ hasMore' = fetch.more
  /\ buildsLoading' = FALSE /\ loadingMore' = FALSE
  /\ UNCHANGED <<onServer, newest, token, ready, tokenVars, opened, reapedAhead, pageFaults>>

\* The button is there as long as there are more, and disabled while they are loaded.
LoadsMore ==
  /\ hasMore /\ ~buildsLoading /\ ~loadingMore /\ loadingMore' = TRUE
  /\ fetch' = Fetch(length)
  /\ UNCHANGED <<onServer, newest, token, ready, builds, length, hasMore, buildsLoading,
                 tokenVars, opened, reapedAhead, pageFaults>>

----------------------------------------------------------------------------
(* The token.                                                              *)

\* The answer of GET /api/projects/:id, and the effect that shows its token.
ProjectArrives ==
  /\ ready /\ ownToken = NoToken /\ ownToken' = token /\ currentToken' = token
  /\ UNCHANGED <<onServer, newest, token, ready, listVars, reset, opened, reapedAhead,
                 pageFaults>>

\* handleResetToken: the button is disabled until it has its answer.
Resets ==
  /\ ownToken # NoToken /\ reset = NoReset /\ token < MaxResets
  /\ reset' = [NoReset EXCEPT !.state = "sent"]
  /\ UNCHANGED <<onServer, newest, token, ready, listVars, ownToken, currentToken, opened,
                 reapedAhead, pageFaults>>

\* The server saves the new token; the request or its answer may get lost.
SavesToken ==
  /\ reset.state = "sent"
  /\ \/ /\ token' = token + 1 /\ UNCHANGED pageFaults
        /\ reset' = [state |-> "answered", token |-> token + 1]
     \/ /\ token' \in {token, token + 1} /\ PageFault
        /\ reset' = [reset EXCEPT !.state = "failed"]
  /\ UNCHANGED <<onServer, newest, ready, listVars, ownToken, currentToken, opened, reapedAhead>>

TokenArrives ==
  /\ reset.state \in {"answered", "failed"} /\ reset' = NoReset
  /\ currentToken' = (IF reset.state = "failed" THEN currentToken ELSE reset.token)
  /\ UNCHANGED <<onServer, newest, token, ready, listVars, ownToken, opened, reapedAhead,
                 pageFaults>>

ProjectNext ==
  \/ Uploads \/ ServesBuilds \/ BuildsFail \/ Mounts \/ BuildsArrive \/ LoadsMore
  \/ ProjectArrives \/ Resets \/ SavesToken \/ TokenArrives
  \/ \E b \in UploadNos : Reaps(b)
ProjectSpec == ProjectInit /\ [][ProjectNext]_projectVars

----------------------------------------------------------------------------
\* No build that was there when the page was opened is passed over, whatever is uploaded between
\* the pages, and where the list ends they end; only reaping one of them moves the offset back.
\* Among those uploaded since there may be a hole, once they are more than the list and a page of
\* it (project.tsx, useBuilds).
ListIsWhole ==
  ~reapedAhead /\ builds # {} =>
    \A b \in onServer :
      b <= opened /\ (~hasMore \/ \E c \in builds : c <= b) => b \in builds

\* The token on the page is the one that works, unless an answer got lost or is on its way
\* (project.tsx, handleResetToken).
TokenIsLive == reset = NoReset /\ pageFaults = 0 /\ ownToken # NoToken => currentToken = token
=============================================================================
