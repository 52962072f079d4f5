------------------------------ MODULE BuildPage ------------------------------
(***************************************************************************)
(* The page a reviewer sees of one build (frontend/src/pages/build.tsx):   *)
(* its polls, the requests in flight (hooks/useApiGet.tsx), the reviewer's *)
(* clicks, and the sign-in around it (ProtectedRoute, useAuth, login).     *)
(* The server is seen through what GET /api/tests/:id answers: the status  *)
(* of the build and how many of its results there are.                     *)
(***************************************************************************)
EXTENDS Naturals

CONSTANTS
  StoriesOwed,    \* expectedStoryCount
  MaxRefreshes,   \* bound on refreshKey
  MaxChanges,     \* bound on the server's changes
  MaxOutages      \* bound on requests that fail

VARIABLES
  server,         \* the build: its status, its results, and the count of its changes
  session,        \* the cookie: "valid", "expired" or "none"
  visitor,        \* useAuth and ProtectedRoute: "new", "asking", "known", "unsure", "login"
  refreshKey,
  flights,        \* GETs in flight, each with its key and, once it has been served, its answer
  shown,          \* data of useApiGet
  loading,        \* isLoading of useApiGet
  tabHidden,      \* document.hidden
  clicks,         \* the verdicts that are being posted
  changes, outages

\* What is assumed of the constants, where the module is instantiated.
PageAssumption ==
  StoriesOwed \in Nat /\ MaxRefreshes \in Nat /\ MaxChanges \in Nat /\ MaxOutages \in Nat

pageVars == <<server, session, visitor, refreshKey, flights, shown, loading, tabHidden, clicks,
              changes, outages>>

Data    == [status : {"pending", "running", "unapproved", "approved", "denied", "failed"},
            results : 0 .. StoriesOwed, version : 0 .. MaxChanges]
NoData  == [status |-> "none", results |-> 0, version |-> 0]
Unanswered == [NoData EXCEPT !.status = "waiting"]
Error   == [NoData EXCEPT !.status = "error"]
Refused == [NoData EXCEPT !.status = "refused"]   \* 401
Decisions == {"approved", "denied"}

PageTypeOK ==
  /\ server \in Data /\ session \in {"valid", "expired", "none"}
  /\ visitor \in {"new", "asking", "known", "unsure", "login"}
  /\ refreshKey \in 0 .. MaxRefreshes
  /\ flights \in SUBSET [key : 0 .. MaxRefreshes, answer : Data \cup {Unanswered, Error, Refused}]
  /\ shown \in Data \cup {NoData} /\ loading \in BOOLEAN /\ tabHidden \in BOOLEAN
  /\ clicks \in SUBSET Decisions
  /\ changes \in 0 .. MaxChanges /\ outages \in 0 .. MaxOutages

SentWith(k) == [key |-> k, answer |-> Unanswered]

PageInit ==
  /\ server = [status |-> "pending", results |-> 0, version |-> 0]
  /\ session \in {"valid", "none"} /\ visitor = "new"
  /\ refreshKey = 0 /\ flights = {} /\ shown = NoData /\ loading = TRUE
  /\ tabHidden = FALSE /\ clicks = {} /\ changes = 0 /\ outages = 0

Outage == outages < MaxOutages /\ outages' = outages + 1
pageView == <<refreshKey, flights, shown, loading, clicks>>

----------------------------------------------------------------------------
(* The server, on its own.                                                 *)

Changes(status, results) ==
  /\ changes < MaxChanges /\ changes' = changes + 1
  /\ server' = [status |-> status, results |-> results, version |-> server.version + 1]
  /\ UNCHANGED <<session, visitor, pageView, tabHidden, outages>>

\* "approved" stands for "no_changes" too: the page treats both as final.
WorkerMoves ==
  \/ server.status = "pending" /\ Changes("running", 0)
  \/ /\ server.status = "running" /\ server.results < StoriesOwed
     /\ Changes("running", server.results + 1)
  \/ /\ server.status = "running" /\ server.results = StoriesOwed
     /\ \E to \in {"unapproved", "approved", "failed"} : Changes(to, server.results)

SessionExpires ==
  /\ session = "valid" /\ Outage /\ session' = "expired"
  /\ UNCHANGED <<server, visitor, pageView, tabHidden, changes>>

----------------------------------------------------------------------------
(* Signing in.                                                             *)

Login == visitor' = "login" /\ refreshKey' = 0 /\ flights' = {} /\ shown' = NoData
         /\ loading' = TRUE /\ clicks' = {}

\* ProtectedRoute's effect: one fetchUser, if there is a cookie at all.
AsksWho ==
  /\ visitor = "new"
  /\ IF session = "none" THEN Login ELSE visitor' = "asking" /\ UNCHANGED pageView
  /\ UNCHANGED <<server, session, tabHidden, changes, outages>>

\* Only a 401 sends the user away; the page behind mounts, and its first GET is sent.
HearsWho ==
  /\ visitor = "asking"
  /\ \/ /\ session = "valid" /\ visitor' = "known"
        /\ UNCHANGED <<refreshKey, shown, loading, clicks, outages>>
        /\ flights' = {SentWith(refreshKey)}
     \/ session = "expired" /\ Login /\ UNCHANGED outages
     \/ Outage /\ visitor' = "unsure" /\ UNCHANGED pageView
  /\ UNCHANGED <<server, session, tabHidden, changes>>

RetriesWho ==
  /\ visitor = "unsure" /\ visitor' = "new"
  /\ UNCHANGED <<server, session, pageView, tabHidden, changes, outages>>

\* Back from the identity provider, to where the redirect parameter says.
SignsIn ==
  /\ visitor = "login" /\ session # "valid" /\ Outage
  /\ session' = "valid" /\ visitor' = "new"
  /\ UNCHANGED <<server, pageView, tabHidden, changes>>

----------------------------------------------------------------------------
(* useApiGet.                                                              *)

\* setRefreshKey, and the effect it causes: the GET in flight is cancelled, another one sent.
Refetch ==
  /\ refreshKey < MaxRefreshes /\ refreshKey' = refreshKey + 1
  /\ flights' = flights \cup {SentWith(refreshKey + 1)} /\ loading' = TRUE

\* The status and the results are two queries (screenshotTests.ts:205, 227), here one.
Serves(f) ==
  /\ f \in flights /\ f.answer = Unanswered
  /\ flights' = (flights \ {f}) \cup
       {[f EXCEPT !.answer = IF session = "valid" THEN server ELSE Refused]}
  /\ UNCHANGED <<server, session, visitor, refreshKey, shown, loading, tabHidden, clicks, changes,
                 outages>>

\* The request times out, or the server does not answer it.
Breaks(f) ==
  /\ f \in flights /\ f.answer = Unanswered /\ Outage
  /\ flights' = (flights \ {f}) \cup {[f EXCEPT !.answer = Error]}
  /\ UNCHANGED <<server, session, visitor, refreshKey, shown, loading, tabHidden, clicks, changes>>

\* Mistake: whatever arrives is applied.
ArrivesUnguarded(f) ==
  /\ f \in flights /\ f.answer # Unanswered
  /\ IF f.answer = Refused THEN Login
     ELSE /\ flights' = flights \ {f} /\ UNCHANGED <<visitor, refreshKey, clicks>>
          /\ shown' = (IF f.answer = Error THEN NoData ELSE f.answer) /\ loading' = FALSE
  /\ UNCHANGED <<server, session, tabHidden, changes, outages>>

\* A 401 redirects whether or not the request was cancelled; otherwise only the answer of the
\* current effect is applied, an error as no data.
Arrives(f) ==
  /\ f \in flights /\ f.answer # Unanswered
  /\ IF f.answer = Refused THEN Login
     ELSE /\ flights' = flights \ {f} /\ UNCHANGED <<visitor, refreshKey, clicks>>
          /\ IF f.key # refreshKey THEN UNCHANGED <<shown, loading>>
             ELSE shown' = (IF f.answer = Error THEN NoData ELSE f.answer) /\ loading' = FALSE
  /\ UNCHANGED <<server, session, tabHidden, changes, outages>>

----------------------------------------------------------------------------
(* The build page.                                                         *)

IsPending == shown.status \in {"pending", "running"}

\* The interval, armed while the build shown is in flight; a hidden tab skips its ticks.
Polls ==
  /\ IsPending /\ ~tabHidden /\ Refetch
  /\ UNCHANGED <<server, session, visitor, shown, tabHidden, clicks, changes, outages>>

Hides ==
  /\ visitor = "known" /\ ~tabHidden /\ tabHidden' = TRUE
  /\ UNCHANGED <<server, session, visitor, pageView, changes, outages>>

\* An immediate refetch when the tab is seen again.
Returns ==
  /\ visitor = "known" /\ tabHidden /\ tabHidden' = FALSE
  /\ IF IsPending THEN Refetch ELSE UNCHANGED <<refreshKey, flights, loading>>
  /\ UNCHANGED <<server, session, visitor, shown, clicks, changes, outages>>

Enabled(v) ==
  shown.status \in IF v = "approved" THEN {"unapproved", "denied"} ELSE {"unapproved", "approved"}

\* The buttons stay enabled while a verdict is being posted; one clicked twice counts once.
Clicks(v) ==
  /\ visitor = "known" /\ Enabled(v) /\ v \notin clicks /\ clicks' = clicks \cup {v}
  /\ UNCHANGED <<server, session, visitor, refreshKey, flights, shown, loading, tabHidden,
                 changes, outages>>

\* setBuildStatus: the server saves the verdict, and the answer refetches in place; an error is
\* shown, or the login page is.
Posted(v) ==
  /\ v \in clicks
  /\ \/ /\ session = "valid" /\ changes < MaxChanges /\ changes' = changes + 1
        /\ server' = [server EXCEPT !.status = v, !.version = @ + 1]
        /\ Refetch /\ clicks' = clicks \ {v} /\ UNCHANGED <<visitor, shown, outages>>
     \/ session = "valid" /\ Outage /\ clicks' = clicks \ {v}
        /\ UNCHANGED <<server, visitor, refreshKey, flights, shown, loading, changes>>
     \/ session # "valid" /\ Login /\ UNCHANGED <<server, changes, outages>>
  /\ UNCHANGED <<session, tabHidden>>

PageNext ==
  \/ WorkerMoves \/ SessionExpires \/ AsksWho \/ HearsWho \/ RetriesWho \/ SignsIn
  \/ Polls \/ Hides \/ Returns
  \/ \E v \in Decisions : Clicks(v) \/ Posted(v)
  \/ \E f \in flights : Serves(f) \/ Breaks(f) \/ Arrives(f)
PageSpec == PageInit /\ [][PageNext]_pageVars

----------------------------------------------------------------------------
\* The page never goes back in time: no answer, however late, replaces a newer one, and the
\* verdict a reviewer has just given is not followed by the status before it
\* (useApiGet.tsx:25-27).
NeverBackwards ==
  [][shown # NoData /\ shown' # NoData => shown'.version >= shown.version]_pageVars
=============================================================================
