---------------------------- MODULE PageRequests ----------------------------
(***************************************************************************)
(* What a story's page may reach, and what is known of it when the story   *)
(* fails: the safeguards of a browser session (worker/src/safeguards.ts)   *)
(* and the buffers its diagnostics keep (sessionDiagnostics.ts), over one  *)
(* session of the pool and the browsers that come and go in it.            *)
(*                                                                         *)
(* A request passes two layers: the init script, which only pages run and  *)
(* which knows some APIs, and the network layer, which depends on          *)
(* WORKER_EGRESS_BLOCK_MODE.  Every installation may fail; the code logs   *)
(* that and renders on.                                                    *)
(***************************************************************************)
EXTENDS Naturals, FiniteSets, Sequences

CONSTANTS
  MaxRequests,    \* bound on the requests the stories make
  Lines,          \* console entries
  Scripts,        \* stories the session captures
  NoScript,
  MaxPending,     \* MAX_PENDING_REQUESTS
  MaxEntries,     \* MAX_CONSOLE_ENTRIES
  MaxReported,    \* PENDING_REQUESTS_LIMIT
  AskKinds,       \* the requests that occur
  MaxBreaks       \* bound on failed installations and lost browsers

VARIABLES
  egress,         \* WORKER_EGRESS_BLOCK_MODE: "resolver", "intercept" or "off"
  launch,         \* how far this browser is: "fresh", "hooked", "watched", "ready"
  script,         \* its init script is installed
  intercept,      \* its interceptor: "none", "added" (requests pause), "full" (and are settled)
  watched,        \* its diagnostics are installed
  ask,            \* what each request is: who makes it, with what, where to
  where,          \* where it is; "left": answered by another host
  sentAfter,      \* history: requests sent after one that is out, up to MaxPending
  tracked,        \* the pending map, whose order is that of the requests in it
  aged,           \* requests of this browser that are older than PENDING_REQUEST_MAX_AGE_MS
  console,        \* the ring of entries, each with the story it was tagged with
  current,        \* currentStoryId
  since,          \* entries that came since the last setCurrentStory
  report,         \* what the row of the failed story gets: its pending requests, its lines
  missed,         \* history: a failed installation of the network layer in this browser
  breaks

netVars == <<egress, launch, script, intercept, watched, ask, where, sentAfter, tracked, aged,
            console, current, since, report, missed, breaks>>
layers  == <<egress, launch, script, intercept, watched, missed>>
buffers == <<tracked, aged, console, current, since, report>>

RequestNos == 1 .. MaxRequests   \* in the order in which they are made
Request == [by : {"page", "worker"}, api : {"fetch", "socket", "resource"},
            to : {"same", "local", "off"}]   \* local: another port of localhost
\* What is assumed of the constants, where the module is instantiated.
AsksAssumption ==
  /\ AskKinds \subseteq Request /\ MaxRequests \in Nat /\ MaxBreaks \in Nat
  /\ MaxPending \in Nat \ {0} /\ MaxEntries \in Nat \ {0} /\ MaxReported \in Nat
None  == [by |-> "page", api |-> "fetch", to |-> "same"]

NetTypeOK ==
  /\ egress \in {"resolver", "intercept", "off"}
  /\ launch \in {"fresh", "hooked", "watched", "ready"}
  /\ script \in BOOLEAN /\ intercept \in {"none", "added", "full"} /\ watched \in BOOLEAN
  /\ ask \in [RequestNos -> AskKinds \cup {None}]
  /\ where \in [RequestNos -> {"unmade", "stopped", "open", "paused", "stuck", "answered", "left"}]
  /\ sentAfter \in [RequestNos -> 0 .. MaxPending]
  /\ tracked \in SUBSET RequestNos /\ Cardinality(tracked) <= MaxPending
  /\ aged \in SUBSET RequestNos
  /\ console \in Seq(Lines \X (Scripts \cup {NoScript})) /\ Len(console) <= MaxEntries
  /\ current \in Scripts \cup {NoScript} /\ since \in SUBSET Lines
  /\ report.story \in Scripts \cup {NoScript} /\ Cardinality(report.pending) <= MaxReported
  /\ missed \in BOOLEAN /\ breaks \in 0 .. MaxBreaks

NoReport == [story |-> NoScript, pending |-> {}, tail |-> << >>]
NetInit ==
  /\ egress \in {"resolver", "intercept", "off"}
  /\ launch = "fresh" /\ script = FALSE /\ intercept = "none" /\ watched = FALSE
  /\ ask = [r \in RequestNos |-> None] /\ where = [r \in RequestNos |-> "unmade"]
  /\ sentAfter = [r \in RequestNos |-> 0] /\ tracked = {} /\ aged = {}
  /\ console = << >> /\ current = NoScript /\ since = {} /\ report = NoReport
  /\ missed = FALSE /\ breaks = 0

Break == breaks < MaxBreaks /\ breaks' = breaks + 1

----------------------------------------------------------------------------
(* A browser is made: the factory's three installations, then the session  *)
(* init of the network layer, once the origin is known.                    *)

InstallBrowserSafeguards ==
  /\ launch = "fresh" /\ launch' = "hooked"
  /\ \/ script' = TRUE /\ UNCHANGED breaks
     \/ Break /\ script' = FALSE
  /\ UNCHANGED <<egress, intercept, watched, missed, ask, where, sentAfter, buffers>>

InstallSessionDiagnostics ==
  /\ launch = "hooked" /\ launch' = "watched"
  /\ \/ watched' = TRUE /\ UNCHANGED breaks
     \/ Break /\ watched' = FALSE
  /\ UNCHANGED <<egress, script, intercept, missed, ask, where, sentAfter, buffers>>

\* networkAddIntercept, then sessionSubscribe, then the handler: a failure in between leaves
\* requests that nobody settles.
InstallNetworkEgressBlock ==
  /\ launch = "watched" /\ launch' = "ready"
  /\ \/ egress # "intercept" /\ UNCHANGED <<intercept, missed, breaks>>
     \/ egress = "intercept" /\ intercept' = "full" /\ UNCHANGED <<missed, breaks>>
     \/ egress = "intercept" /\ Break /\ intercept' \in {"none", "added"} /\ missed' = TRUE
  /\ UNCHANGED <<egress, script, watched, ask, where, sentAfter, buffers>>

Forgotten ==
  /\ where' = [r \in RequestNos |-> IF where[r] \in {"open", "paused", "stuck"} THEN "stopped"
                                  ELSE where[r]]
  /\ ask' = [r \in RequestNos |-> None] /\ sentAfter' = [r \in RequestNos |-> 0]
  /\ tracked' = {} /\ aged' = {} /\ console' = << >> /\ since' = {} /\ current' = NoScript

\* Mistake: replace() does not run the session init.
ReplacedBare ==
  /\ launch = "ready" /\ Break /\ launch' = "ready" /\ missed' = FALSE
  /\ script' = TRUE /\ intercept' = "none" /\ watched' = TRUE
  /\ Forgotten /\ UNCHANGED <<egress, report>>

\* The pool replaces the browser (module RenderSession says when): the buffers are keyed by
\* it, and the new one goes through the same installations.
Replaced ==
  /\ launch = "ready" /\ Break /\ launch' = "fresh" /\ missed' = FALSE
  /\ script' = FALSE /\ intercept' = "none" /\ watched' = FALSE
  /\ Forgotten /\ UNCHANGED <<egress, report>>

----------------------------------------------------------------------------
(* Requests.                                                               *)

\* safeguardInitScript: pages only; sockets and beacons always, fetch and XHR off-origin.
StoppedInPage(k) ==
  script /\ k.by = "page" /\ (k.api = "socket" \/ (k.api = "fetch" /\ k.to # "same"))

\* --host-resolver-rules, in hardenedChromeArgs: only localhost has an address, on any port.
Unresolved(k) == egress = "resolver" /\ k.to = "off"

\* isAllowedRequestUrl: the origin includes the port.
Allowed(k) == k.to = "same"

\* The interceptor settles the request, if the driver can: one it could not continue is failed,
\* and one that a worker owns may stay paused, whatever is tried again.
Settled(k, to) ==
  \/ Allowed(k) /\ to = "open"
  \/ to = "stopped"
  \/ k.by = "worker" /\ to = "stuck"

\* The map drops what is too old, then the oldest entries, to make room.
Young == tracked \ aged
NewestOf(kept, n) == {r \in kept : Cardinality({q \in kept : q > r}) < n}
OldestOf(kept, n) == {r \in kept : Cardinality({q \in kept : q < r}) < n}
\* Mistake: the newest entries.
NotedLast(r) == OldestOf(Young, MaxPending - 1) \cup {r}
Noted(r) == NewestOf(Young, MaxPending - 1) \cup {r}

Out == {r \in RequestNos : where[r] \in {"open", "paused", "stuck"}}
IsNext(r) == where[r] = "unmade" /\ \A q \in 1 .. r - 1 : where[q] # "unmade"
Requested(r, k) ==
  /\ launch = "ready" /\ current # NoScript /\ IsNext(r)
  /\ \/ /\ StoppedInPage(k) /\ where' = [where EXCEPT ![r] = "stopped"]
        /\ UNCHANGED <<ask, tracked, sentAfter>>
     \/ /\ ~StoppedInPage(k) /\ ask' = [ask EXCEPT ![r] = k]
        /\ where' = [where EXCEPT ![r] = IF intercept = "none" THEN "open" ELSE "paused"]
        /\ sentAfter' = [q \in RequestNos |-> IF q \in Out /\ sentAfter[q] < MaxPending
                                          THEN sentAfter[q] + 1 ELSE sentAfter[q]]
        /\ tracked' = IF watched THEN Noted(r) ELSE tracked
  /\ UNCHANGED <<layers, aged, console, current, since, report, breaks>>

\* network.responseCompleted or network.fetchError.
Settles(r, to) ==
  /\ where' = [where EXCEPT ![r] = to] /\ ask' = [ask EXCEPT ![r] = None]
  /\ sentAfter' = [sentAfter EXCEPT ![r] = 0] /\ aged' = aged \ {r}
  /\ tracked' = tracked \ {r}

Intercepted(r) ==
  /\ where[r] = "paused" /\ intercept = "full"
  /\ \/ Settled(ask[r], "stopped") /\ Settles(r, "stopped")
     \/ \E to \in {"open", "stuck"} :
          /\ Settled(ask[r], to) /\ where' = [where EXCEPT ![r] = to]
          /\ UNCHANGED <<ask, sentAfter, tracked, aged>>
  /\ UNCHANGED <<layers, console, current, since, report, breaks>>

Completes(r) ==
  /\ where[r] = "open"
  /\ Settles(r, IF Unresolved(ask[r]) THEN "stopped"
                ELSE IF ask[r].to = "off" THEN "left" ELSE "answered")
  /\ UNCHANGED <<layers, console, current, since, report, breaks>>

\* The oldest comes of age first, and the map keeps it until the next insertion.
ComesOfAge ==
  /\ Young # {} /\ aged' = aged \cup OldestOf(Young, 1)
  /\ UNCHANGED <<layers, ask, where, sentAfter, tracked, console, current, since, report, breaks>>

----------------------------------------------------------------------------
(* Stories.                                                                *)

SetCurrentStory(s) == current' = s /\ since' = {}

Captures(s) ==
  /\ launch = "ready" /\ current = NoScript /\ SetCurrentStory(s)
  /\ report' = NoReport
  /\ UNCHANGED <<layers, ask, where, sentAfter, tracked, aged, console, breaks>>

Unlogged == {l \in Lines : \A i \in DOMAIN console : console[i][1] # l}
Logs(l) ==
  /\ launch = "ready" /\ watched /\ l \in Unlogged /\ since' = since \cup {l}
  /\ console' = LET ring == Append(console, <<l, current>>) IN
                SubSeq(ring, IF Len(ring) > MaxEntries THEN 2 ELSE 1, Len(ring))
  /\ UNCHANGED <<layers, ask, where, sentAfter, tracked, aged, current, report, breaks>>

\* Those that have been pending longest.
PendingRequests == OldestOf(tracked, MaxReported)
OfStory(e) == e[2] = current \/ (e[2] = NoScript /\ e[1] \in since)

\* The story fails, its session still held.  An infra failure releases the session and
\* replaces its browser or tries the story again; that is RenderSession's.
CollectFailureDiagnostics ==
  /\ current # NoScript
  /\ report' = [story |-> current, pending |-> PendingRequests,
                 tail |-> SelectSeq(console, OfStory)]
  /\ SetCurrentStory(NoScript)
  /\ UNCHANGED <<layers, ask, where, sentAfter, tracked, aged, console, breaks>>

Succeeds ==
  /\ current # NoScript /\ SetCurrentStory(NoScript)
  /\ UNCHANGED <<layers, ask, where, sentAfter, tracked, aged, console, report, breaks>>

NetNext ==
  \/ InstallBrowserSafeguards \/ InstallSessionDiagnostics \/ InstallNetworkEgressBlock
  \/ Replaced \/ ComesOfAge \/ CollectFailureDiagnostics \/ Succeeds
  \/ \E s \in Scripts : Captures(s)
  \/ \E l \in Lines : Logs(l)
  \/ \E r \in RequestNos : Intercepted(r) \/ Completes(r)
       \/ \E k \in AskKinds : Requested(r, k)
NetSpec == NetInit /\ [][NetNext]_netVars

----------------------------------------------------------------------------
(* Properties.                                                             *)

\* No request leaves for another host, from any context and in any browser the session gets,
\* unless the network layer is switched off or could not be installed (safeguards.ts:84-91).
Contained == [][(\E r \in RequestNos : where[r] # "left" /\ where'[r] = "left")
                 => egress = "off" \/ missed]_netVars

\* What hangs a story is in its report: a request that is still out is pending, unless
\* MaxPending later ones or its age have pushed it out (sessionDiagnostics.ts:157-179).
StillKnown ==
  watched => \A r \in Out : sentAfter[r] < MaxPending => r \in tracked \cup aged
=============================================================================
