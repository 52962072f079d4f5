------------------------------ MODULE PagesProofs ------------------------------
(***************************************************************************)
(* Proofs about the pages a reviewer sees (BuildPage, ResultDialog,        *)
(* ProjectPage, AddProject) and about what a worker tells of itself        *)
(* (Telemetry); and, with those of the other parts, about Parts.           *)
(***************************************************************************)
EXTENDS Parts, PartsProofs, ApiProofs, StoryProofs

----------------------------------------------------------------------------
(***************************************************************************)
(* BuildPage: whatever is polled, clicked or lost, the page does not go    *)
(* back in time.  It applies only the answer of the last request; there is *)
(* one request of a key, and when it was served the server had moved on    *)
(* from whatever is shown.                                                 *)
(***************************************************************************)

\* What the page has asked for: one request per key, none of a key to come; an answer is not older
\* than what is shown if it may still be applied, and nothing is younger than the server.
FlightsInv ==
  /\ server.version <= changes
  /\ shown.version <= server.version
  /\ \A f \in flights :
       /\ f.key <= refreshKey
       /\ f.answer.version <= server.version
       /\ f.key = refreshKey /\ f.answer \in Data => shown.version <= f.answer.version
       /\ \A g \in flights : f.key = refreshKey /\ g.key = refreshKey => f = g

BuildPageInv == PageTypeOK /\ FlightsInv

\* The page at rest is of its type.
LEMMA RestTyped ==
  ASSUME PageAssumption
  PROVE  /\ NoData.version = 0 /\ Unanswered.version = 0 /\ Error.version = 0
         /\ NoData \notin Data /\ Unanswered \notin Data /\ Error \notin Data
         /\ Refused.version = 0 /\ Refused \notin Data
BY DEF NoData, Unanswered, Error, Refused, Data

\* Sent to the login page, the visitor leaves the build's page as it was at first.
LEMMA LoginFits ==
  ASSUME PageAssumption, BuildPageInv, Login,
         server' = server /\ changes' = changes,
         session' \in {"valid", "expired", "none"}, tabHidden' \in BOOLEAN,
         outages' \in 0 .. MaxOutages
  PROVE  BuildPageInv' /\ shown' = NoData
<1>1. PageTypeOK'
  BY DEF PageAssumption, BuildPageInv, PageTypeOK, Login
<1>2. FlightsInv'
  <2>1. server.version \in 0 .. MaxChanges /\ server.version <= changes
    BY DEF BuildPageInv, PageTypeOK, FlightsInv, Data
  <2> QED
    BY <2>1, RestTyped DEF Login, FlightsInv
<1> QED
  BY <1>1, <1>2 DEF BuildPageInv, Login

\* Another GET is sent: the answers of those before it are applied no more.
LEMMA RefetchFits ==
  ASSUME PageAssumption, BuildPageInv, Refetch, shown' = shown,
         server' \in Data, changes' \in 0 .. MaxChanges,
         server.version <= server'.version, server'.version <= changes',
         session' \in {"valid", "expired", "none"}, tabHidden' \in BOOLEAN,
         visitor' \in {"new", "asking", "known", "unsure", "login"},
         clicks' \in SUBSET Decisions, outages' \in 0 .. MaxOutages
  PROVE  BuildPageInv'
<1> DEFINE sent == SentWith(refreshKey + 1)
<1>1. /\ refreshKey \in 0 .. MaxRefreshes /\ refreshKey' = refreshKey + 1
      /\ refreshKey' \in 0 .. MaxRefreshes
  BY DEF Refetch, PageAssumption, BuildPageInv, PageTypeOK
<1>2. sent.key = refreshKey' /\ sent.answer = Unanswered
  BY <1>1 DEF SentWith
<1>3. sent \in [key : 0 .. MaxRefreshes, answer : Data \cup {Unanswered, Error, Refused}]
  BY <1>1 DEF SentWith
<1>4. flights' = flights \cup {sent}
  BY DEF Refetch
<1> HIDE DEF sent
<1>5. PageTypeOK'
  BY <1>1, <1>3, <1>4 DEF Refetch, BuildPageInv, PageTypeOK
<1>6. /\ server.version \in Nat /\ server'.version \in Nat /\ shown.version \in Nat
      /\ shown.version <= server.version
  <2>1. server.version \in 0 .. MaxChanges /\ server'.version \in 0 .. MaxChanges
    BY DEF BuildPageInv, PageTypeOK, Data
  <2>2. shown \in Data => shown.version \in 0 .. MaxChanges
    BY DEF Data
  <2> QED
    BY <2>1, <2>2, RestTyped DEF BuildPageInv, PageTypeOK, FlightsInv
<1>7. \A f \in flights : f.key \in 0 .. MaxRefreshes /\ f.key <= refreshKey /\ f.key # refreshKey'
                          /\ f.answer.version <= server.version
  BY <1>1 DEF BuildPageInv, PageTypeOK, FlightsInv
<1>8. \A f \in flights : f.answer.version \in Nat
  <2> SUFFICES ASSUME NEW f \in flights PROVE f.answer.version \in Nat
    OBVIOUS
  <2>1. f.answer \in Data \cup {Unanswered, Error, Refused}
    BY DEF BuildPageInv, PageTypeOK
  <2> QED
    BY <2>1, RestTyped DEF Data
<1>9. FlightsInv'
  <2>1. ASSUME NEW f \in flights'
        PROVE  /\ f.key <= refreshKey' /\ f.answer.version <= server'.version
               /\ f.key = refreshKey' /\ f.answer \in Data => shown.version <= f.answer.version
               /\ \A g \in flights' : f.key = refreshKey' /\ g.key = refreshKey' => f = g
    BY <1>1, <1>2, <1>4, <1>6, <1>7, <1>8, RestTyped
  <2> QED
    BY <1>6, <2>1 DEF FlightsInv
<1> QED
  BY <1>5, <1>9 DEF BuildPageInv

\* A step that leaves the view alone, and the server no older, keeps it consistent.
LEMMA ViewKept ==
  ASSUME PageAssumption, BuildPageInv, UNCHANGED <<refreshKey, flights, shown>>,
         server' \in Data, changes' \in 0 .. MaxChanges,
         server.version <= server'.version, server'.version <= changes',
         session' \in {"valid", "expired", "none"}, tabHidden' \in BOOLEAN, loading' \in BOOLEAN,
         visitor' \in {"new", "asking", "known", "unsure", "login"},
         clicks' \in SUBSET Decisions, outages' \in 0 .. MaxOutages
  PROVE  BuildPageInv'
<1>1. PageTypeOK'
  BY DEF BuildPageInv, PageTypeOK
<1>2. /\ server.version \in Nat /\ server'.version \in Nat /\ shown.version \in Nat
      /\ \A f \in flights : f.answer.version \in Nat
  <2>1. \A f \in flights : f.answer \in Data \cup {Unanswered, Error, Refused}
    BY DEF BuildPageInv, PageTypeOK
  <2>2. \A d \in Data : d.version \in Nat
    BY DEF Data
  <2>3. server \in Data /\ shown \in Data \cup {NoData}
    BY DEF BuildPageInv, PageTypeOK
  <2> QED
    BY <2>1, <2>2, <2>3, RestTyped
<1>3. FlightsInv'
  BY <1>2 DEF BuildPageInv, FlightsInv
<1> QED
  BY <1>1, <1>3 DEF BuildPageInv

\* A GET is answered, or breaks.
LEMMA AnswerFits ==
  ASSUME PageAssumption, BuildPageInv, NEW f \in flights, NEW a,
         a = server \/ a = Error \/ a = Refused,
         flights' = (flights \ {f}) \cup {[f EXCEPT !.answer = a]},
         UNCHANGED <<server, session, visitor, refreshKey, shown, loading, tabHidden, clicks,
                     changes>>,
         outages' \in 0 .. MaxOutages
  PROVE  BuildPageInv'
<1> DEFINE answered == [f EXCEPT !.answer = a]
<1>1. f \in [key : 0 .. MaxRefreshes, answer : Data \cup {Unanswered, Error, Refused}]
      /\ server \in Data
  BY DEF BuildPageInv, PageTypeOK
<1>2. /\ answered \in [key : 0 .. MaxRefreshes, answer : Data \cup {Unanswered, Error, Refused}]
      /\ answered.key = f.key /\ answered.answer = a
  BY <1>1
<1>3. flights' = (flights \ {f}) \cup {answered}
  OBVIOUS
<1> HIDE DEF answered
<1>4. PageTypeOK'
  BY <1>2, <1>3 DEF BuildPageInv, PageTypeOK
<1>5. a.version \in Nat /\ a.version <= server.version /\ (a \in Data => a = server)
  <2>1. server.version \in Nat
    BY <1>1 DEF Data
  <2> QED
    BY <2>1, RestTyped
<1>6. FlightsInv'
  <2>1. ASSUME NEW g \in flights'
        PROVE  /\ g.key <= refreshKey /\ g.answer.version <= server.version
               /\ g.key = refreshKey /\ g.answer \in Data => shown.version <= g.answer.version
               /\ \A h \in flights' : g.key = refreshKey /\ h.key = refreshKey => g = h
    BY <1>2, <1>3, <1>5 DEF BuildPageInv, FlightsInv
  <2> QED
    BY <2>1 DEF BuildPageInv, FlightsInv
<1> QED
  BY <1>4, <1>6 DEF BuildPageInv

\* What arrives is applied only if it is of the last GET.
LEMMA ArrivesFits ==
  ASSUME PageAssumption, BuildPageInv, NEW f \in flights, Arrives(f)
  PROVE  BuildPageInv' /\ (shown # NoData /\ shown' # NoData => shown'.version >= shown.version)
<1>1. f.answer \in Data \cup {Unanswered, Error, Refused} /\ server \in Data
      /\ shown \in Data \cup {NoData}
  BY DEF BuildPageInv, PageTypeOK
<1>2. CASE f.answer = Refused
  <2>1. BuildPageInv' /\ shown' = NoData
    BY <1>2, LoginFits DEF Arrives, BuildPageInv, PageTypeOK
  <2> QED
    BY <2>1
<1>3. CASE f.answer # Refused /\ f.key # refreshKey
  <2>1. flights' = flights \ {f} /\ shown' = shown /\ loading' = loading
        /\ UNCHANGED <<visitor, refreshKey, clicks, server, session, tabHidden, changes, outages>>
    BY <1>3 DEF Arrives
  <2>2. PageTypeOK'
    BY <2>1 DEF BuildPageInv, PageTypeOK
  <2>3. FlightsInv'
    BY <2>1 DEF BuildPageInv, FlightsInv
  <2>4. shown.version \in Nat
    BY <1>1, RestTyped DEF Data
  <2> QED
    BY <2>1, <2>2, <2>3, <2>4 DEF BuildPageInv
<1>4. CASE f.answer # Refused /\ f.key = refreshKey
  <2>1. flights' = flights \ {f} /\ loading' = FALSE
        /\ shown' = IF f.answer = Error THEN NoData ELSE f.answer
    BY <1>4 DEF Arrives
  <2>2. UNCHANGED <<visitor, refreshKey, clicks, server, session, tabHidden, changes, outages>>
    BY <1>4 DEF Arrives
  <2>3. f.answer = Error \/ f.answer \in Data
    BY <1>1, <1>4 DEF Arrives
  <2>4. shown' \in Data \cup {NoData}
    BY <2>1, <2>3
  <2>5. PageTypeOK'
    BY <2>1, <2>2, <2>4 DEF BuildPageInv, PageTypeOK
  <2>6. /\ shown.version \in Nat /\ server.version \in Nat /\ shown'.version \in Nat
        /\ shown'.version <= server.version
    <3>1. f.answer \in Data => f.answer.version \in Nat
      BY DEF Data
    <3>2. shown.version \in Nat /\ server.version \in Nat
      BY <1>1, RestTyped DEF Data
    <3> QED
      BY <2>1, <2>3, <3>1, <3>2, RestTyped DEF BuildPageInv, FlightsInv
  <2>7. \A g \in flights' : g.key # refreshKey
    BY <1>4, <2>1 DEF BuildPageInv, FlightsInv
  <2>8. FlightsInv'
    BY <2>1, <2>2, <2>6, <2>7 DEF BuildPageInv, FlightsInv
  <2>9. f.answer \in Data => shown.version <= f.answer.version
    BY <1>4 DEF BuildPageInv, FlightsInv
  <2> QED
    BY <2>1, <2>3, <2>5, <2>6, <2>8, <2>9 DEF BuildPageInv
<1> QED
  BY <1>2, <1>3, <1>4

\* The server's own steps leave the page as it is.
LEMMA ServerFits ==
  ASSUME PageAssumption, BuildPageInv, WorkerMoves
  PROVE  BuildPageInv' /\ shown' = shown
<1>1. /\ server \in Data /\ changes \in 0 .. MaxChanges /\ server.version <= changes
      /\ server.version \in 0 .. MaxChanges
      /\ server.results \in 0 .. StoriesOwed
  BY DEF BuildPageInv, PageTypeOK, FlightsInv, Data
<1>2. PICK status \in {"running", "unapproved", "approved", "failed"}, count \in 0 .. StoriesOwed :
        Changes(status, count)
  <2>1. 0 \in 0 .. StoriesOwed
    BY DEF PageAssumption
  <2>2. server.results < StoriesOwed => server.results + 1 \in 0 .. StoriesOwed
    BY <1>1 DEF PageAssumption
  <2> QED
    BY <1>1, <2>1, <2>2 DEF WorkerMoves
<1>3. changes' \in 0 .. MaxChanges /\ server.version + 1 <= changes'
      /\ server.version + 1 \in 0 .. MaxChanges
  BY <1>1, <1>2 DEF Changes, PageAssumption
<1>4. server' = [status |-> status, results |-> count, version |-> server.version + 1]
  BY <1>2 DEF Changes
<1>5. server' \in Data /\ server'.version = server.version + 1
  BY <1>3, <1>4 DEF Data
<1>6. server.version <= server'.version /\ server'.version <= changes'
  BY <1>1, <1>3, <1>5
<1>7. UNCHANGED <<session, visitor, refreshKey, flights, shown, loading, clicks, tabHidden, outages>>
  BY <1>2 DEF Changes, pageView
<1> QED
  BY <1>3, <1>5, <1>6, <1>7, ViewKept DEF BuildPageInv, PageTypeOK

\* Who the visitor is, and the tab, are asked and told without a look at the build.
LEMMA VisitFits ==
  ASSUME PageAssumption, BuildPageInv,
         \/ SessionExpires \/ AsksWho \/ HearsWho \/ RetriesWho \/ SignsIn \/ Hides
         \/ \E v \in Decisions : Clicks(v)
  PROVE  BuildPageInv' /\ (shown' = shown \/ shown' = NoData)
<1>1. /\ server \in Data /\ changes \in 0 .. MaxChanges /\ server.version <= changes
      /\ server.version \in Nat /\ outages \in 0 .. MaxOutages
  BY DEF BuildPageInv, PageTypeOK, FlightsInv, Data
<1>2. Outage => outages' \in 0 .. MaxOutages
  BY <1>1 DEF Outage, PageAssumption
<1>3. CASE SessionExpires
  BY <1>1, <1>2, <1>3, ViewKept DEF SessionExpires, pageView, BuildPageInv, PageTypeOK
<1>4. CASE AsksWho
  <2>1. CASE session = "none"
    BY <1>4, <2>1, LoginFits DEF AsksWho, BuildPageInv, PageTypeOK
  <2>2. CASE session # "none"
    BY <1>1, <1>4, <2>2, ViewKept DEF AsksWho, pageView, BuildPageInv, PageTypeOK
  <2> QED
    BY <2>1, <2>2
<1>5. CASE HearsWho
  <2>1. CASE flights' = {SentWith(refreshKey)} /\ visitor' = "known"
             /\ UNCHANGED <<refreshKey, shown, loading, clicks, outages>>
    <3>1. UNCHANGED <<server, session, tabHidden, changes>>
      BY <1>5 DEF HearsWho
    <3>2. SentWith(refreshKey)
            \in [key : 0 .. MaxRefreshes, answer : Data \cup {Unanswered, Error, Refused}]
      BY DEF SentWith, BuildPageInv, PageTypeOK
    <3>3. PageTypeOK'
      BY <2>1, <3>1, <3>2 DEF BuildPageInv, PageTypeOK
    <3>4. SentWith(refreshKey).key = refreshKey /\ SentWith(refreshKey).answer = Unanswered
      BY DEF SentWith
    <3>5. refreshKey \in Nat
      BY DEF BuildPageInv, PageTypeOK
    <3>6. FlightsInv'
      BY <1>1, <2>1, <3>1, <3>4, <3>5, RestTyped DEF BuildPageInv, FlightsInv
    <3> QED
      BY <2>1, <3>3, <3>6 DEF BuildPageInv
  <2>2. CASE Login /\ UNCHANGED outages
    BY <1>5, <2>2, LoginFits DEF HearsWho, BuildPageInv, PageTypeOK
  <2>3. CASE Outage /\ visitor' = "unsure" /\ UNCHANGED pageView
    BY <1>1, <1>2, <1>5, <2>3, ViewKept DEF HearsWho, pageView, BuildPageInv, PageTypeOK
  <2> QED
    BY <1>5, <2>1, <2>2, <2>3 DEF HearsWho
<1>6. CASE RetriesWho
  BY <1>1, <1>6, ViewKept DEF RetriesWho, pageView, BuildPageInv, PageTypeOK
<1>7. CASE SignsIn
  BY <1>1, <1>2, <1>7, ViewKept DEF SignsIn, pageView, BuildPageInv, PageTypeOK
<1>8. CASE Hides
  BY <1>1, <1>8, ViewKept DEF Hides, pageView, BuildPageInv, PageTypeOK
<1>9. CASE \E v \in Decisions : Clicks(v)
  BY <1>1, <1>9, ViewKept DEF Clicks, BuildPageInv, PageTypeOK
<1> QED
  BY <1>3, <1>4, <1>5, <1>6, <1>7, <1>8, <1>9

\* A poll, a return to the tab and an accepted verdict fetch the build again.
LEMMA FetchFits ==
  ASSUME PageAssumption, BuildPageInv, Polls \/ Returns \/ \E v \in Decisions : Posted(v)
  PROVE  BuildPageInv' /\ (shown' = shown \/ shown' = NoData)
<1>1. /\ server \in Data /\ changes \in 0 .. MaxChanges /\ server.version <= changes
      /\ server.version \in Nat /\ outages \in 0 .. MaxOutages
  BY DEF BuildPageInv, PageTypeOK, FlightsInv, Data
<1>2. CASE Polls
  BY <1>1, <1>2, RefetchFits DEF Polls, BuildPageInv, PageTypeOK
<1>3. CASE Returns
  <2>3. tabHidden' \in BOOLEAN /\ session' \in {"valid", "expired", "none"}
    BY <1>3 DEF Returns, BuildPageInv, PageTypeOK
  <2>4. UNCHANGED <<server, visitor, shown, clicks, changes, outages>>
    BY <1>3 DEF Returns
  <2>5. /\ visitor \in {"new", "asking", "known", "unsure", "login"}
        /\ clicks \in SUBSET Decisions
    BY DEF BuildPageInv, PageTypeOK
  <2>1. CASE IsPending
    <3>1. Refetch
      BY <1>3, <2>1 DEF Returns
    <3>2. server.version <= server'.version /\ server'.version <= changes'
      BY <1>1, <2>4
    <3> QED
      BY <1>1, <2>3, <2>4, <2>5, <3>1, <3>2, RefetchFits
  <2>2. CASE ~IsPending
    <3>1. UNCHANGED <<refreshKey, flights>> /\ loading' \in BOOLEAN
      BY <1>3, <2>2 DEF Returns, BuildPageInv, PageTypeOK
    <3>2. server.version <= server'.version /\ server'.version <= changes'
      BY <1>1, <2>4
    <3> QED
      BY <1>1, <2>3, <2>4, <2>5, <3>1, <3>2, ViewKept
  <2> QED
    BY <2>1, <2>2
<1>4. ASSUME NEW v \in Decisions, Posted(v)
      PROVE  BuildPageInv' /\ (shown' = shown \/ shown' = NoData)
  <2>1. CASE session = "valid" /\ changes < MaxChanges /\ changes' = changes + 1
             /\ server' = [server EXCEPT !.status = v, !.version = @ + 1]
             /\ Refetch /\ clicks' = clicks \ {v} /\ UNCHANGED <<visitor, shown, outages>>
    <3>1. changes' \in 0 .. MaxChanges /\ server.version + 1 <= changes'
          /\ server.version + 1 \in 0 .. MaxChanges
      BY <1>1, <2>1 DEF PageAssumption
    <3>2. clicks' \in SUBSET Decisions
      BY <2>1 DEF BuildPageInv, PageTypeOK
    <3>3. server' = [status |-> v, results |-> server.results, version |-> server.version + 1]
      BY <1>1, <2>1 DEF Data
    <3>4. server' \in Data /\ server'.version = server.version + 1
      BY <1>1, <3>1, <3>3 DEF Data, Decisions
    <3>5. server.version <= server'.version /\ server'.version <= changes'
      BY <1>1, <3>1, <3>4
    <3> QED
      BY <1>4, <2>1, <3>1, <3>2, <3>4, <3>5, RefetchFits DEF Posted, BuildPageInv, PageTypeOK
  <2>2. CASE Outage /\ clicks' = clicks \ {v}
             /\ UNCHANGED <<server, visitor, refreshKey, flights, shown, loading, changes>>
    <3>1. outages' \in 0 .. MaxOutages
      BY <1>1, <2>2 DEF Outage, PageAssumption
    <3>2. clicks' \in SUBSET Decisions
      BY <2>2 DEF BuildPageInv, PageTypeOK
    <3>3. UNCHANGED <<session, tabHidden>>
      BY <1>4 DEF Posted
    <3>4. server.version <= server'.version /\ server'.version <= changes'
      BY <1>1, <2>2
    <3> QED
      BY <1>1, <2>2, <3>1, <3>2, <3>3, <3>4, ViewKept DEF BuildPageInv, PageTypeOK
  <2>3. CASE Login /\ UNCHANGED <<server, changes, outages>>
    BY <1>4, <2>3, LoginFits DEF Posted, BuildPageInv, PageTypeOK
  <2> QED
    BY <1>4, <2>1, <2>2, <2>3 DEF Posted
<1> QED
  BY <1>2, <1>3, <1>4

\* Every step of the page keeps the invariant, and shows nothing older.
LEMMA PageStep ==
  ASSUME PageAssumption, BuildPageInv, PageNext
  PROVE  BuildPageInv' /\ (shown # NoData /\ shown' # NoData => shown'.version >= shown.version)
<1>1. shown.version \in Nat
  BY RestTyped DEF BuildPageInv, PageTypeOK, Data
<1>2. CASE WorkerMoves
  BY <1>1, <1>2, ServerFits
<1>3. CASE \/ SessionExpires \/ AsksWho \/ HearsWho \/ RetriesWho \/ SignsIn \/ Hides
           \/ \E v \in Decisions : Clicks(v)
  BY <1>1, <1>3, VisitFits
<1>4. CASE Polls \/ Returns \/ \E v \in Decisions : Posted(v)
  BY <1>1, <1>4, FetchFits
<1>5. ASSUME NEW f \in flights, Serves(f)
      PROVE  BuildPageInv' /\ shown' = shown
  <2> DEFINE b == IF session = "valid" THEN server ELSE Refused
  <2>2. b = server \/ b = Error \/ b = Refused
    OBVIOUS
  <2>3. flights' = (flights \ {f}) \cup {[f EXCEPT !.answer = b]}
    BY <1>5 DEF Serves
  <2> HIDE DEF b
  <2> QED
    BY <1>5, <2>2, <2>3, AnswerFits DEF Serves, BuildPageInv, PageTypeOK
<1>6. ASSUME NEW f \in flights, Breaks(f)
      PROVE  BuildPageInv' /\ shown' = shown
  <2>1. outages' \in 0 .. MaxOutages
    BY <1>6 DEF Breaks, Outage, BuildPageInv, PageTypeOK, PageAssumption
  <2> QED
    BY <1>6, <2>1, AnswerFits DEF Breaks
<1>7. ASSUME NEW f \in flights, Arrives(f)
      PROVE  BuildPageInv' /\ (shown # NoData /\ shown' # NoData => shown'.version >= shown.version)
  BY <1>7, ArrivesFits
<1> QED
  BY <1>1, <1>2, <1>3, <1>4, <1>5, <1>6, <1>7 DEF PageNext

\* The page's invariant holds.
THEOREM BuildPageInvariance == ASSUME PageAssumption PROVE PageSpec => []BuildPageInv
<1>1. PageInit => BuildPageInv
  <2> SUFFICES ASSUME PageInit PROVE BuildPageInv
    OBVIOUS
  <2>1. server \in Data /\ server.version = 0
    BY DEF PageInit, Data, PageAssumption
  <2>2. PageTypeOK
    <3>1. loading \in BOOLEAN /\ tabHidden \in BOOLEAN
      BY DEF PageInit
    <3>2. refreshKey \in 0 .. MaxRefreshes /\ changes \in 0 .. MaxChanges
          /\ outages \in 0 .. MaxOutages
      BY DEF PageInit, PageAssumption
    <3> QED
      BY <2>1, <3>1, <3>2 DEF PageInit, PageTypeOK
  <2>3. FlightsInv
    BY <2>1, RestTyped DEF PageInit, FlightsInv
  <2> QED
    BY <2>2, <2>3 DEF BuildPageInv
<1>2. BuildPageInv /\ [PageNext]_pageVars => BuildPageInv'
  <2>1. ASSUME BuildPageInv, UNCHANGED pageVars PROVE BuildPageInv'
    BY <2>1 DEF pageVars, BuildPageInv, PageTypeOK, FlightsInv
  <2> QED
    BY <2>1, PageStep
<1> QED
  BY <1>1, <1>2, PTL DEF PageSpec

\* The page never goes back in time.
THEOREM PageForward == ASSUME PageAssumption PROVE PageSpec => NeverBackwards
<1>1. BuildPageInv /\ [PageNext]_pageVars
        => [shown # NoData /\ shown' # NoData => shown'.version >= shown.version]_pageVars
  BY PageStep
<1> QED
  BY <1>1, BuildPageInvariance, PTL DEF PageSpec, NeverBackwards

----------------------------------------------------------------------------
(***************************************************************************)
(* Telemetry: the gauge of the queue does not go back, for all that a      *)
(* query may be answered when nobody waits for it.                         *)
(***************************************************************************)

\* The gauge is the depth last known, none of which is younger than the last count; a count that
\* the scrape in progress has is not older than what the gauge shows.
GaugeInv ==
  /\ gauge = depth /\ gauge <= reads
  /\ asking.of # 0 => gauge <= asking.of
  /\ asking.of <= reads

TeleInv == TeleTypeOK /\ GaugeInv

\* The clock, the worker's work and its answers are of their types.
LEMMA WorkTyped ==
  ASSUME TeleAssumption, TeleTypeOK,
         \/ Ticks \/ MarkTaskStarted \/ BeginBuildProgress \/ CompleteStory \/ MarkTaskFinished
         \/ ReportWorkerStatus \/ Health \/ Version
  PROVE  TeleTypeOK' /\ UNCHANGED scrapeVars
<1> USE DEF TeleAssumption, TeleTypeOK, scrapeVars
<1>1. CASE Ticks
  BY <1>1 DEF Ticks
<1>2. CASE MarkTaskStarted
  BY <1>2 DEF MarkTaskStarted
<1>3. CASE BeginBuildProgress
  BY <1>3 DEF BeginBuildProgress
<1>4. CASE CompleteStory
  <2>1. progress' \in [build : 0 .. MaxTasks, done : 0 .. StoriesDue, last : 0 .. MaxTime]
    <3> DEFINE n == progress.done + 1
    <3>1. /\ progress.build \in 0 .. MaxTasks /\ n \in 0 .. StoriesDue
          /\ clock \in 0 .. MaxTime
      BY <1>4 DEF CompleteStory
    <3>2. progress' = [build |-> progress.build, done |-> n, last |-> clock]
      BY <1>4 DEF CompleteStory
    <3> HIDE DEF n
    <3> QED
      BY <3>1, <3>2
  <2> QED
    BY <1>4, <2>1 DEF CompleteStory
<1>5. CASE MarkTaskFinished
  BY <1>5 DEF MarkTaskFinished, NoTracker
<1>6. CASE ReportWorkerStatus
  BY <1>6 DEF ReportWorkerStatus
<1>7. CASE Health
  BY <1>7 DEF Health, Status
<1>8. CASE Version
  <2>1. (beat # 0 /\ clock - beat < OnlineFor) \in BOOLEAN
    OBVIOUS
  <2> QED
    BY <1>8, <2>1 DEF Version
<1> QED
  BY <1>1, <1>2, <1>3, <1>4, <1>5, <1>6, <1>7, <1>8

\* What a scrape is given.
LEMMA GivenTyped ==
  ASSUME TeleAssumption, TeleInv, NEW now \in 0 .. MaxReads, gauge <= now, now <= reads, Given(now),
         late' \in [sent : BOOLEAN, of : 0 .. MaxReads]
  PROVE  TeleInv' /\ gauge' >= gauge
BY DEF TeleAssumption, TeleInv, TeleTypeOK, GaugeInv, Given, NoCount

\* A step of the worker does not set the gauge back.
LEMMA GaugeStep ==
  ASSUME TeleAssumption, TeleInv, TeleNext
  PROVE  TeleInv' /\ gauge' >= gauge
<1>1. CASE \/ Ticks \/ MarkTaskStarted \/ BeginBuildProgress \/ CompleteStory \/ MarkTaskFinished
           \/ ReportWorkerStatus \/ Health \/ Version
  <2>1. TeleTypeOK' /\ UNCHANGED scrapeVars
    BY <1>1, WorkTyped DEF TeleInv
  <2> QED
    BY <2>1 DEF TeleInv, TeleTypeOK, GaugeInv, scrapeVars, TeleAssumption
<1>2. CASE Scrapes
  BY <1>2 DEF Scrapes, Counting, TeleInv, TeleTypeOK, GaugeInv, TeleAssumption
<1>3. CASE Counts
  <2>1. /\ reads \in 0 .. MaxReads /\ reads' = reads + 1 /\ reads' \in 0 .. MaxReads
        /\ gauge \in 0 .. MaxReads /\ gauge = depth /\ gauge <= reads
    BY <1>3 DEF Counts, TeleInv, TeleTypeOK, GaugeInv, TeleAssumption
  <2>2. CASE asking' = [sent |-> TRUE, of |-> reads'] /\ late' = late
    BY <1>3, <2>1, <2>2 DEF Counts, TeleInv, TeleTypeOK, GaugeInv
  <2>3. CASE late' = [sent |-> TRUE, of |-> reads'] /\ asking' = asking
    BY <1>3, <2>1, <2>3 DEF Counts, TeleInv, TeleTypeOK, GaugeInv
  <2> QED
    BY <1>3, <2>2, <2>3 DEF Counts, Counting
<1>4. CASE QueryQueueDepth
  BY <1>4, GivenTyped DEF QueryQueueDepth, TeleInv, TeleTypeOK, GaugeInv, TeleAssumption
<1>5. CASE QueryFails
  BY <1>5, GivenTyped DEF QueryFails, TeleInv, TeleTypeOK, GaugeInv, TeleAssumption
<1>6. CASE QueryTimesOut
  BY <1>6, GivenTyped DEF QueryTimesOut, TeleInv, TeleTypeOK, GaugeInv, TeleAssumption
<1>7. CASE LateIsDropped
  BY <1>7 DEF LateIsDropped, NoCount, TeleInv, TeleTypeOK, GaugeInv, TeleAssumption
<1> QED
  BY <1>1, <1>2, <1>3, <1>4, <1>5, <1>6, <1>7 DEF TeleNext

\* The gauge keeps up with the counts.
THEOREM GaugeInvariance == ASSUME TeleAssumption PROVE TeleSpec => []TeleInv
<1>1. TeleInit => TeleInv
  BY DEF TeleInit, TeleInv, TeleTypeOK, GaugeInv, NoCount, NoTracker, TeleAssumption
<1>2. TeleInv /\ [TeleNext]_teleVars => TeleInv'
  BY GaugeStep DEF teleVars, TeleInv, TeleTypeOK, GaugeInv
<1> QED
  BY <1>1, <1>2, PTL DEF TeleSpec

\* What successive scrapes are given never goes back in time.
LEMMA GaugeForward == ASSUME TeleAssumption PROVE TeleSpec => GaugeNeverGoesBack
<1>1. TeleInv /\ [TeleNext]_teleVars => [gauge' >= gauge]_teleVars
  BY GaugeStep
<1> QED
  BY <1>1, GaugeInvariance, PTL DEF TeleSpec, GaugeNeverGoesBack

----------------------------------------------------------------------------
(***************************************************************************)
(* ResultDialog: for any results, images and polls, the view that is       *)
(* picked is one that the result has.                                      *)
(***************************************************************************)

\* What did not load belongs to the result whose effects ran last.  Once the effects of a render
\* have run they are those of the result that is shown, and the view mode is one it has.
OwnErrorsInv ==
  /\ selected # NoResult /\ ~OtherResult =>
       \A slot \in imageErrors : <<selected.name, slot>> \in BadImages
  /\ ~due => listener.result = selected
  /\ AtRest => CanShow(viewMode) /\ (CanShow(preferred) => viewMode = preferred)

\* The results are deleted by a poll, too.
DialogInv == DialogTypeOK /\ run <= polls /\ OwnErrorsInv

\* The view mode that the effects choose is one that the result has.
LEMMA TargetFits ==
  selected # NoResult =>
    CanShow(TargetMode) /\ (CanShow(preferred) => TargetMode = preferred)
BY DEF TargetMode, CanShow

\* A render whose effects have run leaves no error but the result's own.
LEMMA FlushKeepsOwn ==
  ASSUME OwnErrorsInv, Listens, imageErrors' \in SUBSET Reset, due'
  PROVE  OwnErrorsInv'
<1>1. ASSUME selected' # NoResult, ~OtherResult', NEW slot \in imageErrors'
      PROVE  <<selected'.name, slot>> \in BadImages
  <2>1. listener'.result = selected
    BY DEF Listens
  <2>2. selected # NoResult /\ SameId(selected', selected)
    BY <1>1, <2>1 DEF OtherResult
  <2>3. ~OtherResult /\ slot \in imageErrors
    BY <1>1 DEF Reset
  <2> QED
    BY <2>2, <2>3 DEF OwnErrorsInv, SameId
<1> QED
  BY <1>1 DEF OwnErrorsInv, AtRest

\* A step of the dialog keeps the errors with their result.
LEMMA OwnErrorsStep ==
  ASSUME OwnErrorsInv, DialogNext
  PROVE  OwnErrorsInv'
<1>1. ASSUME NEW seen, NEW n, Polled(seen, n) PROVE OwnErrorsInv'
  BY <1>1, FlushKeepsOwn DEF Polled, Flush
<1>2. ASSUME NEW r, ShowsResult(r) PROVE OwnErrorsInv'
  BY <1>2, FlushKeepsOwn DEF ShowsResult, Flush
<1>3. CASE \E name \in StoryNames, look \in ResultLooks : StoryDone(name, look)
  BY <1>1, <1>3 DEF StoryDone
<1>4. CASE Superseded
  BY <1>1, <1>4 DEF Superseded
<1>5. CASE Dismisses
  BY <1>2, <1>5 DEF Dismisses
<1>6. CASE Effects
  <2>1. /\ ~due' /\ UNCHANGED <<selected, preferred>> /\ listener' = [result |-> selected, listed |-> listed]
        /\ imageErrors' = Reset /\ viewMode' = TargetMode
    BY <1>6 DEF Effects, Flush, Listens
  <2>2. ASSUME selected # NoResult, NEW slot \in imageErrors'
        PROVE  <<selected.name, slot>> \in BadImages
    BY <2>1, <2>2 DEF Reset, OwnErrorsInv
  <2>3. selected # NoResult => CanShow(viewMode)' /\ (CanShow(preferred)' => viewMode' = preferred')
    BY <2>1, TargetFits DEF CanShow, CanShowOld, CanShowDiff
  <2> QED
    BY <2>1, <2>2, <2>3 DEF OwnErrorsInv, AtRest
<1>7. CASE \E r \in listed : OpensCard(r)
  BY <1>2, <1>7 DEF OpensCard
<1>8. CASE \E by \in {-1, 1} : ClicksArrow(by) \/ PressesArrow(by)
  BY <1>2, <1>8 DEF ClicksArrow, PressesArrow, Steps
<1>9. CASE \E m \in Modes : PicksMode(m)
  BY <1>9, FlushKeepsOwn DEF PicksMode
<1>10. ASSUME NEW slot \in Slots, ImageFails(slot) PROVE OwnErrorsInv'
  <2>1. /\ due' /\ UNCHANGED selected /\ listener' = [result |-> selected, listed |-> listed]
        /\ imageErrors' = IF OtherResult THEN {} ELSE imageErrors \cup {slot}
        /\ <<selected.name, slot>> \in BadImages /\ selected # NoResult
    BY <1>10 DEF ImageFails, Listens
  <2> QED
    BY <2>1 DEF OwnErrorsInv, AtRest
<1> QED
  BY <1>3, <1>4, <1>5, <1>6, <1>7, <1>8, <1>9, <1>10 DEF DialogNext

\* A result that is taken from the list of a render is one of a result's type.
LEMMA DialogTypeStep ==
  ASSUME DialogAssumption, DialogTypeOK, run <= polls, DialogNext
  PROVE  DialogTypeOK' /\ run' <= polls'
<1> USE DEF DialogAssumption
<1>1. Listens => listener'.result \in ListedResults \cup {NoResult} /\ listener'.listed \in SUBSET ListedResults
  BY DEF Listens, DialogTypeOK
<1>2. Reset \in SUBSET Slots /\ TargetMode \in Modes
  BY DEF Reset, TargetMode, DialogTypeOK, Modes
<1>3. ASSUME NEW seen \in SUBSET ListedResults, NEW n \in {run, run + 1}, Polled(seen, n)
      PROVE  DialogTypeOK' /\ run' <= polls'
  BY <1>1, <1>2, <1>3 DEF Polled, Flush, DialogTypeOK
<1>4. ASSUME NEW r \in ListedResults \cup {NoResult}, ShowsResult(r)
      PROVE  DialogTypeOK' /\ run' <= polls'
  BY <1>1, <1>2, <1>4 DEF ShowsResult, Flush, DialogTypeOK
<1>5. ASSUME NEW name \in StoryNames, NEW look \in ResultLooks, StoryDone(name, look)
      PROVE  DialogTypeOK' /\ run' <= polls'
  <2> DEFINE r == [name |-> name, run |-> run, kind |-> look]
             seen == {o \in listed : ~SameId(o, r)} \cup {r}
  <2>1. r \in ListedResults
    BY DEF ListedResults, DialogTypeOK
  <2>2. seen \in SUBSET ListedResults
    BY <2>1 DEF DialogTypeOK
  <2>3. Polled(seen, run)
    BY <1>5 DEF StoryDone
  <2> QED
    BY <1>3, <2>2, <2>3
<1>6. CASE Superseded
  BY <1>3, <1>6 DEF Superseded
<1>7. CASE Dismisses
  BY <1>4, <1>7 DEF Dismisses
<1>8. CASE Effects
  BY <1>1, <1>2, <1>8 DEF Effects, Flush, DialogTypeOK
<1>9. CASE \E r \in listed : OpensCard(r)
  BY <1>4, <1>9 DEF OpensCard, DialogTypeOK
<1>10. CASE \E by \in {-1, 1} : ClicksArrow(by) \/ PressesArrow(by)
  <2>1. PICK here, there \in listed \cup listener.listed : ShowsResult(there)
    BY <1>10 DEF ClicksArrow, PressesArrow, Steps
  <2> QED
    BY <1>4, <2>1 DEF DialogTypeOK
<1>11. CASE \E m \in Modes : PicksMode(m)
  BY <1>1, <1>2, <1>11 DEF PicksMode, DialogTypeOK
<1>12. CASE \E slot \in Slots : ImageFails(slot)
  BY <1>1, <1>2, <1>12 DEF ImageFails, DialogTypeOK
<1> QED
  BY <1>5, <1>6, <1>7, <1>8, <1>9, <1>10, <1>11, <1>12 DEF DialogNext

\* The errors stay with their result, and the views fit.
THEOREM DialogInvariance == ASSUME DialogAssumption PROVE DialogSpec => []DialogInv
<1>1. DialogInit => DialogInv
  <2> SUFFICES ASSUME DialogInit PROVE DialogInv
    OBVIOUS
  <2>1. run \in 0 .. MaxPolls /\ polls \in 0 .. MaxPolls /\ run <= polls
    BY DEF DialogInit, DialogAssumption
  <2>2. /\ listed \in SUBSET ListedResults /\ selected \in ListedResults \cup {NoResult}
        /\ viewMode \in Modes /\ preferred \in Modes /\ imageErrors \in SUBSET Slots
        /\ due \in BOOLEAN
    BY DEF DialogInit, Modes
  <2>3. /\ listener.result \in ListedResults \cup {NoResult}
        /\ listener.listed \in SUBSET ListedResults
    BY DEF DialogInit, NoKeys
  <2>4. OwnErrorsInv
    BY DEF DialogInit, OwnErrorsInv, AtRest, NoKeys
  <2> QED
    BY <2>1, <2>2, <2>3, <2>4 DEF DialogInv, DialogTypeOK
<1>2. DialogInv /\ [DialogNext]_dialogVars => DialogInv'
  <2>1. CASE DialogNext
    BY <2>1, DialogTypeStep, OwnErrorsStep DEF DialogInv
  <2>2. CASE UNCHANGED dialogVars
    BY <2>2 DEF DialogInv, DialogTypeOK, OwnErrorsInv, dialogVars, OtherResult, AtRest, CanShow,
       CanShowOld, CanShowDiff
  <2> QED
    BY <2>1, <2>2
<1> QED
  BY <1>1, <1>2, PTL DEF DialogSpec

\* What is broken is the result's own, and the view is one it has.
LEMMA DialogIsRight == DialogInv => ViewFits /\ BrokenIsOwn
<1> SUFFICES ASSUME DialogInv PROVE ViewFits /\ BrokenIsOwn
  OBVIOUS
<1>1. ViewFits
  BY DEF DialogInv, OwnErrorsInv, ViewFits
<1>2. ASSUME AtRest, NEW slot \in Drawn, Pane(slot) = "icon"
      PROVE  <<selected.name, slot>> \in BadImages
  <2>1. slot \in imageErrors
    BY <1>2 DEF Pane
  <2>2. selected # NoResult /\ ~OtherResult
    BY <1>2 DEF DialogInv, OwnErrorsInv, AtRest, OtherResult, SameId
  <2> QED
    BY <2>1, <2>2 DEF DialogInv, OwnErrorsInv
<1> QED
  BY <1>1, <1>2 DEF BrokenIsOwn

----------------------------------------------------------------------------
(***************************************************************************)
(* ProjectPage: for any size of its pages.  The list goes down from what   *)
(* was there when the page was opened, and the oldest it lists is at least *)
(* as far down on the server as the list is long: so the offset of the     *)
(* next page, which is that length, does not lie beyond it.                *)
(***************************************************************************)

\* The numbers of a set that are above another.
Above(S, b) == {c \in S : c > b}

\* How many are above a number is one less for the next, and less than all there are.
LEMMA AboveCounted ==
  ASSUME NEW n \in Nat, NEW S, S \subseteq 1 .. n
  PROVE  /\ IsFiniteSet(S) /\ Cardinality(S) \in Nat
         /\ \A b : IsFiniteSet(Above(S, b)) /\ Cardinality(Above(S, b)) \in Nat
         /\ \A b \in S : Cardinality(Above(S, b)) + 1 <= Cardinality(S)
         /\ \A b, c \in S :
              b < c => Cardinality(Above(S, c)) + 1 <= Cardinality(Above(S, b))
<1>1. IsFiniteSet(1 .. n)
  BY FS_Interval
<1>2. IsFiniteSet(S) /\ Cardinality(S) \in Nat
  BY <1>1, FS_Subset, FS_CardinalityType
<1>3. \A b : Above(S, b) \subseteq S
  BY DEF Above
<1>4. \A b : IsFiniteSet(Above(S, b)) /\ Cardinality(Above(S, b)) \in Nat
  BY <1>2, <1>3, FS_Subset, FS_CardinalityType
<1>5. ASSUME NEW b \in S, NEW T, Above(S, b) \cup {b} \subseteq T, IsFiniteSet(T)
      PROVE  Cardinality(Above(S, b)) + 1 <= Cardinality(T)
  <2>1. b \notin Above(S, b)
    BY DEF Above
  <2>2. Cardinality(Above(S, b) \cup {b}) = Cardinality(Above(S, b)) + 1
    BY <1>4, <2>1, FS_AddElement
  <2> QED
    BY <1>5, <2>2, FS_Subset
<1>6. ASSUME NEW b \in S, NEW c \in S, b < c
      PROVE  Cardinality(Above(S, c)) + 1 <= Cardinality(Above(S, b))
  <2>1. Above(S, c) \cup {c} \subseteq Above(S, b)
    <3>1. \A x \in S : x \in Nat
      OBVIOUS
    <3>2. ASSUME NEW d \in Above(S, c) \cup {c} PROVE d \in S /\ d > b
      <4>1. d \in S /\ (d = c \/ d > c)
        BY DEF Above
      <4>2. b \in Nat /\ c \in Nat /\ d \in Nat
        BY <3>1, <4>1
      <4> QED
        BY <1>6, <4>1, <4>2
    <3> QED
      BY <3>2 DEF Above
  <2> QED
    BY <1>4, <1>5, <2>1
<1>7. ASSUME NEW b \in S PROVE Cardinality(Above(S, b)) + 1 <= Cardinality(S)
  BY <1>2, <1>3, <1>5
<1> QED
  BY <1>2, <1>4, <1>6, <1>7

\* The least of some numbers, all of which have k above them, has the others above it as well.
LEMMA LeastIsDeep ==
  ASSUME NEW n \in Nat, NEW S, S \subseteq 1 .. n, NEW P, P \subseteq S, NEW k \in Nat,
         \A x \in P : k <= Cardinality(Above(S, x)), NEW m \in P, \A c \in P : m <= c
  PROVE  k + Cardinality(P) <= Cardinality(Above(S, m)) + 1
<1>1. PICK x \in P : \A c \in P : c <= x
  BY HasGreatest
<1> DEFINE T == P \ {m}
<1>2. /\ IsFiniteSet(P) /\ Cardinality(P) \in Nat
      /\ IsFiniteSet(T) /\ Cardinality(T) = Cardinality(P) - 1
  <2>1. IsFiniteSet(P)
    BY AboveCounted, FS_Subset
  <2> QED
    BY <2>1, FS_RemoveElement, FS_CardinalityType
<1>3. /\ IsFiniteSet(Above(S, x)) /\ Cardinality(Above(S, x)) \in Nat
      /\ IsFiniteSet(Above(S, m)) /\ Cardinality(Above(S, m)) \in Nat
  BY AboveCounted
<1>8. m \in Nat /\ x \in Nat /\ m <= x /\ \A c \in S : c \in Nat
  BY <1>1
<1>4. Above(S, x) \cap T = {}
  <2>1. ASSUME NEW d \in T PROVE ~(d > x)
    BY <1>1, <1>8
  <2> QED
    BY <2>1 DEF Above
<1>5. Above(S, x) \cup T \subseteq Above(S, m)
  <2>1. ASSUME NEW d \in S, d > x \/ d \in T PROVE d > m
    BY <1>8, <2>1
  <2> QED
    BY <2>1 DEF Above
<1>6. Cardinality(Above(S, x) \cup T) = Cardinality(Above(S, x)) + Cardinality(T)
  <2> HIDE DEF T
  <2>1. Cardinality(Above(S, x) \cup T)
          = Cardinality(Above(S, x)) + Cardinality(T) - Cardinality({})
    BY <1>2, <1>3, <1>4, FS_Union
  <2>2. Cardinality({}) = 0 /\ Cardinality(T) \in Nat
    BY <1>2, FS_EmptySet, FS_CardinalityType
  <2> QED
    BY <1>3, <2>1, <2>2
<1>7. Cardinality(Above(S, x) \cup T) <= Cardinality(Above(S, m))
  BY <1>3, <1>5, FS_Subset
<1> QED
  BY <1>2, <1>3, <1>6, <1>7

\* What the list is, or will be once the page that was served has come: all that the page was
\* opened on, down to the last it lists; that one is as far down as the list is long.
Reaches(held, more, long) ==
  /\ held \subseteq onServer
  /\ held # {} =>
       \A b \in onServer : b <= opened /\ (~more \/ \E c \in held : c <= b) => b \in held
  /\ \A m \in held : (\A c \in held : m <= c) => long <= Cardinality(Above(onServer, m)) + 1
  /\ held = {} => long = 0

\* The request in flight is for what follows the list.
FetchInv ==
  /\ onServer \subseteq 1 .. newest
  /\ fetch.state = "none" <=> ~buildsLoading /\ ~loadingMore
  /\ buildsLoading => builds = {} /\ length = 0
  /\ fetch.state # "none" => fetch.offset = length
  /\ fetch.state # "answered" => fetch.page = {}
  /\ ~ready => fetch.state = "none" /\ ~hasMore

ListInv ==
  ~reapedAhead =>
    /\ Reaches(builds, hasMore, length)
    /\ fetch.state = "answered" =>
         Reaches(builds \cup fetch.page, fetch.more, length + Cardinality(fetch.page))

\* The token that the page shows, or that it is about to be told.
TokenInv ==
  /\ reset.state = "none" => reset = NoReset
  /\ reset # NoReset => ownToken # NoToken
  /\ reset.state = "sent" => token < MaxResets
  /\ pageFaults = 0 /\ ownToken # NoToken =>
       /\ reset.state # "failed"
       /\ IF reset.state = "answered" THEN reset.token = token ELSE currentToken = token

ProjectInv == ProjectTypeOK /\ FetchInv /\ ListInv /\ TokenInv

\* The list is whole, and the token is live.
LEMMA ProjectKeepsUp ==
  ASSUME ProjectAssumption, ProjectInv
  PROVE  ListIsWhole /\ TokenIsLive
<1>1. ListIsWhole
  BY DEF ProjectInv, ListInv, Reaches, ListIsWhole
<1>2. TokenIsLive
  BY DEF ProjectInv, TokenInv, TokenIsLive, NoReset
<1> QED
  BY <1>1, <1>2

\* Uploads put builds above those that are listed; the reaper, below them or the flag is up.
LEMMA ReachesStill ==
  ASSUME ProjectAssumption, ProjectTypeOK, FetchInv, onServer' \subseteq 1 .. newest',
         newest' \in Nat, opened' = opened,
         NEW held, NEW more \in BOOLEAN, NEW long \in Nat, Reaches(held, more, long),
         \/ onServer' = onServer \cup {newest + 1}
         \/ \E b \in onServer : onServer' = onServer \ {b} /\ \A c \in held : ~(c <= b)
  PROVE  /\ held \subseteq onServer'
         /\ held # {} =>
              \A b \in onServer' :
                b <= opened' /\ (~more \/ \E c \in held : c <= b) => b \in held
         /\ \A m \in held :
              (\A c \in held : m <= c) => long <= Cardinality(Above(onServer', m)) + 1
         /\ held = {} => long = 0
<1>1. newest \in Nat /\ onServer \subseteq 1 .. newest /\ opened \in 0 .. newest
  BY DEF ProjectTypeOK, FetchInv
<1>2. held \subseteq onServer'
  <2>1. held \subseteq onServer /\ \A b \in onServer : b <= b
    BY <1>1 DEF Reaches
  <2> QED
    BY <2>1
<1>3. ASSUME NEW b \in onServer', b <= opened, ~more \/ \E c \in held : c <= b, held # {}
      PROVE  b \in held
  BY <1>1, <1>3 DEF Reaches
<1>4. ASSUME NEW m \in held, \A c \in held : m <= c
      PROVE  long <= Cardinality(Above(onServer', m)) + 1
  <2>1. Above(onServer, m) \subseteq Above(onServer', m)
    BY <1>1 DEF Above, Reaches
  <2>2. /\ Cardinality(Above(onServer, m)) \in Nat
        /\ IsFiniteSet(Above(onServer', m)) /\ Cardinality(Above(onServer', m)) \in Nat
    BY <1>1, AboveCounted
  <2>3. Cardinality(Above(onServer, m)) <= Cardinality(Above(onServer', m))
    BY <2>1, <2>2, FS_Subset
  <2> QED
    BY <1>4, <2>2, <2>3 DEF Reaches
<1> QED
  BY <1>2, <1>3, <1>4 DEF Reaches

\* A page that is served goes on where the list ends.
LEMMA ReachesFurther ==
  ASSUME ProjectAssumption, ProjectTypeOK, FetchInv, Reaches(builds, hasMore, length),
         fetch.state = "sent", NEW top \in 0 .. newest, top = opened \/ builds = {}
  PROVE  LET batch == PageFrom(length)
             held == builds \cup batch
         IN  /\ batch \subseteq onServer
             /\ \A b \in onServer :
                  /\ b <= top
                  /\ ~(Cardinality(onServer) > length + PageSize) \/ \E c \in held : c <= b
                  => b \in held
             /\ \A m \in held :
                  (\A c \in held : m <= c) =>
                    length + Cardinality(batch) <= Cardinality(Above(onServer, m)) + 1
             /\ held = {} => length + Cardinality(batch) = 0
<1> DEFINE batch == PageFrom(length)
           held == builds \cup batch
           Deep(b) == Cardinality(Above(onServer, b))
<1>1. newest \in Nat /\ onServer \subseteq 1 .. newest /\ length \in Nat /\ PageSize \in Nat \ {0}
  BY DEF ProjectTypeOK, FetchInv, ProjectAssumption
<1>2. /\ IsFiniteSet(onServer) /\ Cardinality(onServer) \in Nat
      /\ \A b : Deep(b) \in Nat
      /\ \A b \in onServer : Deep(b) + 1 <= Cardinality(onServer)
      /\ \A b, c \in onServer : b < c => Deep(c) + 1 <= Deep(b)
  BY <1>1, AboveCounted
<1>3. \A b : b \in batch <=> b \in onServer /\ Deep(b) \in length .. length + PageSize - 1
  BY DEF PageFrom, Newer, Above
<1> HIDE DEF batch, Deep
<1>4. builds \subseteq onServer /\ batch \subseteq onServer
  BY <1>3 DEF Reaches
<1>12. builds \subseteq Nat /\ batch \subseteq Nat
  BY <1>1, <1>4
<1>5. ASSUME NEW b \in onServer, \A c \in builds : ~(c <= b)
      PROVE  length <= Deep(b)
  <2>1. CASE builds = {}
    BY <1>1, <1>2, <2>1 DEF Reaches
  <2>2. CASE builds # {}
    <3>1. PICK o \in builds : \A c \in builds : o <= c
      BY <1>12, <2>2, HasLeast
    <3>2. length <= Deep(o) + 1
      BY <3>1 DEF Reaches, Deep
    <3>3. Deep(o) + 1 <= Deep(b)
      BY <1>1, <1>2, <1>4, <1>5, <3>1
    <3> QED
      BY <1>1, <1>2, <3>2, <3>3
  <2> QED
    BY <2>1, <2>2
<1>6. ASSUME NEW b \in onServer, b <= top, NEW c \in builds, c <= b
      PROVE  b \in held
  BY <1>1, <1>6 DEF Reaches
<1>7. ASSUME NEW b \in onServer, \A c \in builds : ~(c <= b),
             \/ ~(Cardinality(onServer) > length + PageSize)
             \/ \E c \in batch : c <= b
      PROVE  b \in batch
  <2>1. length <= Deep(b)
    BY <1>5, <1>7
  <2>2. CASE ~(Cardinality(onServer) > length + PageSize)
    <3>1. Deep(b) + 1 <= Cardinality(onServer) /\ Deep(b) \in Nat
      BY <1>2
    <3> QED
      BY <1>1, <1>2, <1>3, <2>1, <2>2, <3>1
  <2>3. ASSUME NEW c \in batch, c <= b PROVE b \in batch
    <3>1. c \in onServer /\ Deep(c) \in length .. length + PageSize - 1
      BY <1>3
    <3>2. Deep(b) <= Deep(c)
      <4>1. CASE b = c
        BY <1>2, <4>1
      <4>2. CASE c < b
        BY <1>2, <3>1, <4>2
      <4> QED
        BY <1>1, <2>3, <3>1, <4>1, <4>2
    <3>3. Deep(b) \in Nat
      BY <1>2
    <3> QED
      BY <1>1, <1>3, <2>1, <3>1, <3>2, <3>3
  <2> QED
    BY <1>7, <2>2, <2>3
<1>8. ASSUME NEW b \in onServer, b <= top,
             ~(Cardinality(onServer) > length + PageSize) \/ \E c \in held : c <= b
      PROVE  b \in held
  BY <1>6, <1>7, <1>8
<1>9. IsFiniteSet(batch) /\ Cardinality(batch) \in Nat
  BY <1>2, <1>4, FS_Subset, FS_CardinalityType
<1>10. ASSUME NEW m \in held, \A c \in held : m <= c
       PROVE  length + Cardinality(batch) <= Deep(m) + 1
  <2>1. CASE batch = {}
    <3>1. Cardinality(batch) = 0
      BY <2>1, FS_EmptySet
    <3>2. m \in builds /\ length <= Deep(m) + 1
      BY <1>10, <2>1 DEF Reaches, Deep
    <3> QED
      BY <1>1, <3>1, <3>2
  <2>2. CASE batch # {}
    <3>1. PICK least \in batch : \A c \in batch : least <= c
      BY <1>12, <2>2, HasLeast
    <3>2. \A x \in batch : length <= Cardinality(Above(onServer, x))
      BY <1>1, <1>3 DEF Deep
    <3>3. length + Cardinality(batch) <= Deep(least) + 1
      BY <1>1, <1>4, <3>1, <3>2, LeastIsDeep DEF Deep
    <3>4. m \in onServer /\ least \in onServer /\ m <= least
      BY <1>4, <1>10, <3>1
    <3>5. Deep(least) <= Deep(m)
      <4>1. CASE m = least
        BY <1>2, <4>1
      <4>2. CASE m < least
        BY <1>2, <3>4, <4>2
      <4> QED
        BY <1>1, <3>4, <4>1, <4>2
    <3> QED
      BY <1>1, <1>2, <1>9, <3>3, <3>5
  <2> QED
    BY <2>1, <2>2
<1>11. held = {} => length + Cardinality(batch) = 0
  <2>1. held = {} => batch = {} /\ builds = {}
    OBVIOUS
  <2>2. Cardinality({}) = 0
    BY FS_EmptySet
  <2> QED
    BY <2>1, <2>2 DEF Reaches
<1> QED
  BY <1>4, <1>8, <1>10, <1>11 DEF Deep, batch

\* What is asked of the list does not look at the token, nor the other way round.
listInputs == <<onServer, newest, ready, listVars, opened, reapedAhead>>

LEMMA ListKept ==
  ASSUME ProjectInv, UNCHANGED listInputs PROVE FetchInv' /\ ListInv'
BY DEF ProjectInv, FetchInv, ListInv, Reaches, Above, listInputs, listVars

LEMMA TokenKept ==
  ASSUME ProjectInv, UNCHANGED <<token, tokenVars>>, pageFaults' = 0 => pageFaults = 0
  PROVE  TokenInv'
BY DEF ProjectInv, TokenInv, tokenVars

\* Builds are uploaded and reaped.
LEMMA ServerStep ==
  ASSUME ProjectAssumption, ProjectInv, NEW b \in UploadNos, Uploads \/ Reaps(b)
  PROVE  ProjectInv'
<1>1. ProjectTypeOK /\ FetchInv /\ newest \in Nat /\ newest <= MaxUploads
      /\ onServer \subseteq 1 .. newest /\ MaxUploads \in Nat /\ opened \in 0 .. newest
      /\ reapedAhead \in BOOLEAN
  BY DEF ProjectInv, ProjectTypeOK, FetchInv, ProjectAssumption
<1>2. UNCHANGED <<token, ready, listVars, tokenVars, opened, pageFaults>>
  BY DEF Uploads, Reaps
<1>3. /\ newest' \in 0 .. MaxUploads /\ opened' \in 0 .. newest' /\ onServer' \subseteq 1 .. newest'
      /\ onServer' \subseteq UploadNos
  <2>1. CASE Uploads
    <3>1. newest' = newest + 1 /\ onServer' = onServer \cup {newest + 1} /\ newest < MaxUploads
      BY <2>1 DEF Uploads
    <3>2. newest' \in 0 .. MaxUploads /\ opened' \in 0 .. newest'
      BY <1>1, <1>2, <3>1
    <3>3. \A c \in 1 .. newest : c \in 1 .. newest'
      BY <1>1, <3>1
    <3>4. newest + 1 \in 1 .. newest' /\ newest + 1 \in UploadNos
      BY <1>1, <3>1 DEF UploadNos
    <3>5. onServer \subseteq UploadNos
      BY <1>1 DEF ProjectTypeOK
    <3> QED
      BY <1>1, <3>1, <3>2, <3>3, <3>4, <3>5
  <2>2. CASE Reaps(b)
    BY <1>1, <1>2, <2>2 DEF Reaps, ProjectTypeOK
  <2> QED
    BY <2>1, <2>2
<1>4. reapedAhead' \in BOOLEAN
  BY <1>1 DEF Uploads, Reaps
<1>5. ProjectTypeOK'
  BY <1>2, <1>3, <1>4 DEF ProjectInv, ProjectTypeOK, listVars, tokenVars
<1>6. FetchInv'
  BY <1>1, <1>2, <1>3 DEF FetchInv, listVars
<1>7. ListInv'
  <2> SUFFICES ASSUME ~reapedAhead' PROVE ListInv'
    BY DEF ListInv
  <2>1. ~reapedAhead
    BY DEF Uploads, Reaps
  <2> DEFINE Meets(held) ==
        \/ onServer' = onServer \cup {newest + 1}
        \/ \E c \in onServer : onServer' = onServer \ {c} /\ \A d \in held : ~(d <= c)
  <2>2. Meets(builds \cup fetch.page) /\ Meets(builds)
    BY DEF Uploads, Reaps
  <2>3. hasMore \in BOOLEAN /\ length \in Nat /\ newest' \in Nat /\ opened' = opened
    BY <1>1, <1>2, <1>3 DEF ProjectTypeOK
  <2>4. Reaches(builds, hasMore, length)'
    <3>1. Reaches(builds, hasMore, length)
      BY <2>1 DEF ProjectInv, ListInv
    <3>2. builds' = builds /\ hasMore' = hasMore /\ length' = length
      BY <1>2 DEF listVars
    <3>3. /\ builds \subseteq onServer'
          /\ builds # {} =>
               \A c \in onServer' :
                 c <= opened' /\ (~hasMore \/ \E d \in builds : d <= c) => c \in builds
          /\ \A m \in builds :
               (\A c \in builds : m <= c) => length <= Cardinality(Above(onServer', m)) + 1
          /\ builds = {} => length = 0
      BY <1>1, <1>3, <2>2, <2>3, <3>1, ReachesStill
    <3> QED
      BY <3>2, <3>3 DEF Reaches
  <2>5. ASSUME fetch.state' = "answered"
        PROVE  Reaches(builds \cup fetch.page, fetch.more, length + Cardinality(fetch.page))'
    <3>1. fetch' = fetch /\ builds' = builds /\ length' = length
      BY <1>2 DEF listVars
    <3>2. Reaches(builds \cup fetch.page, fetch.more, length + Cardinality(fetch.page))
      BY <2>1, <2>5, <3>1 DEF ProjectInv, ListInv
    <3>3. fetch.more \in BOOLEAN /\ fetch.page \subseteq UploadNos
      BY <1>1 DEF ProjectTypeOK, Answer
    <3>4. length + Cardinality(fetch.page) \in Nat
      <4>1. Cardinality(fetch.page) \in Nat
        BY <1>1, <3>3, AboveCounted DEF UploadNos
      <4> QED
        BY <2>3, <4>1
    <3> DEFINE all == builds \cup fetch.page
               deep == length + Cardinality(fetch.page)
    <3>5. /\ all \subseteq onServer'
          /\ all # {} =>
               \A c \in onServer' :
                 c <= opened' /\ (~fetch.more \/ \E d \in all : d <= c) => c \in all
          /\ \A m \in all :
               (\A c \in all : m <= c) => deep <= Cardinality(Above(onServer', m)) + 1
          /\ all = {} => deep = 0
      <4>1. Reaches(all, fetch.more, deep) /\ deep \in Nat /\ fetch.more \in BOOLEAN
        BY <3>2, <3>3, <3>4
      <4>2. \/ onServer' = onServer \cup {newest + 1}
            \/ \E c \in onServer : onServer' = onServer \ {c} /\ \A d \in all : ~(d <= c)
        BY <2>2
      <4> HIDE DEF all, deep
      <4> QED
        BY <1>1, <1>3, <2>3, <4>1, <4>2, ReachesStill
    <3> QED
      BY <3>1, <3>5 DEF Reaches
  <2> QED
    BY <2>4, <2>5 DEF ListInv
<1> QED
  BY <1>2, <1>5, <1>6, <1>7, TokenKept DEF ProjectInv

\* A page is served.
LEMMA ServesStep ==
  ASSUME ProjectAssumption, ProjectInv, ServesBuilds PROVE ProjectInv'
<1> DEFINE batch == PageFrom(length)
           more == Cardinality(onServer) > length + PageSize
<1>1. /\ ProjectTypeOK /\ FetchInv /\ fetch \in Answer /\ fetch.state = "sent"
      /\ fetch.offset = length /\ length \in Nat
      /\ UNCHANGED <<onServer, newest, token, ready, builds, length, hasMore, buildsLoading,
                     loadingMore, tokenVars, reapedAhead, pageFaults>>
  BY DEF ProjectInv, ProjectTypeOK, FetchInv, ServesBuilds
<1>2. batch \subseteq UploadNos
  BY <1>1 DEF ProjectTypeOK, PageFrom
<1>3. fetch' = [state |-> "answered", offset |-> length, page |-> batch, more |-> more]
  BY <1>1 DEF ServesBuilds, Answer
<1>4. more \in BOOLEAN
  OBVIOUS
<1> HIDE DEF batch, more
<1>5. fetch' \in Answer
  BY <1>1, <1>2, <1>3, <1>4 DEF Answer
<1>6. opened' = IF buildsLoading THEN newest ELSE opened
  BY DEF ServesBuilds
<1>7. opened' \in 0 .. newest'
  BY <1>1, <1>6 DEF ProjectTypeOK
<1>8. ProjectTypeOK'
  BY <1>1, <1>5, <1>7 DEF ProjectTypeOK, tokenVars
<1>9. FetchInv'
  BY <1>1, <1>3 DEF FetchInv
<1>10. ListInv'
  <2> SUFFICES ASSUME ~reapedAhead PROVE ListInv'
    BY <1>1 DEF ListInv
  <2>1. Reaches(builds, hasMore, length)
    BY DEF ProjectInv, ListInv
  <2>2. opened' \in 0 .. newest /\ (opened' = opened \/ builds = {})
    BY <1>1, <1>6, <1>7 DEF FetchInv
  <2>3. Reaches(builds, hasMore, length)'
    BY <1>1, <2>1, <2>2 DEF Reaches
  <2>4. /\ batch \subseteq onServer
        /\ \A b \in onServer :
             b <= opened' /\ (~more \/ \E c \in builds \cup batch : c <= b) => b \in builds \cup batch
        /\ \A m \in builds \cup batch :
             (\A c \in builds \cup batch : m <= c) =>
               length + Cardinality(batch) <= Cardinality(Above(onServer, m)) + 1
        /\ builds \cup batch = {} => length + Cardinality(batch) = 0
    BY <1>1, <2>1, <2>2, ReachesFurther DEF batch, more
  <2>5. builds \subseteq onServer
    BY <2>1 DEF Reaches
  <2>6. /\ onServer' = onServer /\ builds' = builds /\ length' = length
        /\ fetch'.page = batch /\ fetch'.more = more
    BY <1>1, <1>3
  <2>7. Reaches(builds \cup fetch.page, fetch.more, length + Cardinality(fetch.page))'
    BY <2>4, <2>5, <2>6 DEF Reaches
  <2> QED
    BY <2>3, <2>7 DEF ListInv
<1> QED
  BY <1>1, <1>8, <1>9, <1>10, TokenKept DEF ProjectInv

\* A page is asked for, lost, and shown.
LEMMA FetchStep ==
  ASSUME ProjectAssumption, ProjectInv, BuildsFail \/ Mounts \/ BuildsArrive \/ LoadsMore
  PROVE  ProjectInv'
<1>1. /\ ProjectTypeOK /\ FetchInv /\ fetch \in Answer /\ length \in Nat
      /\ UNCHANGED <<onServer, newest, token, tokenVars, opened, reapedAhead>>
      /\ pageFaults \in 0 .. MaxPageFaults /\ MaxPageFaults \in Nat
  BY DEF ProjectInv, ProjectTypeOK, FetchInv, ProjectAssumption, BuildsFail, Mounts, BuildsArrive,
         LoadsMore
<1>2. NoFetch \in Answer
  BY DEF NoFetch, Answer
<1>3. pageFaults' \in 0 .. MaxPageFaults /\ (pageFaults' = 0 => pageFaults = 0)
  BY <1>1 DEF BuildsFail, PageFault, Mounts, BuildsArrive, LoadsMore
<1>4. TokenInv'
  BY <1>1, <1>3, TokenKept
<1>5. CASE BuildsFail
  <2>1. /\ fetch.state = "sent" /\ fetch.page = {} /\ fetch' \in Answer
        /\ fetch' = [state |-> "failed", offset |-> fetch.offset, page |-> {}, more |-> fetch.more]
    BY <1>1, <1>5 DEF BuildsFail, FetchInv, Answer
  <2>2. UNCHANGED <<ready, builds, length, hasMore, buildsLoading, loadingMore>>
    BY <1>5 DEF BuildsFail
  <2>3. ProjectTypeOK'
    BY <1>1, <1>3, <2>1, <2>2 DEF ProjectTypeOK, tokenVars
  <2>4. FetchInv'
    BY <1>1, <2>1, <2>2 DEF FetchInv
  <2>5. ListInv'
    BY <1>1, <2>1, <2>2 DEF ProjectInv, ListInv, Reaches, Above
  <2> QED
    BY <1>4, <2>3, <2>4, <2>5 DEF ProjectInv
<1>6. CASE Mounts
  <2>1. /\ fetch' = Fetch(0) /\ fetch' \in Answer /\ fetch'.state = "sent" /\ fetch'.offset = 0
        /\ fetch'.page = {}
    BY <1>6 DEF Mounts, Fetch, Answer
  <2>2. /\ ready' = TRUE /\ buildsLoading' = TRUE /\ builds' = {} /\ length' = 0
        /\ hasMore' = FALSE /\ loadingMore' = loadingMore /\ pageFaults' = pageFaults
    BY <1>6 DEF Mounts
  <2>3. ready' \in BOOLEAN /\ buildsLoading' \in BOOLEAN /\ hasMore' \in BOOLEAN
    BY <2>2
  <2>4. ProjectTypeOK'
    BY <1>1, <2>1, <2>2, <2>3 DEF ProjectTypeOK, tokenVars
  <2>5. FetchInv'
    BY <1>1, <2>1, <2>2 DEF FetchInv
  <2>6. ListInv'
    BY <2>1, <2>2 DEF ListInv, Reaches
  <2> QED
    BY <1>4, <2>4, <2>5, <2>6 DEF ProjectInv
<1>7. CASE BuildsArrive
  <2>1. /\ fetch' = NoFetch /\ fetch'.state = "none" /\ fetch'.page = {} /\ fetch' \in Answer
        /\ buildsLoading' = FALSE /\ loadingMore' = FALSE
        /\ ready' = ready /\ pageFaults' = pageFaults
    BY <1>2, <1>7 DEF BuildsArrive, NoFetch
  <2>2. buildsLoading' \in BOOLEAN /\ loadingMore' \in BOOLEAN
    BY <2>1
  <2>3. ready
    BY <1>1, <1>7 DEF BuildsArrive, FetchInv
  <2>4. FetchInv'
    BY <1>1, <2>1, <2>3 DEF FetchInv
  <2>5. CASE fetch.state = "failed"
    <3>1. UNCHANGED <<builds, length, hasMore>>
      BY <1>7, <2>5 DEF BuildsArrive
    <3>2. ProjectTypeOK'
      BY <1>1, <2>1, <2>2, <3>1 DEF ProjectTypeOK, tokenVars
    <3>3. ListInv'
      BY <1>1, <2>1, <3>1 DEF ProjectInv, ListInv, Reaches, Above
    <3> QED
      BY <1>4, <2>4, <3>2, <3>3 DEF ProjectInv
  <2>6. CASE fetch.state # "failed"
    <3>1. fetch.state = "answered"
      BY <1>7, <2>6 DEF BuildsArrive
    <3>2. Cardinality(fetch.page) \in Nat /\ fetch.page \subseteq UploadNos
          /\ fetch.more \in BOOLEAN
      <4>1. fetch.page \subseteq UploadNos /\ fetch.more \in BOOLEAN
        BY <1>1 DEF Answer
      <4> QED
        BY <4>1, AboveCounted DEF UploadNos, ProjectAssumption
    <3>3. /\ builds' = builds \cup fetch.page /\ length' = length + Cardinality(fetch.page)
          /\ hasMore' = fetch.more
      BY <1>1, <1>7, <2>6 DEF BuildsArrive, FetchInv
    <3>4. builds' \subseteq UploadNos /\ length' \in Nat /\ hasMore' \in BOOLEAN
      BY <1>1, <3>2, <3>3 DEF ProjectTypeOK
    <3>5. ProjectTypeOK'
      BY <1>1, <2>1, <2>2, <3>4 DEF ProjectTypeOK, tokenVars
    <3>6. ListInv'
      BY <1>1, <2>1, <3>1, <3>3 DEF ProjectInv, ListInv, Reaches, Above
    <3> QED
      BY <1>4, <2>4, <3>5, <3>6 DEF ProjectInv
  <2> QED
    BY <2>5, <2>6
<1>8. CASE LoadsMore
  <2>1. /\ fetch' = Fetch(length) /\ fetch' \in Answer /\ fetch'.state = "sent"
        /\ fetch'.offset = length /\ fetch'.page = {}
    BY <1>1, <1>8 DEF LoadsMore, Fetch, Answer
  <2>2. /\ hasMore /\ ~buildsLoading /\ loadingMore' = TRUE
        /\ UNCHANGED <<ready, builds, length, hasMore, buildsLoading>> /\ pageFaults' = pageFaults
    BY <1>8 DEF LoadsMore
  <2>3. loadingMore' \in BOOLEAN
    BY <2>2
  <2>4. ready
    BY <1>1, <2>2 DEF FetchInv
  <2>5. ProjectTypeOK'
    BY <1>1, <2>1, <2>2, <2>3 DEF ProjectTypeOK, tokenVars
  <2>6. FetchInv'
    BY <1>1, <2>1, <2>2, <2>4 DEF FetchInv
  <2>7. ListInv'
    BY <1>1, <2>1, <2>2 DEF ProjectInv, ListInv, Reaches, Above
  <2> QED
    BY <1>4, <2>5, <2>6, <2>7 DEF ProjectInv
<1> QED
  BY <1>5, <1>6, <1>7, <1>8

\* The token is asked for, reset, lost and shown.
LEMMA TokenStep ==
  ASSUME ProjectAssumption, ProjectInv, ProjectArrives \/ Resets \/ SavesToken \/ TokenArrives
  PROVE  ProjectInv'
<1>1. /\ ProjectTypeOK /\ TokenInv /\ UNCHANGED listInputs /\ NoReset.state = "none"
      /\ NoReset.token = 0 /\ token \in Nat /\ token <= MaxResets /\ MaxResets \in Nat
      /\ reset \in [state : {"none", "sent", "answered", "failed"}, token : Tokens]
      /\ pageFaults \in 0 .. MaxPageFaults /\ MaxPageFaults \in Nat /\ NoToken \notin Tokens
  BY DEF ProjectInv, ProjectTypeOK, ProjectAssumption, Tokens, NoToken, NoReset, ProjectArrives,
         Resets, SavesToken, TokenArrives, listInputs
<1>2. FetchInv' /\ ListInv'
  BY <1>1, ListKept
<1>3. CASE ProjectArrives
  <2>1. /\ ownToken = NoToken /\ ownToken' = token /\ currentToken' = token
        /\ reset' = reset /\ token' = token /\ pageFaults' = pageFaults
    BY <1>3 DEF ProjectArrives
  <2>2. reset = NoReset
    BY <1>1, <2>1 DEF TokenInv
  <2>3. ProjectTypeOK'
    BY <1>1, <2>1 DEF ProjectTypeOK, listInputs, listVars
  <2>4. TokenInv'
    BY <1>1, <2>1, <2>2 DEF TokenInv, ProjectTypeOK
  <2> QED
    BY <1>2, <2>3, <2>4 DEF ProjectInv
<1>4. CASE Resets
  <2>1. /\ ownToken # NoToken /\ reset = NoReset /\ token < MaxResets
        /\ reset' = [state |-> "sent", token |-> 0]
        /\ UNCHANGED <<token, ownToken, currentToken, pageFaults>>
    BY <1>4 DEF Resets, NoReset
  <2>2. 0 \in Tokens
    BY <1>1 DEF Tokens
  <2>3. ProjectTypeOK'
    BY <1>1, <2>1, <2>2 DEF ProjectTypeOK, listInputs, listVars
  <2>4. TokenInv'
    BY <1>1, <2>1 DEF TokenInv
  <2> QED
    BY <1>2, <2>3, <2>4 DEF ProjectInv
<1>5. CASE SavesToken
  <2>1. reset.state = "sent" /\ token < MaxResets /\ UNCHANGED <<ownToken, currentToken>>
        /\ reset # NoReset /\ ownToken # NoToken
    BY <1>1, <1>5 DEF SavesToken, TokenInv
  <2>2. token + 1 \in Tokens /\ token \in Tokens
    BY <1>1, <2>1 DEF Tokens
  <2>3. CASE /\ token' = token + 1 /\ UNCHANGED pageFaults
             /\ reset' = [state |-> "answered", token |-> token + 1]
    <3>1. ProjectTypeOK'
      BY <1>1, <2>1, <2>2, <2>3 DEF ProjectTypeOK, listInputs, listVars
    <3>2. TokenInv'
      BY <1>1, <2>1, <2>3 DEF TokenInv
    <3> QED
      BY <1>2, <3>1, <3>2 DEF ProjectInv
  <2>4. CASE /\ token' \in {token, token + 1} /\ PageFault
             /\ reset' = [reset EXCEPT !.state = "failed"]
    <3>1. reset' = [state |-> "failed", token |-> reset.token] /\ reset.token \in Tokens
      BY <1>1, <2>4
    <3>2. pageFaults' \in 0 .. MaxPageFaults /\ pageFaults' # 0
      BY <1>1, <2>4 DEF PageFault
    <3>3. token' \in Tokens
      BY <2>2, <2>4
    <3>4. ProjectTypeOK'
      BY <1>1, <2>1, <3>1, <3>2, <3>3 DEF ProjectTypeOK, listInputs, listVars
    <3>5. TokenInv'
      BY <1>1, <2>1, <3>1, <3>2 DEF TokenInv
    <3> QED
      BY <1>2, <3>4, <3>5 DEF ProjectInv
  <2> QED
    BY <1>5, <2>3, <2>4 DEF SavesToken
<1>6. CASE TokenArrives
  <2>1. /\ reset.state \in {"answered", "failed"} /\ reset' = NoReset
        /\ currentToken' = (IF reset.state = "failed" THEN currentToken ELSE reset.token)
        /\ UNCHANGED <<token, ownToken, pageFaults>>
    BY <1>6 DEF TokenArrives
  <2>2. NoReset \in [state : {"none", "sent", "answered", "failed"}, token : Tokens]
    BY <1>1 DEF NoReset, Tokens
  <2>3. currentToken' \in Tokens \cup {NoToken}
    BY <1>1, <2>1 DEF ProjectTypeOK
  <2>4. ProjectTypeOK'
    BY <1>1, <2>1, <2>2, <2>3 DEF ProjectTypeOK, listInputs, listVars
  <2>5. TokenInv'
    BY <1>1, <2>1 DEF TokenInv
  <2> QED
    BY <1>2, <2>4, <2>5 DEF ProjectInv
<1> QED
  BY <1>3, <1>4, <1>5, <1>6

\* The page of a project is consistent, and stays so.
THEOREM ProjectInvariance == ASSUME ProjectAssumption PROVE ProjectSpec => []ProjectInv
<1>1. ProjectInit => ProjectInv
  <2> SUFFICES ASSUME ProjectInit PROVE ProjectInv
    OBVIOUS
  <2>1. newest \in Nat /\ newest <= MaxUploads /\ MaxUploads \in Nat /\ onServer = 1 .. newest
    BY DEF ProjectInit, ProjectAssumption
  <2>2. \A b \in 1 .. newest : b \in UploadNos
    BY <2>1 DEF UploadNos
  <2>3. /\ NoFetch \in Answer /\ NoFetch.state = "none" /\ NoFetch.page = {}
        /\ NoReset.state = "none" /\ NoReset.token = 0
    BY DEF NoFetch, Answer, NoReset
  <2>4. /\ ready \in BOOLEAN /\ hasMore \in BOOLEAN /\ buildsLoading \in BOOLEAN
        /\ loadingMore \in BOOLEAN /\ reapedAhead \in BOOLEAN
    BY DEF ProjectInit
  <2>5. 0 \in Tokens /\ opened \in 0 .. newest /\ pageFaults \in 0 .. MaxPageFaults
    BY <2>1 DEF ProjectInit, ProjectAssumption, Tokens
  <2>6. NoReset \in [state : {"none", "sent", "answered", "failed"}, token : Tokens]
    BY <2>5 DEF NoReset
  <2>7. newest \in 0 .. MaxUploads /\ onServer \subseteq UploadNos
    BY <2>1, <2>2
  <2>8. builds \subseteq UploadNos /\ length \in Nat
    BY DEF ProjectInit
  <2>9. ProjectTypeOK
    BY <2>3, <2>4, <2>5, <2>6, <2>7, <2>8 DEF ProjectInit, ProjectTypeOK
  <2>10. FetchInv /\ ListInv
    BY <2>3 DEF ProjectInit, FetchInv, ListInv, Reaches
  <2>11. TokenInv
    BY <2>3 DEF ProjectInit, TokenInv
  <2> QED
    BY <2>9, <2>10, <2>11 DEF ProjectInv
<1>2. ProjectInv /\ [ProjectNext]_projectVars => ProjectInv'
  <2>1. ASSUME ProjectInv, UNCHANGED projectVars PROVE ProjectInv'
    <3>1. ProjectTypeOK'
      BY <2>1 DEF projectVars, ProjectInv, ProjectTypeOK
    <3>2. UNCHANGED listInputs /\ UNCHANGED <<token, tokenVars, pageFaults>>
      BY <2>1 DEF projectVars, listInputs, listVars, tokenVars
    <3> QED
      BY <2>1, <3>1, <3>2, ListKept, TokenKept DEF ProjectInv
  <2>2. ASSUME ProjectInv, Uploads PROVE ProjectInv'
    <3>1. newest + 1 \in UploadNos
      BY <2>2 DEF Uploads, ProjectInv, ProjectTypeOK, UploadNos, ProjectAssumption
    <3> QED
      BY <2>2, <3>1, ServerStep
  <2>3. ASSUME ProjectInv, NEW b \in UploadNos, Reaps(b) PROVE ProjectInv'
    BY <2>3, ServerStep
  <2> QED
    BY <2>1, <2>2, <2>3, ServesStep, FetchStep, TokenStep DEF ProjectNext
<1> QED
  BY <1>1, <1>2, PTL DEF ProjectSpec

----------------------------------------------------------------------------
(***************************************************************************)
(* AddProject: for any organizations, dialogs and posts.                   *)
(***************************************************************************)

\* What was asked for is of a dialog that was opened, and what was answered well is on the server.
AskedInv ==
  /\ open => opens # 0
  /\ \A p \in posts : p.state = "ok" => p.repo \in added

\* A list that is shown, or about to be, has all that was heard of before it was fetched.
ListedInv ==
  /\ listing.state = "none" => listing = ListQuiet
  /\ listing.state = "answered" /\ listing.list.ok => heard \subseteq listing.list.held
  /\ listing.state = "none" /\ projects.ok => heard \subseteq projects.held

\* While organizations are loaded, the time is noted, so that a timer ends the spinner.
SpinnerInv == NoEndlessSpinner /\ (open /\ orgsLoading => started)

AddInv == AddTypeOK /\ AskedInv /\ ListedInv /\ SpinnerInv

\* The list and the spinners are right.
LEMMA AddKeepsUp == AddInv => CreatedIsListed /\ NoEndlessSpinner
BY DEF AddInv, ListedInv, SpinnerInv, CreatedIsListed, ListQuiet

\* What the invariant says of the list, and of the dialog, is kept by what does not touch it.
listParts == <<listing, projects, heard>>
dialogParts == <<open, opens, orgsLoading, spinning, started, reposLoading, repoAsks>>

LEMMA ListedKept == ASSUME ListedInv, UNCHANGED listParts PROVE ListedInv'
BY DEF ListedInv, listParts

LEMMA SpinnerKept ==
  ASSUME SpinnerInv, UNCHANGED dialogParts,
         \A p \in posts : \E q \in posts' : q.by = p.by
  PROVE  SpinnerInv'
BY DEF SpinnerInv, NoEndlessSpinner, Spinner, dialogParts

\* What a step leaves to the type invariant: the dialog, the list and the server's part.
DialogTypes ==
  /\ opens \in 0 .. MaxOpens /\ open \in BOOLEAN /\ addTab \in TabNames
  /\ orgsLoading \in BOOLEAN /\ orgs \in BOOLEAN /\ spinning \in BOOLEAN /\ started \in BOOLEAN
  /\ repos \in Orgs \cup {NoOrg} /\ reposLoading \in BOOLEAN /\ repoAsks \in SUBSET RepoAsk
  /\ asks \in 0 .. MaxAsks
PostTypes == posts \in SUBSET Post /\ added \in SUBSET Repos /\ heard \in SUBSET added
PageTypes ==
  /\ projects \in ProjectLists /\ addFaults \in 0 .. MaxAddFaults
  /\ listing \in [state : {"none", "sent", "answered"}, list : ProjectLists]

LEMMA AddTypes == AddTypeOK <=> DialogTypes /\ PostTypes /\ PageTypes
BY DEF AddTypeOK, DialogTypes, PostTypes, PageTypes

LEMMA DialogTypesKept ==
  ASSUME DialogTypes, UNCHANGED <<opens, open, dialogState>> PROVE DialogTypes'
BY DEF DialogTypes, dialogState

\* The list of projects is fetched and shown; the dialog closes.
LEMMA ListStep ==
  ASSUME AddAssumption, AddInv, ListServed \/ ListArrives \/ DialogCloses
  PROVE  AddInv'
<1>1. /\ DialogTypes /\ PostTypes /\ PageTypes /\ AskedInv /\ ListedInv /\ SpinnerInv
      /\ NoList \in ProjectLists /\ NoList.ok = FALSE
  BY AddTypes DEF AddInv, NoList, ProjectLists
<1>2. UNCHANGED <<dialogState, serverState>>
  BY DEF ListServed, ListArrives, DialogCloses
<1>3. PostTypes'
  BY <1>1, <1>2 DEF PostTypes, serverState
<1>4. CASE ListServed
  <2>1. listing.state = "sent" /\ UNCHANGED <<opens, open, projects>>
    BY <1>4 DEF ListServed
  <2>2. PICK list \in ProjectLists :
          /\ listing' = [state |-> "answered", list |-> list]
          /\ list.ok => list.held = added
    <3>1. [ok |-> TRUE, held |-> added] \in ProjectLists
      BY <1>1 DEF PostTypes, ProjectLists
    <3> QED
      BY <1>1, <1>4, <3>1 DEF ListServed, Listed
  <2>3. addFaults' \in 0 .. MaxAddFaults
    BY <1>1, <1>4 DEF ListServed, AddFault, PageTypes, AddAssumption
  <2>4. PageTypes'
    BY <1>1, <2>1, <2>2, <2>3 DEF PageTypes
  <2>5. DialogTypes'
    BY <1>1, <1>2, <2>1, DialogTypesKept
  <2>6. AskedInv' /\ SpinnerInv'
    BY <1>1, <1>2, <2>1, SpinnerKept DEF AskedInv, dialogState, serverState, dialogParts
  <2>7. ListedInv'
    BY <1>1, <1>2, <2>2 DEF ListedInv, PostTypes, serverState
  <2> QED
    BY <1>3, <2>4, <2>5, <2>6, <2>7, AddTypes DEF AddInv, AddTypeOK, DialogTypes, PostTypes, PageTypes
<1>5. CASE ListArrives
  <2>1. /\ listing.state = "answered" /\ listing' = ListQuiet /\ projects' = listing.list
        /\ UNCHANGED <<opens, open, addFaults>>
    BY <1>5 DEF ListArrives
  <2>2. ListQuiet \in [state : {"none", "sent", "answered"}, list : ProjectLists]
    BY <1>1 DEF ListQuiet
  <2>3. PageTypes'
    BY <1>1, <2>1, <2>2 DEF PageTypes
  <2>4. DialogTypes'
    BY <1>1, <1>2, <2>1, DialogTypesKept
  <2>5. AskedInv' /\ SpinnerInv'
    BY <1>1, <1>2, <2>1, SpinnerKept DEF AskedInv, dialogState, serverState, dialogParts
  <2>6. ListedInv'
    BY <1>1, <1>2, <2>1 DEF ListedInv, ListQuiet, serverState
  <2> QED
    BY <1>3, <2>3, <2>4, <2>5, <2>6, AddTypes DEF AddInv, AddTypeOK, DialogTypes, PostTypes, PageTypes
<1>6. CASE DialogCloses
  <2>1. open' = FALSE /\ listing' = ListAsked /\ UNCHANGED <<opens, projects, addFaults>>
    BY <1>6 DEF DialogCloses, OnClose, Refetches
  <2>2. ListAsked \in [state : {"none", "sent", "answered"}, list : ProjectLists]
        /\ ListAsked.state = "sent"
    BY <1>1 DEF ListAsked
  <2>3. PageTypes'
    BY <1>1, <2>1, <2>2 DEF PageTypes
  <2>4. open' \in BOOLEAN
    BY <2>1
  <2>5. DialogTypes'
    BY <1>1, <1>2, <2>1, <2>4 DEF DialogTypes, dialogState
  <2>6. AskedInv' /\ SpinnerInv'
    BY <1>1, <1>2, <2>1 DEF AskedInv, SpinnerInv, NoEndlessSpinner, serverState
  <2>7. ListedInv'
    BY <2>1, <2>2 DEF ListedInv
  <2> QED
    BY <1>3, <2>3, <2>5, <2>6, <2>7, AddTypes DEF AddInv, AddTypeOK, DialogTypes, PostTypes, PageTypes
<1> QED
  BY <1>4, <1>5, <1>6

\* The dialog opens, and lists organizations and repositories.
LEMMA DialogStep ==
  ASSUME AddAssumption, AddInv,
         \/ Opens \/ Refreshes \/ OrgsArrive \/ TimeIsUp
         \/ \E p \in TabNames : PicksTab(p)
         \/ \E o \in Orgs : ClicksOrg(o)
         \/ \E a \in repoAsks : ReposArrive(a) \/ ReposSettle(a)
  PROVE  AddInv'
<1>1. /\ DialogTypes /\ PostTypes /\ PageTypes /\ AskedInv /\ ListedInv /\ SpinnerInv
      /\ addFaults \in 0 .. MaxAddFaults /\ MaxAddFaults \in Nat /\ asks \in 0 .. MaxAsks
      /\ MaxAsks \in Nat /\ MaxOpens \in Nat /\ opens \in 0 .. MaxOpens
  BY AddTypes DEF AddInv, AddTypeOK, AddAssumption
<1>2. UNCHANGED <<serverState, listing, projects>>
  BY DEF Opens, Refreshes, OrgsArrive, TimeIsUp, PicksTab, AsksOrgs, ClicksOrg, ReposArrive,
         ReposSettle, pageState
<1>3. PostTypes' /\ ListedInv'
  BY <1>1, <1>2, ListedKept DEF PostTypes, serverState, listParts
<1>4. addFaults' \in 0 .. MaxAddFaults
  BY <1>1 DEF Opens, Refreshes, OrgsArrive, TimeIsUp, PicksTab, AsksOrgs, ClicksOrg, ReposArrive,
              ReposSettle, AddFault
<1>5. PageTypes'
  BY <1>1, <1>2, <1>4 DEF PageTypes
<1>6. \A p \in posts : \E q \in posts' : q.by = p.by
  BY <1>2 DEF serverState
<1>7. SUFFICES DialogTypes' /\ AskedInv' /\ SpinnerInv'
  BY <1>3, <1>5, <1>7, AddTypes DEF AddInv, AddTypeOK, DialogTypes, PostTypes, PageTypes
<1>8. CASE Opens
  <2>1. /\ opens' = opens + 1 /\ open' = TRUE /\ addTab' = "github" /\ orgsLoading' = TRUE
        /\ orgs' = FALSE /\ spinning' = TRUE /\ started' = TRUE /\ repos' = NoOrg
        /\ reposLoading' = FALSE /\ UNCHANGED <<repoAsks, asks>> /\ opens < MaxOpens
    BY <1>8 DEF Opens
  <2>2. opens' \in 0 .. MaxOpens /\ opens' # 0
    BY <1>1, <2>1
  <2>3. /\ open' \in BOOLEAN /\ orgsLoading' \in BOOLEAN /\ orgs' \in BOOLEAN
        /\ spinning' \in BOOLEAN /\ started' \in BOOLEAN /\ reposLoading' \in BOOLEAN
    BY <2>1
  <2>4. DialogTypes'
    BY <1>1, <2>1, <2>2, <2>3 DEF DialogTypes, TabNames
  <2>5. AskedInv' /\ SpinnerInv'
    BY <1>1, <1>2, <2>1, <2>2 DEF AskedInv, SpinnerInv, NoEndlessSpinner, serverState
  <2> QED
    BY <2>4, <2>5
<1>9. ASSUME AsksOrgs, addTab' \in TabNames, orgs' \in BOOLEAN, spinning' \in BOOLEAN
      PROVE  DialogTypes' /\ AskedInv' /\ SpinnerInv'
  <2>1. /\ orgsLoading' = TRUE /\ started' = TRUE /\ repos' = NoOrg /\ reposLoading' = FALSE
        /\ UNCHANGED <<opens, open, repoAsks>>
    BY <1>9 DEF AsksOrgs, pageState
  <2>2. asks' \in 0 .. MaxAsks
    BY <1>1, <1>9 DEF AsksOrgs, AskCounted
  <2>3. orgsLoading' \in BOOLEAN /\ started' \in BOOLEAN /\ reposLoading' \in BOOLEAN
    BY <2>1
  <2>4. DialogTypes'
    BY <1>1, <1>9, <2>1, <2>2, <2>3 DEF DialogTypes
  <2>5. AskedInv' /\ SpinnerInv'
    BY <1>1, <1>2, <2>1 DEF AskedInv, SpinnerInv, NoEndlessSpinner, serverState
  <2> QED
    BY <2>4, <2>5
<1>10. CASE Refreshes
  <2>1. spinning' = TRUE /\ AsksOrgs /\ UNCHANGED <<addTab, orgs>>
    BY <1>10 DEF Refreshes
  <2>2. spinning' \in BOOLEAN
    BY <2>1
  <2> QED
    BY <1>1, <1>9, <2>1, <2>2 DEF DialogTypes
<1>11. ASSUME NEW p \in TabNames, PicksTab(p) PROVE DialogTypes' /\ AskedInv' /\ SpinnerInv'
  <2>1. addTab' = p /\ orgs' = FALSE /\ AsksOrgs /\ UNCHANGED spinning
    BY <1>11 DEF PicksTab
  <2>2. orgs' \in BOOLEAN
    BY <2>1
  <2> QED
    BY <1>1, <1>9, <2>1, <2>2 DEF DialogTypes
<1>12. CASE OrgsArrive
  <2>1. /\ open /\ orgsLoading /\ orgsLoading' = FALSE
        /\ UNCHANGED <<opens, open, addTab, spinning, started, repos, reposLoading, repoAsks, asks>>
    BY <1>12 DEF OrgsArrive, pageState
  <2>2. orgsLoading' \in BOOLEAN /\ orgs' \in BOOLEAN
    BY <1>12 DEF OrgsArrive
  <2>3. DialogTypes'
    BY <1>1, <2>1, <2>2 DEF DialogTypes
  <2>4. AskedInv' /\ SpinnerInv'
    BY <1>1, <1>2, <2>1 DEF AskedInv, SpinnerInv, NoEndlessSpinner, Spinner, serverState
  <2> QED
    BY <2>3, <2>4
<1>13. CASE TimeIsUp
  <2>1. /\ ~orgsLoading /\ started' = FALSE /\ spinning' = FALSE
        /\ UNCHANGED <<opens, open, addTab, orgsLoading, orgs, repos, reposLoading, repoAsks, asks>>
    BY <1>13 DEF TimeIsUp, pageState
  <2>2. started' \in BOOLEAN /\ spinning' \in BOOLEAN
    BY <2>1
  <2>3. DialogTypes'
    BY <1>1, <2>1, <2>2 DEF DialogTypes
  <2>4. AskedInv' /\ SpinnerInv'
    BY <1>1, <1>2, <2>1 DEF AskedInv, SpinnerInv, NoEndlessSpinner, Spinner, serverState
  <2> QED
    BY <2>3, <2>4
<1>14. ASSUME NEW o \in Orgs, ClicksOrg(o) PROVE DialogTypes' /\ AskedInv' /\ SpinnerInv'
  <2> DEFINE req == [org |-> o, by |-> opens, answered |-> FALSE]
  <2>1. /\ open /\ reposLoading' = TRUE /\ repoAsks' = repoAsks \cup {req}
        /\ UNCHANGED <<opens, open, addTab, orgsLoading, orgs, spinning, started, repos>>
    BY <1>14 DEF ClicksOrg, pageState
  <2>2. asks' \in 0 .. MaxAsks
    BY <1>1, <1>14 DEF ClicksOrg, AskCounted
  <2>3. opens \in 1 .. MaxOpens
    BY <1>1, <2>1 DEF AskedInv
  <2>4. reposLoading' \in BOOLEAN /\ FALSE \in BOOLEAN
    BY <2>1
  <2>5. req \in RepoAsk /\ req.by = opens
    BY <2>3, <2>4 DEF RepoAsk
  <2> HIDE DEF req
  <2>6. DialogTypes'
    BY <1>1, <2>1, <2>2, <2>4, <2>5 DEF DialogTypes
  <2>7. AskedInv' /\ SpinnerInv'
    BY <1>1, <1>2, <2>1, <2>5 DEF AskedInv, SpinnerInv, NoEndlessSpinner, Spinner, serverState
  <2> QED
    BY <2>6, <2>7
<1>15. ASSUME NEW a \in repoAsks, ReposArrive(a) PROVE DialogTypes' /\ AskedInv' /\ SpinnerInv'
  <2> DEFINE got == [a EXCEPT !.answered = TRUE]
  <2>1. /\ repoAsks' = (repoAsks \ {a}) \cup {got}
        /\ UNCHANGED <<opens, open, addTab, orgsLoading, orgs, spinning, started, reposLoading, asks>>
    BY <1>15 DEF ReposArrive, pageState
  <2>2. a \in RepoAsk
    BY <1>1 DEF DialogTypes
  <2>3. repos' \in Orgs \cup {NoOrg}
    <3>1. a.org \in Orgs /\ repos \in Orgs \cup {NoOrg}
      BY <1>1, <2>2 DEF DialogTypes, RepoAsk
    <3> QED
      BY <1>15, <3>1 DEF ReposArrive
  <2>4. TRUE \in BOOLEAN
    OBVIOUS
  <2>5. got \in RepoAsk /\ got.by = a.by
    BY <2>2, <2>4 DEF RepoAsk
  <2> HIDE DEF got
  <2>6. DialogTypes'
    BY <1>1, <2>1, <2>3, <2>5 DEF DialogTypes
  <2>7. AskedInv' /\ SpinnerInv'
    BY <1>1, <1>2, <2>1, <2>5 DEF AskedInv, SpinnerInv, NoEndlessSpinner, Spinner, serverState
  <2> QED
    BY <2>6, <2>7
<1>16. ASSUME NEW a \in repoAsks, ReposSettle(a) PROVE DialogTypes' /\ AskedInv' /\ SpinnerInv'
  <2>1. /\ repoAsks' = repoAsks \ {a} /\ reposLoading' = (reposLoading /\ ~(open /\ a.by = opens))
        /\ UNCHANGED <<opens, open, addTab, orgsLoading, orgs, spinning, started, repos, asks>>
    BY <1>16 DEF ReposSettle, pageState
  <2>2. reposLoading' \in BOOLEAN
    BY <2>1
  <2>3. DialogTypes'
    BY <1>1, <2>1, <2>2 DEF DialogTypes
  <2>4. AskedInv' /\ SpinnerInv'
    BY <1>1, <1>2, <2>1 DEF AskedInv, SpinnerInv, NoEndlessSpinner, Spinner, serverState
  <2> QED
    BY <2>3, <2>4
<1> QED
  BY <1>8, <1>10, <1>11, <1>12, <1>13, <1>14, <1>15, <1>16

\* A repository is posted, and the answer comes.
LEMMA PostStep ==
  ASSUME AddAssumption, AddInv,
         \/ \E r \in Repos : ClicksRepo(r)
         \/ \E p \in posts : PostServed(p) \/ PostAnswered(p)
  PROVE  AddInv'
<1>1. /\ DialogTypes /\ PostTypes /\ PageTypes /\ AskedInv /\ ListedInv /\ SpinnerInv
      /\ addFaults \in 0 .. MaxAddFaults /\ MaxAddFaults \in Nat
      /\ opens \in 0 .. MaxOpens /\ MaxOpens \in Nat /\ heard \subseteq added
  BY AddTypes DEF AddInv, AddTypeOK, AddAssumption
<1>2. ASSUME NEW r \in Repos, ClicksRepo(r) PROVE AddInv'
  <2>1. /\ open /\ spinning' = TRUE /\ started' = TRUE
        /\ UNCHANGED <<pageState, addTab, orgsLoading, orgs, repos, reposLoading, repoAsks, asks,
                       added, heard, addFaults>>
    BY <1>2 DEF ClicksRepo
  <2>2. PICK n \in 1 .. MaxPosts :
          posts' = posts \cup {[repo |-> r, by |-> opens, nth |-> n, state |-> "sent"]}
    BY <1>2 DEF ClicksRepo
  <2> DEFINE post == [repo |-> r, by |-> opens, nth |-> n, state |-> "sent"]
  <2>3. opens \in 1 .. MaxOpens
    BY <1>1, <2>1 DEF AskedInv
  <2>4. post \in Post /\ post.by = opens /\ post.state = "sent"
    BY <2>3 DEF Post
  <2>5. posts' = posts \cup {post}
    BY <2>2
  <2> HIDE DEF post
  <2>6. PostTypes' /\ PageTypes'
    BY <1>1, <2>1, <2>4, <2>5 DEF PostTypes, PageTypes, pageState
  <2>7. spinning' \in BOOLEAN /\ started' \in BOOLEAN
    BY <2>1
  <2>8. DialogTypes'
    BY <1>1, <2>1, <2>7 DEF DialogTypes, pageState
  <2>9. AskedInv' /\ SpinnerInv'
    BY <1>1, <2>1, <2>4, <2>5 DEF AskedInv, SpinnerInv, NoEndlessSpinner, Spinner, pageState
  <2>10. ListedInv'
    BY <1>1, <2>1, ListedKept DEF listParts, pageState
  <2> QED
    BY <2>6, <2>8, <2>9, <2>10, AddTypes DEF AddInv, AddTypeOK, DialogTypes, PostTypes, PageTypes
<1>3. ASSUME NEW p \in posts, PostServed(p) PROVE AddInv'
  <2>1. UNCHANGED <<pageState, dialogState, heard>>
    BY <1>3 DEF PostServed
  <2>2. PICK state \in {"ok", "error"} :
          /\ posts' = (posts \ {p}) \cup {[p EXCEPT !.state = state]}
          /\ \/ state = "ok" /\ Makes(p.repo) /\ UNCHANGED addFaults
             \/ state = "error" /\ p.repo \in added /\ Indexed(p.repo)
                /\ UNCHANGED <<added, addFaults>>
             \/ state = "error" /\ AddFault /\ Makes(p.repo)
             \/ state = "error" /\ AddFault /\ UNCHANGED added
    BY <1>3 DEF PostServed
  <2> DEFINE done == [p EXCEPT !.state = state]
  <2>3. p \in Post /\ p.repo \in Repos
    BY <1>1 DEF PostTypes, Post
  <2>4. done \in Post /\ done.by = p.by /\ done.repo = p.repo /\ done.state = state
    BY <2>3 DEF Post
  <2>5. added' \in SUBSET Repos /\ added \subseteq added' /\ (state = "ok" => p.repo \in added')
    BY <1>1, <2>2, <2>3 DEF Makes, PostTypes
  <2>6. addFaults' \in 0 .. MaxAddFaults
    BY <1>1, <2>2 DEF AddFault
  <2>7. posts' = (posts \ {p}) \cup {done}
    BY <2>2
  <2> HIDE DEF done
  <2>8. PostTypes'
    BY <1>1, <2>1, <2>4, <2>5, <2>7 DEF PostTypes
  <2>9. PageTypes' /\ DialogTypes'
    BY <1>1, <2>1, <2>6 DEF PageTypes, DialogTypes, pageState, dialogState
  <2>10. AskedInv'
    BY <1>1, <2>1, <2>4, <2>5, <2>7 DEF AskedInv, pageState
  <2>11. SpinnerInv'
    <3>1. \A q \in posts : \E s \in posts' : s.by = q.by
      BY <2>4, <2>7
    <3> QED
      BY <1>1, <2>1, <3>1, SpinnerKept DEF dialogParts, pageState, dialogState
  <2>12. ListedInv'
    BY <1>1, <2>1, ListedKept DEF listParts, pageState
  <2> QED
    BY <2>8, <2>9, <2>10, <2>11, <2>12, AddTypes
       DEF AddInv, AddTypeOK, DialogTypes, PostTypes, PageTypes
<1>4. ASSUME NEW p \in posts, PostAnswered(p) PROVE AddInv'
  <2>1. /\ posts' = posts \ {p} /\ p.state # "sent"
        /\ UNCHANGED <<addTab, orgsLoading, orgs, repos, reposLoading, repoAsks, asks, added,
                       addFaults>>
    BY <1>4 DEF PostAnswered
  <2>2. CASE p.state = "ok"
    <3>1. /\ heard' = heard \cup {p.repo} /\ open' = FALSE /\ listing' = ListAsked
          /\ UNCHANGED <<opens, projects, spinning, started>>
      BY <1>4, <2>2 DEF PostAnswered, OnClose, Refetches
    <3>2. p.repo \in added
      BY <1>1, <2>2 DEF AskedInv
    <3>3. ListAsked \in [state : {"none", "sent", "answered"}, list : ProjectLists]
          /\ ListAsked.state = "sent"
      BY DEF ListAsked, NoList, ProjectLists
    <3>4. open' \in BOOLEAN
      BY <3>1
    <3>5. PostTypes' /\ PageTypes'
      BY <1>1, <2>1, <3>1, <3>2, <3>3 DEF PostTypes, PageTypes
    <3>6. DialogTypes'
      BY <1>1, <2>1, <3>1, <3>4 DEF DialogTypes
    <3>7. AskedInv' /\ SpinnerInv' /\ ListedInv'
      BY <1>1, <2>1, <3>1, <3>3 DEF AskedInv, SpinnerInv, NoEndlessSpinner, ListedInv
    <3> QED
      BY <3>5, <3>6, <3>7, AddTypes DEF AddInv, AddTypeOK, DialogTypes, PostTypes, PageTypes
  <2>3. CASE p.state # "ok"
    <3>1. UNCHANGED <<pageState, heard>>
      BY <1>4, <2>3 DEF PostAnswered
    <3>2. /\ open /\ p.by = opens => spinning' = FALSE /\ started' = orgsLoading
          /\ ~(open /\ p.by = opens) => UNCHANGED <<spinning, started>>
      BY <1>4, <2>3 DEF PostAnswered
    <3>3. spinning' \in BOOLEAN /\ started' \in BOOLEAN
      BY <1>1, <3>2 DEF DialogTypes
    <3>4. PostTypes' /\ PageTypes' /\ DialogTypes'
      BY <1>1, <2>1, <3>1, <3>3 DEF PostTypes, PageTypes, DialogTypes, pageState
    <3>5. AskedInv'
      BY <1>1, <2>1, <3>1 DEF AskedInv, pageState
    <3>6. SpinnerInv'
      BY <1>1, <2>1, <3>1, <3>2 DEF SpinnerInv, NoEndlessSpinner, Spinner, pageState
    <3>7. ListedInv'
      BY <1>1, <2>1, <3>1, ListedKept DEF listParts, pageState
    <3> QED
      BY <3>4, <3>5, <3>6, <3>7, AddTypes
         DEF AddInv, AddTypeOK, DialogTypes, PostTypes, PageTypes
  <2> QED
    BY <2>2, <2>3
<1> QED
  BY <1>2, <1>3, <1>4

\* The page of the projects and its dialog are consistent, and stay so.
THEOREM AddInvariance == ASSUME AddAssumption PROVE AddSpec => []AddInv
<1>1. AddInit => AddInv
  <2> SUFFICES ASSUME AddInit PROVE AddInv
    OBVIOUS
  <2>1. /\ open \in BOOLEAN /\ orgsLoading \in BOOLEAN /\ orgs \in BOOLEAN /\ spinning \in BOOLEAN
        /\ started \in BOOLEAN /\ reposLoading \in BOOLEAN
    BY DEF AddInit
  <2>2. opens \in 0 .. MaxOpens /\ asks \in 0 .. MaxAsks /\ addFaults \in 0 .. MaxAddFaults
    BY DEF AddInit, AddAssumption
  <2>3. /\ ListAsked \in [state : {"none", "sent", "answered"}, list : ProjectLists]
        /\ ListAsked.state = "sent" /\ NoList \in ProjectLists
    BY DEF ListAsked, NoList, ProjectLists
  <2>4. AddTypeOK
    BY <2>1, <2>2, <2>3 DEF AddInit, AddTypeOK, TabNames
  <2>5. AskedInv /\ ListedInv /\ SpinnerInv
    BY <2>3 DEF AddInit, AskedInv, ListedInv, SpinnerInv, NoEndlessSpinner, Spinner
  <2> QED
    BY <2>4, <2>5 DEF AddInv
<1>2. AddInv /\ [AddNext]_addVars => AddInv'
  <2>1. ASSUME AddInv, UNCHANGED addVars PROVE AddInv'
    BY <2>1 DEF addVars, AddInv, AddTypeOK, AskedInv, ListedInv, SpinnerInv, NoEndlessSpinner,
                Spinner
  <2> QED
    BY <2>1, ListStep, DialogStep, PostStep DEF AddNext
<1> QED
  BY <1>1, <1>2, PTL DEF AddSpec

----------------------------------------------------------------------------
(***************************************************************************)
(* The composition: a behaviour of Parts is a behaviour of every part, so  *)
(* that what was proved of the parts holds of it.                          *)
(***************************************************************************)

\* A part that is not on stands still, and stuttering is a step of every part.
LEMMA StepOfParts ==
  ASSUME [Next]_vars
  PROVE  /\ [CaptureNext]_captureVars /\ [UploadNext]_uploadVars /\ [ReviewNext]_reviewVars
         /\ [NetNext]_netVars /\ [RetNext]_retVars /\ [CacheNext]_cacheVars /\ [FinNext]_finVars
         /\ [PageNext]_pageVars /\ [SignNext]_signVars /\ [InstNext]_instVars
         /\ [TeleNext]_teleVars /\ [DialogNext]_dialogVars /\ [ProjectNext]_projectVars
         /\ [AddNext]_addVars
BY DEF Next, vars

\* A behaviour of the composition is one of every part.
LEMMA PartsRefined ==
  Spec => /\ CaptureSpec /\ UploadSpec /\ ReviewSpec /\ NetSpec /\ RetSpec /\ CacheSpec /\ FinSpec
          /\ PageSpec /\ SignSpec /\ InstSpec /\ TeleSpec /\ DialogSpec /\ ProjectSpec /\ AddSpec
<1>1. Init => /\ CaptureInit /\ UploadInit /\ ReviewInit /\ NetInit /\ RetInit /\ CacheInit
              /\ FinInit /\ PageInit /\ SignInit /\ InstInit /\ TeleInit /\ DialogInit
              /\ ProjectInit /\ AddInit
  BY DEF Init
<1> QED
  BY <1>1, StepOfParts, PTL
     DEF Spec, CaptureSpec, UploadSpec, ReviewSpec, NetSpec, RetSpec, CacheSpec, FinSpec,
         PageSpec, SignSpec, InstSpec, TeleSpec, DialogSpec, ProjectSpec, AddSpec

\* The state of the part that is on is of its type, for all values of the constants.
THEOREM PartsTypeCorrect == ASSUME PartsAssumption PROVE Spec => []TypeOK
<1>1. CaptureSpec => []CaptureTypeOK
  <2>1. CaptureInv => CaptureTypeOK
    BY DEF CaptureInv
  <2> QED
    BY <2>1, CaptureInvariance, PTL DEF PartsAssumption
<1>2. (UploadSpec => []UploadTypeOK) /\ (ReviewSpec => []ReviewTypeOK)
  BY UploadTypeCorrect, ReviewTypeCorrect DEF PartsAssumption
<1>3. (NetSpec => []NetTypeOK) /\ (CacheSpec => []CacheTypeOK) /\ (FinSpec => []FinTypeOK)
      /\ (InstSpec => []InstTypeOK)
  BY NetTypeCorrect, CacheTypeCorrect, FinalizeTypeCorrect, SyncTypeCorrect DEF PartsAssumption
<1>4. RetSpec => []RetTypeOK
  <2>1. RetInv => RetTypeOK
    BY DEF RetInv
  <2> QED
    BY <2>1, RetentionInvariance, PTL DEF PartsAssumption
<1>5. SignSpec => []SignTypeOK
  <2>1. SignInv => SignTypeOK
    BY DEF SignInv
  <2> QED
    BY <2>1, SignInvariance, PTL DEF PartsAssumption
<1>6. (PageSpec => []BuildPageInv) /\ (TeleSpec => []TeleInv)
  BY BuildPageInvariance, GaugeInvariance DEF PartsAssumption
<1>7. (DialogSpec => []DialogInv) /\ (ProjectSpec => []ProjectInv) /\ (AddSpec => []AddInv)
  BY DialogInvariance, ProjectInvariance, AddInvariance DEF PartsAssumption
<1>8. BuildPageInv /\ TeleInv /\ DialogInv /\ ProjectInv /\ AddInv
        => PageTypeOK /\ TeleTypeOK /\ DialogTypeOK /\ ProjectTypeOK /\ AddTypeOK
  BY DEF BuildPageInv, TeleInv, DialogInv, ProjectInv, AddInv
<1>9. /\ CaptureTypeOK /\ UploadTypeOK /\ ReviewTypeOK /\ NetTypeOK /\ RetTypeOK /\ CacheTypeOK
      /\ FinTypeOK /\ SignTypeOK /\ InstTypeOK /\ TeleTypeOK
      /\ PageTypeOK /\ DialogTypeOK /\ ProjectTypeOK /\ AddTypeOK
    => TypeOK
  BY DEF TypeOK
<1> QED
  BY <1>1, <1>2, <1>3, <1>4, <1>5, <1>6, <1>7, <1>8, <1>9, PartsRefined, PTL

\* The pages come to show what is there, whatever happens meanwhile (TestResultDialog.tsx,
\* project.tsx, projects.tsx, NewProjectDialog.tsx).
THEOREM PagesAreRight == ASSUME PartsAssumption PROVE Spec => []PagesKeepUp
<1>1. (DialogSpec => []DialogInv) /\ (ProjectSpec => []ProjectInv) /\ (AddSpec => []AddInv)
  BY DialogInvariance, ProjectInvariance, AddInvariance DEF PartsAssumption
<1>2. DialogInv /\ ProjectInv /\ AddInv => PagesKeepUp
  <2>1. DialogInv => ViewFits /\ BrokenIsOwn
    BY DialogIsRight DEF PartsAssumption
  <2>2. ProjectInv => ListIsWhole /\ TokenIsLive
    BY ProjectKeepsUp DEF PartsAssumption
  <2>3. AddInv => CreatedIsListed /\ NoEndlessSpinner
    BY AddKeepsUp
  <2> QED
    BY <2>1, <2>2, <2>3 DEF PagesKeepUp
<1> QED
  BY <1>1, <1>2, PartsRefined, PTL

\* No late answer takes the place of a younger one (useApiGet.tsx, metrics.ts).
THEOREM AnswersGoForward == ASSUME PartsAssumption PROVE Spec => AnswersNeverGoBack
<1>1. PageSpec => NeverBackwards
  BY PageForward DEF PartsAssumption
<1>2. TeleSpec => GaugeNeverGoesBack
  BY GaugeForward DEF PartsAssumption
<1> QED
  BY <1>1, <1>2, PartsRefined, PTL DEF AnswersNeverGoBack

================================================================================
