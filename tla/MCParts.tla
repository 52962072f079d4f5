-------------------------------- MODULE MCParts --------------------------------
(***************************************************************************)
(* The instance of Parts that TLC checks, and, by MCFormulas, the pure     *)
(* functions, which it evaluates.                                          *)
(***************************************************************************)
EXTENDS Parts, MCFormulas

\* Story b is wider than the others.
PartSizes == [s \in Stories |-> IF s = "b" THEN "l" ELSE "m"]

\* Three uploads at once; two with a failure; one against each way a project goes or changes.
PartScenarios ==
  {[uploads |-> Requests, faults |-> 0, admin |-> {}],
   [uploads |-> {1, 2}, faults |-> 1, admin |-> {}],
   [uploads |-> {1}, faults |-> 1, admin |-> {"create", "remove", "account"}],
   [uploads |-> {1}, faults |-> 1, admin |-> {"remove", "reset"}]}

\* Two handlers and a worker; a handler, the sweeper and a worker that may start over.
PartBounds == {[writers |-> {"ann", "bob"}, starts |-> 1, mishaps |-> 0],
               [writers |-> {"ann", "sweeper"}, starts |-> 2, mishaps |-> 1]}

\* A page, and a worker of it, that fetch from elsewhere, and an image of the page.
PartAsks == {[by |-> "page", api |-> "fetch", to |-> "off"],
             [by |-> "worker", api |-> "fetch", to |-> "off"],
             [by |-> "page", api |-> "resource", to |-> "same"]}

\* Three builds in a row, two of which have the same baseline, or are its own reruns.
PartHistories == {[commit |-> <<"c", "d", "d">>, base |-> <<"none", "c", "c">>],
                  [commit |-> <<"c", "c", "d">>, base |-> <<"none", "none", "c">>],
                  [commit |-> <<"c", "d", "c">>, base |-> <<"none", "c", "d">>]}

\* The archive of upload a is within the limits, that of b is not.
Entry(type, size) == [path |-> "plain", type |-> type, link |-> "plain", size |-> size]
PartArchives == [u \in UploadIds |->
  IF u = "a" THEN <<Entry("File", 1), Entry("Directory", 0)>>
             ELSE <<Entry("File", 1), Entry("File", 2)>>]

\* Equal to the baseline, below a floor, at both floors, and of another width.
PartShots == {[wide |-> FALSE, pixels |-> n] : n \in {0, 1, 3}} \cup {[wide |-> TRUE, pixels |-> 3]}

\* A failure with and without a screenshot, a change with and without a mask, and a result whose
\* baseline could not be read; some images do not load.
Look(status, shots) == [status |-> status, images |-> shots]
ShownLooks == {Look("failed", {}), Look("failed", {"new"}), Look("changed", {"new", "old", "mask"}),
               Look("changed", {"new", "old"}), Look("new", {"new", "old"})}
PartBadImages == {<<1, "new">>, <<2, "old">>, <<1, "mask">>}

\* An organization of each provider.
BothOrgs == {[provider |-> "github", repos |-> {1}], [provider |-> "gitlab", repos |-> {2}]}

\* The constants of the parts are what the parts assume of them.
ASSUME ConstantsFit == PartsAssumption

\* What a capture goes by: a failure counts whatever story it names, and of a capture that has
\* ended only the verdict is read.
Named(e) == IF e.type = "fail" THEN [e EXCEPT !.id = NoStory] ELSE e
CaptureView ==
  <<pageKind, page, {Named(e) : e \in events}, view, cache, abandoned, step, story,
    IF step = "idle" THEN << >> ELSE shotVars, verdict, todo, captureFaults>>

\* The variables of the part that is on tell a state from every other.
View ==
  CASE part = "capture" -> <<part, CaptureView>>
    [] part = "upload" -> <<part, uploadVars>>
    [] part = "review" -> <<part, reviewVars>>
    [] part = "network" -> <<part, netVars>>
    [] part = "retention" -> <<part, retVars>>
    [] part = "cache" -> <<part, cacheVars>>
    [] part = "finalize" -> <<part, finVars>>
    [] part = "page" -> <<part, pageVars>>
    [] part = "signin" -> <<part, signVars>>
    [] part = "installs" -> <<part, instVars>>
    [] part = "telemetry" -> <<part, teleVars>>
    [] part = "dialog" -> <<part, dialogVars>>
    [] part = "project" -> <<part, projectVars>>
    [] part = "add" -> <<part, addVars>>
================================================================================
