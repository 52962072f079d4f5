--------------------------------- MODULE Parts ---------------------------------
(***************************************************************************)
(* One instance of each part of the system that TaskQueue, ShardedBuild    *)
(* and RenderSession leave as a single step, or do not have: a behaviour   *)
(* is a behaviour of one of them, and the others stay in an initial state. *)
(***************************************************************************)
EXTENDS Uploads, BuildReview, Retention, UploadCache, StoryCapture, StoryFinalize, PageRequests,
        SignIn, Installations, BuildPage, Telemetry, ResultDialog, ProjectPage, AddProject

\* What is assumed of the constants, where the module is instantiated.
PartsAssumption ==
  /\ UploadAssumption /\ ReviewAssumption /\ ArchivesAssumption /\ ShotsAssumption
  /\ RetentionAssumption /\ HistoriesAssumption /\ SignAssumption /\ SyncsAssumption
  /\ CaptureAssumption /\ AsksAssumption /\ PageAssumption /\ TeleAssumption
  /\ DialogAssumption /\ ProjectAssumption /\ AddAssumption

VARIABLE part   \* the part this behaviour is of

vars == <<part, captureVars, uploadVars, reviewVars, netVars, retVars, cacheVars,
          finVars, pageVars, signVars, instVars, teleVars,
          dialogVars, projectVars, addVars>>

\* The parts that are off keep one of their initial states.
Init ==
  /\ part \in {"capture", "upload", "review", "network", "retention", "cache",
               "finalize", "page", "signin", "installs", "telemetry",
              "dialog", "project", "add"}
  /\ CaptureInit /\ (part # "capture" => pageKind = "hooked")
  /\ UploadInit
  /\ part # "upload" => provider = "github" /\ scenario.admin = {} /\ scenario.faults = 0
  /\ ReviewInit
  /\ part # "review" => /\ bound.mishaps = 0 /\ host = "github" /\ path = "inline"
                        /\ \A h \in Handlers : kind[h] = "review" /\ given[h] = "denied"
  /\ NetInit /\ (part # "network" => egress = "off")
  /\ RetInit /\ (part # "retention" => history = CHOOSE h \in Histories : TRUE)
  /\ CacheInit
  /\ FinInit /\ (part # "finalize" => baseline = "none")
  /\ PageInit /\ (part # "page" => session = "none")
  /\ SignInit
  /\ part # "signin" => /\ identity = "github"
                        /\ \A t \in Tabs : tab[t].asked = Elsewhere /\ tab[t].who = "ann"
  /\ InstInit
  /\ TeleInit /\ (part # "telemetry" => beat = 0)
  /\ DialogInit /\ AddInit
  /\ ProjectInit /\ (part # "project" => newest = 0)

Next ==
  /\ UNCHANGED part
  /\ IF part = "capture" THEN CaptureNext ELSE UNCHANGED captureVars
  /\ IF part = "upload" THEN UploadNext ELSE UNCHANGED uploadVars
  /\ IF part = "review" THEN ReviewNext ELSE UNCHANGED reviewVars
  /\ IF part = "network" THEN NetNext ELSE UNCHANGED netVars
  /\ IF part = "retention" THEN RetNext ELSE UNCHANGED retVars
  /\ IF part = "cache" THEN CacheNext ELSE UNCHANGED cacheVars
  /\ IF part = "finalize" THEN FinNext ELSE UNCHANGED finVars
  /\ IF part = "page" THEN PageNext ELSE UNCHANGED pageVars
  /\ IF part = "signin" THEN SignNext ELSE UNCHANGED signVars
  /\ IF part = "installs" THEN InstNext ELSE UNCHANGED instVars
  /\ IF part = "telemetry" THEN TeleNext ELSE UNCHANGED teleVars
  /\ IF part = "dialog" THEN DialogNext ELSE UNCHANGED dialogVars
  /\ IF part = "project" THEN ProjectNext ELSE UNCHANGED projectVars
  /\ IF part = "add" THEN AddNext ELSE UNCHANGED addVars

Spec == Init /\ [][Next]_vars

----------------------------------------------------------------------------
(* Properties: those of the parts, under one name where two say one thing. *)

\* The state of the part that is on is of its type.
TypeOK ==
  /\ part = "capture" => CaptureTypeOK
  /\ part = "upload" => UploadTypeOK
  /\ part = "review" => ReviewTypeOK
  /\ part = "network" => NetTypeOK
  /\ part = "retention" => RetTypeOK
  /\ part = "cache" => CacheTypeOK
  /\ part = "finalize" => FinTypeOK
  /\ part = "signin" => SignTypeOK
  /\ part = "installs" => InstTypeOK
  /\ part = "telemetry" => TeleTypeOK
  /\ part = "page" => PageTypeOK
  /\ part = "dialog" => DialogTypeOK
  /\ part = "project" => ProjectTypeOK
  /\ part = "add" => AddTypeOK

\* No late answer takes the place of a younger one: not on the build page (useApiGet.tsx), and
\* not in the gauge of the queue (metrics.ts).
AnswersNeverGoBack == NeverBackwards /\ GaugeNeverGoesBack

\* Whatever is clicked, polled, uploaded or closed meanwhile, the pages come to show what is there:
\* a result in a view it has, a list without holes, a token that works, a project that was added,
\* and no spinner for ever (TestResultDialog.tsx, project.tsx, projects.tsx, NewProjectDialog.tsx).
PagesKeepUp ==
  /\ ViewFits /\ BrokenIsOwn /\ ListIsWhole /\ TokenIsLive
  /\ CreatedIsListed /\ NoEndlessSpinner

=============================================================================
