---------------------------- MODULE StoryCapture ----------------------------
(***************************************************************************)
(* The captures one browser session makes, story after story, in a page    *)
(* they share (worker/src/stories.ts, storyReady.ts): the navigation or    *)
(* the switch in place, the wait for the story to render, the styling, the *)
(* two viewport fits and the screenshots, against a page that renders on   *)
(* its own time and against commands that fail.                            *)
(***************************************************************************)
EXTENDS Naturals, FiniteSets

CONSTANTS
  Stories, NoStory,
  Sizes, SizeOf,     \* viewport sizes, and the one each story wants
  Broken,            \* stories whose render reports an error
  Silent,            \* stories whose render never completes
  Signal,            \* stories that opt into the ready signal
  Tall,              \* stories whose content outgrows their viewport, at some time
  Late,              \* stories that can throw after they have rendered
  Forced,             \* stories with parameters.vizdiff.forceNavigation
  RefreshEvery,      \* WORKER_NAV_REFRESH_STORIES
  MaxFaults          \* bound on failed commands

\* What is assumed of the constants, where the module is instantiated.
CaptureAssumption ==
  /\ NoStory \notin Stories /\ SizeOf \in [Stories -> Sizes]
  /\ Broken \subseteq Stories /\ Silent \subseteq Stories \ Broken
  /\ Signal \subseteq Stories /\ Tall \subseteq Stories /\ Late \subseteq Stories
  /\ Forced \subseteq Stories /\ RefreshEvery \in Nat
  /\ IsFiniteSet(Stories) /\ MaxFaults \in Nat

VARIABLES
  pageKind,          \* what the page reports: "hooked" events and a phase that name their story,
                     \* "nameless" ones that need not, the "phase" alone, or "nothing"
  page,              \* the document: what it renders and what it has been told
  events,            \* __VIZDIFF_RENDER_STATE__.events
  view,              \* the viewport the browser has
  cache,             \* the worker's SessionCaptureState of the browser
  abandoned,         \* history: a setViewport of this browser timed out, and took effect
  step, story, mode, \* the capture: its step, its story, how it navigated
  measured,          \* content height of the last readiness snapshot
  image,             \* what the final screenshot buffer shows
  moved,             \* the stabilization loop has seen the page change
  skipped,           \* the post-stabilization measure was skipped
  verdict,           \* how the last capture ended
  todo,              \* stories without a result
  captureFaults      \* failed commands

docVars == <<pageKind, page, events>>
shotVars == <<mode, measured, image, moved, skipped>>
captureVars == <<docVars, view, cache, abandoned, step, story, shotVars, verdict, todo,
                 captureFaults>>

Views  == [size : Sizes, tall : BOOLEAN]
NoView == [size |-> "none", tall |-> FALSE]
\* id is the story an event names, if any; of is the one it is about.
Event  == [type : {"ok", "fail"}, id : Stories \cup {NoStory}, of : Stories]
\* target is the story asked for, shown the one currentRender is about; grown: the content
\* of a tall story has its full height; late: stories that can still throw in here.
Documents == [target : Stories \cup {NoStory}, shown : Stories \cup {NoStory},
              phase : {"none", "rendering", "completed", "errored"}, css : BOOLEAN,
              ready : BOOLEAN, grown : BOOLEAN, late : SUBSET Stories]
BlankPage(s) == [target |-> s, shown |-> NoStory, phase |-> "none", css |-> FALSE,
                 ready |-> FALSE, grown |-> FALSE, late |-> {}]
Images == [shown : Stories \cup {NoStory}, phase : {"none", "rendering", "completed", "errored"},
           css : BOOLEAN, grown : BOOLEAN, view : Views \cup {NoView}]
Caches == [view : Views \cup {NoView}, loaded : BOOLEAN, css : BOOLEAN, soft : Nat,
           tainted : BOOLEAN]
NewCache == [view |-> NoView, loaded |-> FALSE, css |-> FALSE, soft |-> 0, tainted |-> FALSE]

\* The kinds with which a story is recorded as failed at once.
ErrorKinds == {"story-error", "render-timeout", "ready-signal-timeout", "unknown"}

CaptureTypeOK ==
  /\ pageKind \in {"hooked", "nameless", "phase", "nothing"} /\ events \in SUBSET Event
  /\ page \in Documents
  /\ view \in Views \cup {NoView}
  /\ cache \in Caches
  /\ abandoned \in BOOLEAN
  /\ step \in {"idle", "viewport", "navigate", "ready", "signal", "style", "fit", "shoot",
               "compare", "measure", "save"}
  /\ story \in Stories \cup {NoStory} /\ mode \in {"hard", "soft"}
  /\ measured \in {"unknown", "fits", "tall"}
  /\ image \in Images /\ moved \in BOOLEAN /\ skipped \in BOOLEAN
  /\ verdict \in {"none", "captured", "infra"} \cup ErrorKinds
  /\ todo \in SUBSET Stories /\ captureFaults \in 0 .. MaxFaults

NoImage == [shown |-> NoStory, phase |-> "none", css |-> FALSE, grown |-> FALSE, view |-> NoView]

CaptureInit ==
  /\ pageKind \in {"hooked", "nameless", "phase", "nothing"} /\ page = BlankPage(NoStory)
  /\ events = {}
  /\ view = NoView /\ cache = NewCache /\ abandoned = FALSE
  /\ step = "idle" /\ story = NoStory /\ mode = "hard" /\ measured = "unknown"
  /\ image = NoImage /\ moved = FALSE /\ skipped = FALSE
  /\ verdict = "none" /\ todo = Stories /\ captureFaults = 0

----------------------------------------------------------------------------
(* The page, on its own time.                                              *)

PageUnchanged == UNCHANGED <<pageKind, view, cache, abandoned, step, story, shotVars, verdict,
                             todo, captureFaults>>
Hooked == pageKind \in {"hooked", "nameless"}
Emit(type, id, of) ==
  events' = IF Hooked THEN events \cup {[type |-> type, id |-> id, of |-> of]} ELSE events

PageStarts ==
  /\ page.target # NoStory /\ page.shown # page.target
  /\ page' = [page EXCEPT !.shown = page.target, !.phase = "rendering", !.grown = FALSE]
  /\ UNCHANGED events /\ PageUnchanged

\* The phase is set first, the event follows; a page without the hook has neither.
PageRenders ==
  /\ page.phase = "rendering" /\ page.shown \notin Silent
  /\ page' = [page EXCEPT !.phase = IF page.shown \in Broken THEN "errored" ELSE "completed",
                          !.late = @ \cup ({page.shown} \cap Late)]
  /\ UNCHANGED events /\ PageUnchanged

\* Once a render, and it may come late, when the page has been asked for another story and
\* still shows the last.
PageEmits ==
  /\ page.phase \in {"completed", "errored"} /\ \A e \in events : e.of # page.shown
  /\ \E id \in {page.shown} \cup (IF pageKind = "nameless" THEN {NoStory} ELSE {}) :
       Emit(IF page.phase = "errored" THEN "fail" ELSE "ok", id, page.shown)
  /\ events' # events
  /\ UNCHANGED page /\ PageUnchanged

\* An exception of a play function or a callback; it need not name its story.
PageThrowsLate(s) ==
  /\ s \in page.late
  /\ \E id \in {s, NoStory} : Emit("fail", id, s)
  /\ page' = [page EXCEPT !.late = @ \ {s}]
  /\ PageUnchanged

PageSignals ==
  /\ page.phase = "completed" /\ page.shown \in Signal /\ ~page.ready
  /\ page' = [page EXCEPT !.ready = TRUE]
  /\ UNCHANGED events /\ PageUnchanged

PageGrows ==
  /\ page.phase = "completed" /\ page.shown \in Tall /\ ~page.grown
  /\ page' = [page EXCEPT !.grown = TRUE]
  /\ UNCHANGED events /\ PageUnchanged

----------------------------------------------------------------------------
(* Commands that fail.                                                     *)

Ends(v) == step' = "idle" /\ verdict' = v
Failed(v) == Ends(v) /\ cache' = [cache EXCEPT !.tainted = TRUE]

\* A story is recorded as failed at once: it is not tried again.
Recorded(kind) == Failed(kind) /\ todo' = todo \ {story}

\* A command, or the writing of a file, fails.  The message of its error decides whose it is:
\* the harness's, and the story is retried, or nobody's that is known, and it is recorded.
CommandFails ==
  /\ step # "idle" /\ captureFaults < MaxFaults /\ captureFaults' = captureFaults + 1
  /\ step = "measure" => page.grown /\ measured # "tall"
  /\ \/ step # "save" /\ Failed("infra") /\ UNCHANGED todo
     \/ Recorded("unknown")
  /\ UNCHANGED <<docVars, view, abandoned, story, shotVars>>

\* The pool gives the slot a new browser: nothing of the old one is remembered.
BrowserReplaced ==
  /\ step = "idle" /\ cache # NewCache
  /\ page' = BlankPage(NoStory) /\ events' = {} /\ view' = NoView /\ cache' = NewCache
  /\ abandoned' = FALSE /\ verdict' = "none"
  /\ UNCHANGED <<pageKind, step, story, shotVars, todo, captureFaults>>

\* setViewportCached: skipped when the cache says so, and cached once it has succeeded.
SetViewport(v) ==
  IF cache.view = v THEN UNCHANGED <<view, cache>>
                    ELSE view' = v /\ cache' = [cache EXCEPT !.view = v]

\* It takes effect, but its answer comes after the command has timed out.
ViewportAbandoned(v) ==
  /\ cache.view # v /\ captureFaults < MaxFaults /\ captureFaults' = captureFaults + 1
  /\ view' = v /\ abandoned' = TRUE /\ Failed("infra")

----------------------------------------------------------------------------
(* A capture.                                                              *)

Plain(s) == [size |-> SizeOf[s], tall |-> FALSE]
Fitted(s) == [size |-> SizeOf[s], tall |-> TRUE]

Begin(s) ==
  /\ step = "idle" /\ s \in todo
  /\ story' = s /\ step' = "viewport" /\ verdict' = "none"
  /\ mode' = "hard" /\ measured' = "unknown" /\ image' = NoImage
  /\ moved' = FALSE /\ skipped' = FALSE
  /\ UNCHANGED <<docVars, view, cache, abandoned, todo, captureFaults>>

SetsViewport ==
  /\ step = "viewport"
  /\ \/ /\ SetViewport(Plain(story)) /\ step' = "navigate"
        /\ UNCHANGED <<abandoned, verdict, captureFaults>>
     \/ ViewportAbandoned(Plain(story))
  /\ UNCHANGED <<docVars, story, shotVars, todo>>

SoftEligible ==
  /\ cache.loaded /\ ~cache.tainted /\ story \notin Forced
  /\ RefreshEvery = 0 \/ cache.soft < RefreshEvery

\* switchToStory: re-arm the render state, then emit setCurrentStory.
SwitchesInPlace ==
  /\ step = "navigate" /\ SoftEligible /\ Hooked
  /\ events' = {} /\ page' = [page EXCEPT !.target = story, !.ready = FALSE]
  /\ cache' = [cache EXCEPT !.soft = @ + 1]
  /\ mode' = "soft" /\ step' = "ready"
  /\ UNCHANGED <<pageKind, view, abandoned, story, measured, image, moved, skipped, verdict,
                 todo, captureFaults>>

\* Mistake: the mark of the style outlives the document.
HardNavigateStyled ==
  /\ page' = BlankPage(story) /\ events' = {} /\ mode' = "hard" /\ step' = "ready"
  /\ cache' = [cache EXCEPT !.loaded = TRUE, !.soft = 0, !.tainted = FALSE]
  /\ UNCHANGED <<pageKind, view, abandoned, story, measured, image, moved, skipped, captureFaults>>

\* A new document.
HardNavigate ==
  /\ page' = BlankPage(story) /\ events' = {} /\ mode' = "hard" /\ step' = "ready"
  /\ cache' = [cache EXCEPT !.loaded = TRUE, !.soft = 0, !.css = FALSE, !.tainted = FALSE]
  /\ UNCHANGED <<pageKind, view, abandoned, story, measured, image, moved, skipped, captureFaults>>

Navigates ==
  /\ step = "navigate" /\ ~(SoftEligible /\ Hooked)
  /\ HardNavigate /\ UNCHANGED <<verdict, todo>>

\* What the readiness snapshot says of the story.  What does not name a story counts as its
\* own, except that after a switch in place a completed phase has to name it.
Phase == IF pageKind = "nothing" THEN "none" ELSE page.phase
PhaseId == IF pageKind = "nameless" THEN NoStory ELSE page.shown
ReportsFailure ==
  \/ \E e \in events : e.type = "fail"
  \/ Phase = "errored" /\ (mode = "hard" \/ PhaseId \in {NoStory, story})
ReportsSuccess ==
  \/ \E e \in events : e.type = "ok" /\ e.id \in {NoStory, story}
  \/ Phase = "completed" /\ PhaseId \in {story} \cup (IF mode = "hard" THEN {NoStory} ELSE {})
Height == IF page.grown THEN "tall" ELSE "fits"

\* The story failed, or did not become ready in time: a soft switch gets one hard retry.
NotReady(kind) ==
  IF mode = "soft" THEN HardNavigate /\ UNCHANGED <<verdict, todo>>
  ELSE /\ Recorded(kind)
       /\ UNCHANGED <<docVars, view, abandoned, story, shotVars, captureFaults>>

ReadyFails   == step = "ready" /\ ReportsFailure /\ NotReady("story-error")
\* A render that completes does so within the timeout.
ReadyExpires == step = "ready" /\ ~ReportsFailure /\ ~ReportsSuccess /\ pageKind # "nothing"
                /\ story \in Silent /\ NotReady("render-timeout")

\* Five seconds without any signal from a fresh document: the legacy delay.
Degrades ==
  /\ step = "ready" /\ mode = "hard" /\ pageKind = "nothing" /\ step' = "style"
  /\ UNCHANGED <<docVars, view, cache, abandoned, story, shotVars, verdict, todo, captureFaults>>

ReadySucceeds ==
  /\ step = "ready" /\ ~ReportsFailure /\ ReportsSuccess
  /\ measured' = Height
  /\ step' = IF story \in Signal THEN "signal" ELSE "style"
  /\ UNCHANGED <<docVars, view, cache, abandoned, story, mode, image, moved, skipped, verdict,
                 todo, captureFaults>>

SignalSet ==
  /\ step = "signal" /\ page.ready /\ step' = "style"
  /\ UNCHANGED <<docVars, view, cache, abandoned, story, shotVars, verdict, todo, captureFaults>>
SignalExpires == step = "signal" /\ ~page.ready /\ NotReady("ready-signal-timeout")

Styles ==
  /\ step = "style" /\ step' = "fit"
  /\ IF cache.css THEN UNCHANGED <<page, cache>>
     ELSE page' = [page EXCEPT !.css = TRUE] /\ cache' = [cache EXCEPT !.css = TRUE]
  /\ UNCHANGED <<pageKind, events, view, abandoned, story, shotVars, verdict, todo, captureFaults>>

\* adjustViewportForStory: content that fits needs no command, content of unknown height is
\* given the story's own viewport.
FitsViewport ==
  /\ step = "fit"
  /\ LET v == IF measured = "tall" THEN Fitted(story) ELSE Plain(story) IN
     \/ /\ IF measured = "fits" THEN UNCHANGED <<view, cache>> ELSE SetViewport(v)
        /\ step' = "shoot" /\ UNCHANGED <<abandoned, verdict, captureFaults>>
     \/ measured # "fits" /\ ViewportAbandoned(v)
  /\ UNCHANGED <<docVars, story, shotVars, todo>>

PageShot == [shown |-> page.shown, phase |-> page.phase, css |-> page.css, grown |-> page.grown,
         view |-> view]

Shoots ==
  /\ step = "shoot" /\ image' = PageShot /\ step' = "compare"
  /\ UNCHANGED <<docVars, view, cache, abandoned, story, mode, measured, moved, skipped, verdict,
                 todo, captureFaults>>

\* Two shots compare equal; what has grown below the fold need not show.
LooksSame == image = PageShot \/ (~view.tall /\ image = [PageShot EXCEPT !.grown = image.grown])

ShotMoves ==
  /\ step = "compare" /\ ~LooksSame /\ image' = PageShot /\ moved' = TRUE
  /\ UNCHANGED <<docVars, view, cache, abandoned, step, story, mode, measured, skipped, verdict,
                 todo, captureFaults>>

\* The loop ends: the shots are equal, or the time is used up, or a shot failed.
Stabilizes ==
  /\ step = "compare"
  /\ \/ /\ LooksSame /\ skipped' = (~moved /\ measured = "fits") /\ image' = PageShot
        /\ UNCHANGED captureFaults
     \/ ~LooksSame /\ skipped' = FALSE /\ image' = PageShot /\ UNCHANGED captureFaults
     \/ /\ skipped' = FALSE /\ captureFaults < MaxFaults /\ captureFaults' = captureFaults + 1
        /\ UNCHANGED image
  /\ step' = IF skipped' THEN "save" ELSE "measure"
  /\ UNCHANGED <<docVars, view, cache, abandoned, story, mode, measured, moved, verdict, todo>>

\* The authoritative pass: it only grows the viewport, and then shoots again.  A measure or
\* a shot that fails leaves the image as it is.
Refits ==
  /\ step = "measure"
  /\ \/ /\ ~page.grown \/ measured = "tall"
        /\ step' = "save" /\ UNCHANGED <<view, cache, image, abandoned, verdict, captureFaults>>
     \/ /\ captureFaults < MaxFaults /\ captureFaults' = captureFaults + 1
        /\ step' = "save" /\ UNCHANGED <<view, cache, image, abandoned, verdict>>
     \/ /\ page.grown /\ measured # "tall"
        /\ SetViewport(Fitted(story)) /\ step' = "save"
        /\ \/ image' = [PageShot EXCEPT !.view = view'] /\ UNCHANGED captureFaults
           \/ UNCHANGED image /\ captureFaults < MaxFaults /\ captureFaults' = captureFaults + 1
        /\ UNCHANGED <<abandoned, verdict>>
     \/ /\ page.grown /\ measured # "tall"
        /\ ViewportAbandoned(Fitted(story)) /\ UNCHANGED image
  /\ UNCHANGED <<docVars, story, mode, measured, moved, skipped, todo>>

Saves ==
  /\ step = "save" /\ Ends("captured") /\ todo' = todo \ {story}
  /\ UNCHANGED <<docVars, view, cache, abandoned, story, shotVars, captureFaults>>

Page ==
  \/ PageStarts \/ PageRenders \/ PageEmits \/ PageSignals \/ PageGrows
  \/ \E s \in Stories : PageThrowsLate(s)
Capture ==
  \/ SetsViewport \/ SwitchesInPlace \/ Navigates \/ ReadyFails \/ ReadyExpires
  \/ Degrades \/ ReadySucceeds \/ SignalSet \/ SignalExpires \/ Styles \/ FitsViewport \/ Shoots
  \/ ShotMoves \/ Stabilizes \/ Refits \/ Saves
CaptureNext ==
  \/ Page \/ Capture \/ CommandFails \/ BrowserReplaced
  \/ \E s \in Stories : Begin(s)

CaptureSpec == CaptureInit /\ [][CaptureNext]_captureVars

----------------------------------------------------------------------------
(* Properties.                                                             *)

\* After the switch to the story an event has come that says some story is rendered, does not
\* say which, and is about another: the code takes it for the story's (storyReady.ts:402-406).
Misled == \E e \in events : e.type = "ok" /\ e.id = NoStory /\ e.of # story

\* What is saved as a story's screenshot shows that story, rendered and styled, whatever the
\* stories before it left in the page (switchToStory, waitForStoryReady, cssInjected), unless
\* the wait for it was misled.
ShotIsOwn ==
  step = "save" => /\ image.css
                   /\ pageKind # "nothing" /\ ~Misled =>
                        image.shown = story /\ image.phase = "completed"

\* Only a switch in place, in a page whose events need not name their story, is ever misled.
MisledInPlace == step = "save" /\ Misled => mode = "soft" /\ pageKind = "nameless"

\* It is taken in the story's viewport, or that viewport grown for its own content, though
\* setViewport is skipped whenever the cache matches; unless a setViewport of this browser timed
\* out and took effect all the same, which the cache does not know of (stories.ts:113-114).
ShotSized ==
  step = "save" /\ ~abandoned =>
    /\ image.view.size = SizeOf[story]
    /\ image.view.tall /\ ~Misled => story \in Tall

\* A failure that is recorded as a story's error or timeout is that story's doing: an exception
\* an earlier story throws into the shared page costs a navigation, not a result.  Of a failure
\* recorded as "unknown" nothing is claimed: a command failed with an error that is not
\* recognised, and the story pays for it (errorClassify.ts:105-106).
BlamesOnlyOwn ==
  /\ verdict = "story-error" => story \in Broken \cup Late
  /\ verdict = "render-timeout" => story \in Silent
  /\ verdict = "ready-signal-timeout" => story \in Signal

\* What is recorded of a story, a screenshot or an error or timeout of its own, is that story's,
\* in its viewport, though it shares its page with the stories before it (stories.ts).
CapturesAreOwn == ShotIsOwn /\ MisledInPlace /\ ShotSized /\ BlamesOnlyOwn
=============================================================================
