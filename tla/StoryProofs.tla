---------------------------- MODULE StoryProofs ----------------------------
(***************************************************************************)
(* Proofs about the two halves of a story's run: a screenshot is that of   *)
(* its story, rendered, styled and in its viewport, unless the wait for it *)
(* was misled, and a story is blamed for an error or a timeout only when   *)
(* it was its own (StoryCapture); and the verdict that is recorded is on   *)
(* the images beside it (StoryFinalize).                                   *)
(***************************************************************************)
EXTENDS StoryCapture, StoryFinalize, TLAPS

----------------------------------------------------------------------------
(***************************************************************************)
(* StoryCapture: for any stories, viewports and page, and any faults.      *)
(* The argument follows a capture.  Once it has navigated, the page has    *)
(* been asked for its story and for no other (OpenedInv), so that an event *)
(* that is about the story, or its phase, is evidence of a rendered story  *)
(* which no later step of the page takes back (RenderedInv).  An event     *)
(* that names nobody need not be about the story: it is, in a document of  *)
(* the story's own, and may not be after a switch in place; from then on   *)
(* the capture is Misled and what it shows is not known.  The worker's     *)
(* caches of what it has told the browser, the viewport and the style, are *)
(* right, or the session has seen a command time out (CachesInv); and so   *)
(* is what is shot (FramedInv, ShotInv).                                   *)
(***************************************************************************)

\* The steps of a capture after its navigation; after its readiness; with a screenshot.
Opened   == {"ready", "signal", "style", "fit", "shoot", "compare", "measure", "save"}
Rendered == Opened \ {"ready"}
Imaged   == {"compare", "measure", "save"}

\* A page is about a story once it renders; what it reports and grows is that story's, and an
\* event that names a story names the one it is about.
PageInv ==
  /\ page.phase # "none" => page.shown \in Stories
  /\ page.phase = "errored" => page.shown \in Broken
  /\ page.grown => page.shown \in Tall
  /\ page.late \subseteq Late
  /\ events # {} => Hooked
  /\ \A e \in events : /\ e.type = "fail" => e.of \in Broken \cup Late
                       /\ e.type = "ok" => e.id = e.of \/ (e.id = NoStory /\ pageKind = "nameless")

\* What the worker remembers of the browser is so.
CachesInv ==
  /\ cache.css => page.css
  /\ ~abandoned => cache.view = view

\* A capture is of a story; what it has measured is that story's.
StoryInv ==
  /\ step # "idle" => story \in Stories
  /\ mode = "soft" => Hooked
  /\ measured = "tall" => pageKind # "nothing"
  /\ step \in Rendered /\ measured = "tall" /\ ~Misled => story \in Tall
  /\ step = "signal" => story \in Signal

\* The page has been asked for the story.  A document of its own knows no other story, and an
\* event of success about the story says that it is rendered.
OpenedInv ==
  step \in Opened =>
    /\ page.target = story
    /\ mode = "hard" => /\ page.shown \in {NoStory, story} /\ page.late \subseteq {story}
                        /\ \A e \in events : e.of = story
    /\ \A e \in events : e.type = "ok" /\ e.of = story =>
         page.shown = story /\ page.phase = "completed"

\* A story that was found ready stays rendered, and styled once it is.
RenderedInv ==
  /\ step \in Rendered /\ pageKind # "nothing" /\ ~Misled =>
       page.shown = story /\ page.phase = "completed"
  /\ step \in {"fit", "shoot"} \cup Imaged => page.css

\* A viewport is the story's, or has grown for it.
FitsStory(v) == v.size = SizeOf[story] /\ (v.tall /\ ~Misled => story \in Tall)

\* The viewport is the story's from the time it is set, and grows for no other.
FramedInv ==
  ~abandoned =>
    /\ step \in {"navigate", "ready", "signal", "style", "fit"} => view = Plain(story)
    /\ step \in {"shoot", "compare", "measure"} => FitsStory(view)

\* So is the screenshot.
ShotInv ==
  step \in Imaged =>
    /\ image.css
    /\ pageKind # "nothing" /\ ~Misled => image.shown = story /\ image.phase = "completed"
    /\ ~abandoned => FitsStory(image.view)

CaptureInv ==
  /\ CaptureTypeOK /\ PageInv /\ CachesInv /\ StoryInv /\ OpenedInv /\ RenderedInv
  /\ FramedInv /\ ShotInv /\ BlamesOnlyOwn

----------------------------------------------------------------------------
(* The page.                                                               *)

\* A capture that is misled stays so while its events do.
LEMMA MisledStays ==
  ASSUME events \subseteq events', story' = story
  PROVE  /\ Misled => Misled'
         /\ events' = events => (Misled' <=> Misled)
BY DEF Misled

\* It is misled by a switch in place alone.
LEMMA MisledSoft ==
  ASSUME CaptureAssumption, CaptureInv, step \in Opened, Misled
  PROVE  mode = "soft" /\ pageKind = "nameless"
<1>1. PICK e \in events : e.type = "ok" /\ e.id = NoStory /\ e.of # story
  BY DEF Misled
<1>2. mode = "soft"
  BY <1>1 DEF CaptureInv, CaptureTypeOK, OpenedInv
<1>3. e.of # NoStory
  BY <1>1 DEF CaptureInv, CaptureTypeOK, Event, CaptureAssumption
<1>4. pageKind = "nameless"
  BY <1>1, <1>3 DEF CaptureInv, PageInv
<1> QED
  BY <1>2, <1>4

\* A story starts to render: nobody has found it ready yet.
LEMMA PageStartsStep ==
  ASSUME CaptureAssumption, CaptureInv, PageStarts
  PROVE  CaptureInv'
<1> USE DEF CaptureInv, PageStarts, PageUnchanged, shotVars
<1>m. Misled' <=> Misled
  BY MisledStays
<1>0. page' \in Documents
  BY DEF CaptureTypeOK, Documents
<1>1. CaptureTypeOK'
  BY <1>0 DEF CaptureTypeOK
<1>2. PageInv' /\ CachesInv'
  BY DEF CaptureTypeOK, Documents, PageInv, Hooked, CachesInv
<1>3. StoryInv' /\ FramedInv' /\ ShotInv' /\ BlamesOnlyOwn'
  BY <1>m DEF StoryInv, Hooked, FramedInv, FitsStory, ShotInv, Imaged, BlamesOnlyOwn, Rendered,
     Opened
<1>4. OpenedInv' /\ RenderedInv'
  BY <1>m DEF CaptureTypeOK, Documents, OpenedInv, RenderedInv, Opened, Rendered, Imaged
<1> QED
  BY <1>1, <1>2, <1>3, <1>4

\* A story is rendered, or its render fails.
LEMMA PageRendersStep ==
  ASSUME CaptureAssumption, CaptureInv, PageRenders
  PROVE  CaptureInv'
<1> USE DEF CaptureInv, PageRenders, PageUnchanged, shotVars
<1>m. Misled' <=> Misled
  BY MisledStays
<1>0. page' \in Documents
  BY DEF CaptureTypeOK, Documents, CaptureAssumption
<1>1. CaptureTypeOK'
  BY <1>0 DEF CaptureTypeOK
<1>2. PageInv' /\ CachesInv'
  BY DEF CaptureTypeOK, Documents, PageInv, Hooked, CachesInv, CaptureAssumption
<1>3. StoryInv' /\ FramedInv' /\ ShotInv' /\ BlamesOnlyOwn'
  BY <1>m DEF StoryInv, Hooked, FramedInv, FitsStory, ShotInv, Imaged, BlamesOnlyOwn, Rendered,
     Opened
<1>4. OpenedInv' /\ RenderedInv'
  BY <1>m DEF CaptureTypeOK, Documents, CaptureAssumption, PageInv, Hooked, OpenedInv,
     RenderedInv, Opened, Rendered, Imaged
<1> QED
  BY <1>1, <1>2, <1>3, <1>4

\* The page reports what it has rendered.
LEMMA PageEmitsStep ==
  ASSUME CaptureAssumption, CaptureInv, PageEmits
  PROVE  CaptureInv'
<1> USE DEF CaptureInv, PageEmits, PageUnchanged, shotVars, Emit
<1>m. Misled => Misled'
  BY MisledStays
<1>0. page' \in Documents
  BY DEF CaptureTypeOK, Documents
<1>1. CaptureTypeOK'
  BY <1>0 DEF CaptureTypeOK, Event, PageInv, Hooked
<1>2. PageInv' /\ CachesInv'
  BY DEF CaptureTypeOK, Documents, PageInv, Hooked, CachesInv
<1>3. StoryInv' /\ FramedInv' /\ ShotInv' /\ BlamesOnlyOwn'
  BY <1>m DEF StoryInv, Hooked, FramedInv, FitsStory, ShotInv, Imaged, BlamesOnlyOwn, Rendered,
     Opened
<1>4. OpenedInv' /\ RenderedInv'
  BY <1>m DEF CaptureTypeOK, Documents, CaptureAssumption, PageInv, Hooked, OpenedInv,
     RenderedInv, Opened, Rendered, Imaged
<1> QED
  BY <1>1, <1>2, <1>3, <1>4

\* A story that has rendered throws after all.
LEMMA PageThrowsLateStep ==
  ASSUME CaptureAssumption, CaptureInv, NEW s \in Stories, PageThrowsLate(s)
  PROVE  CaptureInv'
<1> USE DEF CaptureInv, PageThrowsLate, PageUnchanged, shotVars, Emit
<1>m. Misled => Misled'
  BY MisledStays
<1>0. page' \in Documents
  BY DEF CaptureTypeOK, Documents
<1>1. CaptureTypeOK'
  BY <1>0 DEF CaptureTypeOK, Event
<1>2. PageInv' /\ CachesInv'
  BY DEF CaptureTypeOK, Documents, PageInv, Hooked, CachesInv
<1>3. StoryInv' /\ FramedInv' /\ ShotInv' /\ BlamesOnlyOwn'
  BY <1>m DEF StoryInv, Hooked, FramedInv, FitsStory, ShotInv, Imaged, BlamesOnlyOwn, Rendered,
     Opened
<1>4. OpenedInv' /\ RenderedInv'
  BY <1>m DEF CaptureTypeOK, Documents, CaptureAssumption, PageInv, Hooked, OpenedInv,
     RenderedInv, Opened, Rendered, Imaged
<1> QED
  BY <1>1, <1>2, <1>3, <1>4

\* It sets the ready signal, or grows.
LEMMA PageSettlesStep ==
  ASSUME CaptureAssumption, CaptureInv, PageSignals \/ PageGrows
  PROVE  CaptureInv'
<1> USE DEF CaptureInv, PageSignals, PageGrows, PageUnchanged, shotVars
<1>m. Misled' <=> Misled
  BY MisledStays
<1>0. page' \in Documents
  BY DEF CaptureTypeOK, Documents
<1>1. CaptureTypeOK'
  BY <1>0 DEF CaptureTypeOK
<1>2. PageInv' /\ CachesInv'
  BY DEF CaptureTypeOK, Documents, PageInv, Hooked, CachesInv
<1>3. StoryInv' /\ FramedInv' /\ ShotInv' /\ BlamesOnlyOwn'
  BY <1>m DEF StoryInv, Hooked, FramedInv, FitsStory, ShotInv, Imaged, BlamesOnlyOwn, Rendered,
     Opened
<1>4. OpenedInv' /\ RenderedInv'
  BY <1>m DEF CaptureTypeOK, Documents, OpenedInv, RenderedInv, Opened, Rendered, Imaged
<1> QED
  BY <1>1, <1>2, <1>3, <1>4

----------------------------------------------------------------------------
(* What the commands of a capture do.                                      *)

\* A failure ends the capture and taints the session; the caches stay.
LEMMA FailedEnds ==
  ASSUME CaptureTypeOK, NEW v, Failed(v)
  PROVE  /\ cache' \in Caches /\ cache'.css = cache.css /\ cache'.view = cache.view
         /\ step' = "idle" /\ verdict' = v
BY DEF CaptureTypeOK, Failed, Ends, Caches

\* A fault keeps the count within its bound.
LEMMA CaptureFaultType ==
  ASSUME CaptureAssumption, CaptureTypeOK, captureFaults < MaxFaults,
         captureFaults' = captureFaults + 1
  PROVE  captureFaults' \in 0 .. MaxFaults
BY DEF CaptureAssumption, CaptureTypeOK

\* The viewport that is set is the browser's and the cached one.
LEMMA ViewIsSet ==
  ASSUME CaptureTypeOK, CachesInv, NEW v \in Views, SetViewport(v)
  PROVE  /\ cache' \in Caches /\ cache'.css = cache.css /\ view' \in Views \cup {NoView}
         /\ ~abandoned => view' = v /\ cache'.view = v
<1>1. CASE cache.view = v
  BY <1>1 DEF CaptureTypeOK, CachesInv, SetViewport
<1>2. CASE cache.view # v
  <2>1. cache' = [cache EXCEPT !.view = v] /\ view' = v
    BY <1>2 DEF SetViewport
  <2> QED
    BY <2>1 DEF CaptureTypeOK, Caches
<1> QED
  BY <1>1, <1>2

\* The one whose answer is late is the browser's, and the capture has failed.
LEMMA ViewIsLate ==
  ASSUME CaptureAssumption, CaptureTypeOK, NEW v \in Views, ViewportAbandoned(v)
  PROVE  /\ cache' \in Caches /\ cache'.css = cache.css /\ view' \in Views \cup {NoView}
         /\ step' = "idle" /\ verdict' = "infra" /\ abandoned' = TRUE
         /\ captureFaults' \in 0 .. MaxFaults
BY FailedEnds, CaptureFaultType DEF ViewportAbandoned

\* A story's viewports.
LEMMA StoryViews ==
  ASSUME CaptureAssumption, NEW s \in Stories
  PROVE  Plain(s) \in Views /\ Fitted(s) \in Views
BY DEF CaptureAssumption, Plain, Fitted, Views

\* A screenshot of the page.
LEMMA ShotType ==
  ASSUME CaptureTypeOK
  PROVE  /\ PageShot \in Images /\ PageShot.view = view
         /\ PageShot.css = page.css /\ PageShot.shown = page.shown /\ PageShot.phase = page.phase
BY DEF CaptureTypeOK, PageShot, Images, Documents

----------------------------------------------------------------------------
(* A capture.                                                              *)

\* A capture that ends with a failure of the harness, or of the story, leaves the browser as it
\* was, and the caches as right as before.
LEMMA FailureStep ==
  ASSUME CaptureAssumption, CaptureInv, step # "idle", NEW kind \in {"infra"} \cup ErrorKinds,
         Failed(kind), kind # "infra" => todo' = todo \ {story}, kind = "infra" => todo' = todo,
         kind = "story-error" => story \in Broken \cup Late,
         kind = "render-timeout" => story \in Silent,
         kind = "ready-signal-timeout" => story \in Signal,
         captureFaults' \in 0 .. MaxFaults,
         UNCHANGED <<docVars, view, abandoned, story, shotVars>>
  PROVE  CaptureInv'
<1> USE DEF CaptureInv, docVars, shotVars
<1>1. /\ cache' \in Caches /\ cache'.css = cache.css /\ cache'.view = cache.view
      /\ step' = "idle" /\ verdict' = kind
  BY FailedEnds
<1>2. CaptureTypeOK'
  <2>1. todo' \in SUBSET Stories
    BY DEF CaptureTypeOK
  <2> QED
    BY <1>1, <2>1 DEF CaptureTypeOK
<1>3. PageInv' /\ CachesInv' /\ StoryInv'
  BY <1>1 DEF PageInv, Hooked, CachesInv, StoryInv, Rendered, Opened
<1>4. OpenedInv' /\ RenderedInv' /\ FramedInv' /\ ShotInv'
  BY <1>1 DEF OpenedInv, RenderedInv, Opened, Rendered, Imaged, FramedInv, ShotInv
<1>5. BlamesOnlyOwn'
  BY <1>1 DEF BlamesOnlyOwn
<1> QED
  BY <1>2, <1>3, <1>4, <1>5

\* A command fails: nobody's error is said to be the story's.
LEMMA CommandFailsStep ==
  ASSUME CaptureAssumption, CaptureInv, CommandFails
  PROVE  CaptureInv'
<1>1. /\ step # "idle" /\ captureFaults' \in 0 .. MaxFaults
      /\ UNCHANGED <<docVars, view, abandoned, story, shotVars>>
  BY CaptureFaultType DEF CommandFails, CaptureInv
<1>2. CASE Failed("infra") /\ UNCHANGED todo
  BY <1>1, <1>2, FailureStep
<1>3. CASE Recorded("unknown")
  BY <1>1, <1>3, FailureStep DEF Recorded, ErrorKinds
<1> QED
  BY <1>2, <1>3 DEF CommandFails

\* A new browser knows nothing, and nothing is known of it.
LEMMA BrowserReplacedStep ==
  ASSUME CaptureAssumption, CaptureInv, BrowserReplaced
  PROVE  CaptureInv'
<1> USE DEF CaptureInv, BrowserReplaced, BlankPage, NewCache, docVars, shotVars
<1>1. CaptureTypeOK'
  BY DEF CaptureTypeOK, Caches, Documents
<1>2. PageInv' /\ CachesInv'
  BY DEF CaptureTypeOK, PageInv, Hooked, CachesInv
<1>3. StoryInv' /\ BlamesOnlyOwn'
  BY DEF CaptureTypeOK, StoryInv, Hooked, BlamesOnlyOwn, Rendered, Opened
<1>4. OpenedInv' /\ RenderedInv'
  BY DEF CaptureTypeOK, OpenedInv, RenderedInv, Opened, Rendered, Imaged
<1>5. FramedInv' /\ ShotInv'
  BY DEF CaptureTypeOK, FramedInv, FitsStory, ShotInv, Imaged
<1> QED
  BY <1>1, <1>2, <1>3, <1>4, <1>5

\* A capture begins: nothing has been measured or shot for it.
LEMMA BeginStep ==
  ASSUME CaptureAssumption, CaptureInv, NEW s \in Stories, Begin(s)
  PROVE  CaptureInv'
<1> USE DEF CaptureInv, Begin, docVars, shotVars
<1>1. CaptureTypeOK'
  BY DEF CaptureTypeOK, Images, NoImage
<1>2. PageInv' /\ CachesInv'
  BY DEF CaptureTypeOK, PageInv, Hooked, CachesInv
<1>3. StoryInv' /\ BlamesOnlyOwn'
  BY DEF CaptureTypeOK, StoryInv, Hooked, BlamesOnlyOwn, Rendered, Opened
<1>4. OpenedInv' /\ RenderedInv'
  BY DEF CaptureTypeOK, OpenedInv, RenderedInv, Opened, Rendered, Imaged
<1>5. FramedInv' /\ ShotInv'
  BY DEF CaptureTypeOK, FramedInv, FitsStory, ShotInv, Imaged
<1> QED
  BY <1>1, <1>2, <1>3, <1>4, <1>5

\* The viewport is set, or is known to be set, or the answer is late.
LEMMA SetsViewportStep ==
  ASSUME CaptureAssumption, CaptureInv, SetsViewport
  PROVE  CaptureInv'
<1> USE DEF CaptureInv, docVars, shotVars
<1>m. Misled' <=> Misled
  BY MisledStays DEF SetsViewport, docVars
<1>1. story \in Stories /\ step = "viewport" /\ Plain(story) \in Views
      /\ UNCHANGED <<docVars, story, shotVars, todo>>
  BY StoryViews DEF SetsViewport, StoryInv
<1>2. CASE SetViewport(Plain(story)) /\ step' = "navigate"
           /\ UNCHANGED <<abandoned, verdict, captureFaults>>
  <2>1. /\ cache' \in Caches /\ cache'.css = cache.css /\ view' \in Views \cup {NoView}
        /\ ~abandoned => view' = Plain(story) /\ cache'.view = Plain(story)
    BY <1>1, <1>2, ViewIsSet
  <2>2. CaptureTypeOK'
    BY <1>1, <1>2, <2>1 DEF CaptureTypeOK
  <2>3. PageInv' /\ CachesInv' /\ StoryInv' /\ BlamesOnlyOwn'
    BY <1>1, <1>2, <2>1, <1>m DEF PageInv, Hooked, CachesInv, StoryInv, BlamesOnlyOwn, Rendered,
       Opened
  <2>4. OpenedInv' /\ RenderedInv' /\ FramedInv' /\ ShotInv'
    BY <1>1, <1>2, <2>1, <1>m DEF OpenedInv, RenderedInv, Opened, Rendered, Imaged, FramedInv,
       ShotInv, Plain
  <2> QED
    BY <2>2, <2>3, <2>4
<1>3. CASE ViewportAbandoned(Plain(story))
  <2>1. /\ cache' \in Caches /\ cache'.css = cache.css /\ view' \in Views \cup {NoView}
        /\ step' = "idle" /\ verdict' = "infra" /\ abandoned' = TRUE
        /\ captureFaults' \in 0 .. MaxFaults
    BY <1>1, <1>3, ViewIsLate
  <2>2. CaptureTypeOK'
    BY <1>1, <2>1 DEF CaptureTypeOK
  <2>3. PageInv' /\ CachesInv' /\ StoryInv' /\ BlamesOnlyOwn'
    BY <1>1, <2>1, <1>m DEF PageInv, Hooked, CachesInv, StoryInv, BlamesOnlyOwn, Rendered, Opened
  <2>4. OpenedInv' /\ RenderedInv' /\ FramedInv' /\ ShotInv'
    BY <1>1, <2>1, <1>m DEF OpenedInv, RenderedInv, Opened, Rendered, Imaged, FramedInv, ShotInv
  <2> QED
    BY <2>2, <2>3, <2>4
<1> QED
  BY <1>1, <1>2, <1>3 DEF SetsViewport

\* The page is asked for another story, and its events are forgotten.
LEMMA SwitchesInPlaceStep ==
  ASSUME CaptureAssumption, CaptureInv, SwitchesInPlace
  PROVE  CaptureInv'
<1> USE DEF CaptureInv, shotVars
<1>1. /\ page' \in Documents /\ page'.target = story /\ page'.shown = page.shown
      /\ page'.phase = page.phase /\ page'.grown = page.grown /\ page'.late = page.late
      /\ page'.css = page.css
  BY DEF SwitchesInPlace, CaptureTypeOK, Documents
<1>2. cache' \in Caches /\ cache'.css = cache.css /\ cache'.view = cache.view
  BY DEF SwitchesInPlace, CaptureTypeOK, Caches
<1>3. /\ step = "navigate" /\ step' = "ready" /\ mode' = "soft" /\ Hooked
      /\ events' = {}
      /\ UNCHANGED <<pageKind, view, abandoned, story, measured, image, moved, skipped, verdict,
                     todo, captureFaults>>
  BY DEF SwitchesInPlace
<1>4. CaptureTypeOK'
  BY <1>1, <1>2, <1>3 DEF CaptureTypeOK
<1>5. PageInv' /\ CachesInv' /\ StoryInv' /\ BlamesOnlyOwn'
  BY <1>1, <1>2, <1>3 DEF PageInv, Hooked, CachesInv, StoryInv, BlamesOnlyOwn, Rendered, Opened
<1>6. OpenedInv' /\ RenderedInv' /\ FramedInv' /\ ShotInv'
  BY <1>1, <1>3 DEF OpenedInv, RenderedInv, Opened, Rendered, Imaged, FramedInv, ShotInv, Plain
<1> QED
  BY <1>4, <1>5, <1>6

\* A new document knows one story, and is not styled.
LEMMA HardNavigateStep ==
  ASSUME CaptureAssumption, CaptureInv, step \in {"navigate", "ready", "signal"},
         HardNavigate, UNCHANGED <<verdict, todo>>
  PROVE  CaptureInv'
<1> USE DEF CaptureInv
<1>1. story \in Stories
  BY DEF StoryInv
<1>2. /\ page' \in Documents /\ page'.target = story /\ page'.shown = NoStory
      /\ page'.phase = "none" /\ ~page'.grown /\ page'.late = {}
  BY <1>1 DEF HardNavigate, BlankPage, Documents
<1>3. cache' \in Caches /\ ~cache'.css /\ cache'.view = cache.view
  BY DEF HardNavigate, CaptureTypeOK, Caches
<1>4. /\ step' = "ready" /\ mode' = "hard" /\ events' = {}
      /\ UNCHANGED <<pageKind, view, abandoned, story, measured, image, moved, skipped, verdict,
                     todo, captureFaults>>
  BY DEF HardNavigate
<1>5. CaptureTypeOK'
  BY <1>2, <1>3, <1>4 DEF CaptureTypeOK
<1>6. PageInv' /\ CachesInv' /\ StoryInv' /\ BlamesOnlyOwn'
  BY <1>1, <1>2, <1>3, <1>4 DEF PageInv, Hooked, CachesInv, StoryInv, BlamesOnlyOwn, Rendered,
     Opened
<1>7. OpenedInv' /\ RenderedInv' /\ FramedInv' /\ ShotInv'
  BY <1>2, <1>4 DEF OpenedInv, RenderedInv, Opened, Rendered, Imaged, FramedInv, ShotInv, Plain
<1> QED
  BY <1>5, <1>6, <1>7

\* The story is not ready: it gets a document of its own, or has had one and is recorded as
\* failed for what it did in there.
LEMMA NotReadyStep ==
  ASSUME CaptureAssumption, CaptureInv, step \in {"ready", "signal"},
         NEW kind \in {"story-error", "render-timeout", "ready-signal-timeout"}, NotReady(kind),
         mode = "hard" => /\ kind = "story-error" => story \in Broken \cup Late
                          /\ kind = "render-timeout" => story \in Silent
                          /\ kind = "ready-signal-timeout" => story \in Signal
  PROVE  CaptureInv'
<1>1. CASE mode = "soft"
  BY <1>1, HardNavigateStep DEF NotReady
<1>2. CASE mode # "soft"
  <2>1. /\ Failed(kind) /\ todo' = todo \ {story} /\ mode = "hard"
        /\ UNCHANGED <<docVars, view, abandoned, story, shotVars, captureFaults>>
    BY <1>2 DEF NotReady, Recorded, CaptureInv, CaptureTypeOK
  <2>2. captureFaults' \in 0 .. MaxFaults /\ step # "idle" /\ kind # "infra" /\ kind \in ErrorKinds
    BY <2>1 DEF CaptureInv, CaptureTypeOK, ErrorKinds
  <2> QED
    BY <2>1, <2>2, FailureStep
<1> QED
  BY <1>1, <1>2

\* The three ways not to become ready.
LEMMA UnreadyStep ==
  ASSUME CaptureAssumption, CaptureInv, ReadyFails \/ ReadyExpires \/ SignalExpires
  PROVE  CaptureInv'
<1>1. CASE ReadyFails
  <2>1. ASSUME mode = "hard"
        PROVE  story \in Broken \cup Late
    <3>1. CASE \E e \in events : e.type = "fail"
      BY <1>1, <2>1, <3>1 DEF ReadyFails, CaptureInv, PageInv, Hooked, OpenedInv, Opened
    <3>2. CASE Phase = "errored"
      BY <1>1, <2>1, <3>2 DEF ReadyFails, Phase, CaptureAssumption, CaptureInv, OpenedInv, Opened,
                              PageInv, Hooked
    <3> QED
      BY <1>1, <3>1, <3>2 DEF ReadyFails, ReportsFailure
  <2> QED
    BY <1>1, <2>1, NotReadyStep DEF ReadyFails
<1>2. CASE ReadyExpires
  BY <1>2, NotReadyStep DEF ReadyExpires
<1>3. CASE SignalExpires
  BY <1>3, NotReadyStep DEF SignalExpires, CaptureInv, StoryInv
<1> QED
  BY <1>1, <1>2, <1>3

\* A page that reports nothing is waited for.
LEMMA DegradesStep ==
  ASSUME CaptureAssumption, CaptureInv, Degrades
  PROVE  CaptureInv'
<1> USE DEF CaptureInv, Degrades, docVars, shotVars
<1>m. Misled' <=> Misled
  BY MisledStays
<1>1. CaptureTypeOK'
  BY DEF CaptureTypeOK
<1>2. PageInv' /\ CachesInv'
  BY DEF CaptureTypeOK, PageInv, Hooked, CachesInv
<1>3. StoryInv' /\ BlamesOnlyOwn'
  BY <1>m DEF CaptureTypeOK, StoryInv, Hooked, BlamesOnlyOwn, Rendered, Opened
<1>4. OpenedInv' /\ RenderedInv'
  BY <1>m DEF CaptureTypeOK, OpenedInv, RenderedInv, Opened, Rendered, Imaged
<1>5. FramedInv' /\ ShotInv'
  BY <1>m DEF CaptureTypeOK, FramedInv, FitsStory, ShotInv, Imaged
<1> QED
  BY <1>1, <1>2, <1>3, <1>4, <1>5

\* The story is found ready: it is what the page shows, or the wait was misled.
LEMMA ReadySucceedsStep ==
  ASSUME CaptureAssumption, CaptureInv, ReadySucceeds
  PROVE  CaptureInv'
<1> USE DEF CaptureInv, docVars, shotVars
<1>m. Misled' <=> Misled
  BY MisledStays DEF ReadySucceeds
<1>1. /\ step = "ready" /\ step' \in {"signal", "style"}
      /\ step' = "signal" => story \in Signal
      /\ measured' = IF page.grown THEN "tall" ELSE "fits"
      /\ UNCHANGED <<docVars, view, cache, abandoned, story, mode, image, moved, skipped, verdict,
                     todo, captureFaults>>
  BY DEF ReadySucceeds, Height
<1>2. ~Misled => page.shown = story /\ page.phase = "completed"
  <2>1. SUFFICES ASSUME ~Misled PROVE page.shown = story /\ page.phase = "completed"
    OBVIOUS
  <2>2. CASE \E e \in events : e.type = "ok" /\ e.id \in {NoStory, story}
    <3>1. PICK e \in events : e.type = "ok" /\ e.id \in {NoStory, story}
      BY <2>2
    <3>2. e.of = story
      BY <2>1, <3>1 DEF Misled, PageInv, StoryInv, CaptureAssumption
    <3> QED
      BY <1>1, <3>1, <3>2 DEF OpenedInv, Opened
  <2>3. CASE Phase = "completed" /\ PhaseId = story
    <3>1. page.phase = "completed" /\ story # NoStory
      BY <1>1, <2>3 DEF Phase, StoryInv, CaptureAssumption
    <3> QED
      BY <2>3, <3>1 DEF PhaseId
  <2>4. CASE Phase = "completed" /\ PhaseId = NoStory /\ mode = "hard"
    <3>1. page.phase = "completed" /\ page.shown \in Stories
      BY <2>4 DEF Phase, PageInv
    <3> QED
      BY <1>1, <2>4, <3>1 DEF OpenedInv, Opened, CaptureAssumption
  <2> QED
    BY <2>2, <2>3, <2>4 DEF ReadySucceeds, ReportsSuccess
<1>3. pageKind # "nothing"
  BY DEF ReadySucceeds, ReportsSuccess, Phase, PageInv, Hooked
<1>4. CaptureTypeOK'
  BY <1>1 DEF CaptureTypeOK
<1>5. PageInv' /\ CachesInv' /\ BlamesOnlyOwn'
  BY <1>1 DEF PageInv, Hooked, CachesInv, BlamesOnlyOwn
<1>6. StoryInv'
  BY <1>m, <1>1, <1>2, <1>3 DEF StoryInv, PageInv, Hooked
<1>7. OpenedInv'
  BY <1>1 DEF OpenedInv, Opened
<1>8. RenderedInv' /\ FramedInv' /\ ShotInv'
  BY <1>m, <1>1, <1>2 DEF RenderedInv, Imaged, FramedInv, ShotInv, Plain
<1> QED
  BY <1>4, <1>5, <1>6, <1>7, <1>8

\* It has set the signal.
LEMMA SignalSetStep ==
  ASSUME CaptureAssumption, CaptureInv, SignalSet
  PROVE  CaptureInv'
<1> USE DEF CaptureInv, SignalSet, docVars, shotVars
<1>m. Misled' <=> Misled
  BY MisledStays
<1>1. CaptureTypeOK'
  BY DEF CaptureTypeOK
<1>2. PageInv' /\ CachesInv'
  BY DEF CaptureTypeOK, PageInv, Hooked, CachesInv
<1>3. StoryInv' /\ BlamesOnlyOwn'
  BY <1>m DEF CaptureTypeOK, StoryInv, Hooked, BlamesOnlyOwn, Rendered, Opened
<1>4. OpenedInv' /\ RenderedInv'
  BY <1>m DEF CaptureTypeOK, OpenedInv, RenderedInv, Opened, Rendered, Imaged
<1>5. FramedInv' /\ ShotInv'
  BY <1>m DEF CaptureTypeOK, FramedInv, FitsStory, ShotInv, Imaged
<1> QED
  BY <1>1, <1>2, <1>3, <1>4, <1>5

\* The style is injected, or is known to be there.
LEMMA StylesStep ==
  ASSUME CaptureAssumption, CaptureInv, Styles
  PROVE  CaptureInv'
<1> USE DEF CaptureInv, shotVars
<1>m. Misled' <=> Misled
  BY MisledStays DEF Styles
<1>1. /\ page' \in Documents /\ page'.target = page.target /\ page'.shown = page.shown
      /\ page'.phase = page.phase /\ page'.grown = page.grown /\ page'.late = page.late
      /\ page'.css
  <2>1. CASE cache.css
    BY <2>1 DEF Styles, CaptureTypeOK, CachesInv
  <2>2. CASE ~cache.css
    BY <2>2 DEF Styles, CaptureTypeOK, Documents
  <2> QED
    BY <2>1, <2>2
<1>2. cache' \in Caches /\ cache'.view = cache.view
  BY DEF Styles, CaptureTypeOK, Caches
<1>3. /\ step = "style" /\ step' = "fit"
      /\ UNCHANGED <<pageKind, events, view, abandoned, story, shotVars, verdict, todo,
                     captureFaults>>
  BY DEF Styles
<1>4. CaptureTypeOK'
  BY <1>1, <1>2, <1>3 DEF CaptureTypeOK
<1>5. PageInv' /\ CachesInv' /\ StoryInv' /\ BlamesOnlyOwn'
  BY <1>1, <1>2, <1>3, <1>m DEF PageInv, Hooked, CachesInv, StoryInv, BlamesOnlyOwn, Rendered,
     Opened
<1>6. OpenedInv'
  BY <1>1, <1>3 DEF OpenedInv, Opened
<1>7. RenderedInv' /\ FramedInv' /\ ShotInv'
  BY <1>1, <1>3, <1>m DEF RenderedInv, Opened, Rendered, Imaged, FramedInv, ShotInv, Plain
<1> QED
  BY <1>4, <1>5, <1>6, <1>7

\* The viewport grows for what was measured, if that is known.
LEMMA FitsViewportStep ==
  ASSUME CaptureAssumption, CaptureInv, FitsViewport
  PROVE  CaptureInv'
<1> USE DEF CaptureInv, docVars, shotVars
<1> DEFINE v == IF measured = "tall" THEN Fitted(story) ELSE Plain(story)
<1>m. Misled' <=> Misled
  BY MisledStays DEF FitsViewport, docVars
<1>1. /\ story \in Stories /\ step = "fit" /\ v \in Views /\ FitsStory(v)
      /\ UNCHANGED <<docVars, story, shotVars, todo>>
  BY StoryViews, <1>m DEF FitsViewport, StoryInv, FitsStory, Plain, Fitted, Rendered, Opened
<1>2. CASE step' = "shoot"
  <2>1. /\ cache' \in Caches /\ cache'.css = cache.css /\ view' \in Views \cup {NoView}
        /\ ~abandoned => FitsStory(view') /\ cache'.view = view'
        /\ UNCHANGED <<abandoned, verdict, captureFaults>>
    <3>1. ~ViewportAbandoned(v)
      BY <1>2, <1>1, ViewIsLate
    <3>2. CASE measured = "fits"
      <4>1. UNCHANGED <<view, cache, abandoned, verdict, captureFaults>>
        BY <3>1, <3>2 DEF FitsViewport
      <4> QED
        BY <1>1, <4>1, <1>m DEF CaptureTypeOK, CachesInv, FramedInv, FitsStory, Plain
    <3>3. CASE measured # "fits"
      <4>1. SetViewport(v) /\ UNCHANGED <<abandoned, verdict, captureFaults>>
        BY <3>1, <3>3 DEF FitsViewport
      <4> QED
        BY <1>1, <4>1, ViewIsSet
    <3> QED
      BY <3>2, <3>3
  <2>2. CaptureTypeOK'
    BY <1>1, <1>2, <2>1 DEF CaptureTypeOK
  <2>3. PageInv' /\ CachesInv' /\ StoryInv' /\ BlamesOnlyOwn'
    BY <1>1, <1>2, <2>1, <1>m DEF PageInv, Hooked, CachesInv, StoryInv, BlamesOnlyOwn, Rendered,
       Opened
  <2>4. OpenedInv' /\ RenderedInv'
    BY <1>1, <1>2, <1>m DEF OpenedInv, RenderedInv, Opened, Rendered, Imaged
  <2>5. FramedInv' /\ ShotInv'
    BY <1>1, <1>2, <2>1, <1>m DEF FramedInv, FitsStory, ShotInv, Imaged
  <2> QED
    BY <2>2, <2>3, <2>4, <2>5
<1>3. CASE step' # "shoot"
  <2>1. /\ cache' \in Caches /\ cache'.css = cache.css /\ view' \in Views \cup {NoView}
        /\ step' = "idle" /\ verdict' = "infra" /\ abandoned' = TRUE
        /\ captureFaults' \in 0 .. MaxFaults
    BY <1>1, <1>3, ViewIsLate DEF FitsViewport
  <2>2. CaptureTypeOK'
    BY <1>1, <2>1 DEF CaptureTypeOK
  <2>3. PageInv' /\ CachesInv' /\ StoryInv' /\ BlamesOnlyOwn'
    BY <1>1, <2>1, <1>m DEF PageInv, Hooked, CachesInv, StoryInv, BlamesOnlyOwn, Rendered, Opened
  <2>4. OpenedInv' /\ RenderedInv' /\ FramedInv' /\ ShotInv'
    BY <1>1, <2>1, <1>m DEF OpenedInv, RenderedInv, Opened, Rendered, Imaged, FramedInv, ShotInv
  <2> QED
    BY <2>2, <2>3, <2>4
<1> QED
  BY <1>2, <1>3

\* What a step leaves that keeps the page and the viewport, and leaves a screenshot that is one
\* of the page or the one there was.
ShotStep ==
  /\ step \in {"shoot", "compare"} /\ step' \in Imaged
  /\ image' = PageShot \/ (image' = image /\ step = "compare")
  /\ moved' \in BOOLEAN /\ skipped' \in BOOLEAN /\ captureFaults' \in 0 .. MaxFaults
  /\ UNCHANGED <<docVars, view, cache, abandoned, story, mode, measured, verdict, todo>>

\* Such a step leaves a screenshot of the story.
LEMMA ShotStays ==
  ASSUME CaptureInv, ShotStep
  PROVE  CaptureInv'
<1> USE DEF CaptureInv, docVars
<1>m. Misled' <=> Misled
  BY MisledStays DEF ShotStep, docVars
<1>1. /\ image' \in Images
      /\ step = "shoot" \/ image' # image =>
           /\ image'.view = view /\ image'.css = page.css
           /\ image'.shown = page.shown /\ image'.phase = page.phase
  BY ShotType DEF ShotStep, CaptureTypeOK
<1>2. CaptureTypeOK'
  BY <1>1 DEF ShotStep, CaptureTypeOK, Imaged
<1>3. PageInv' /\ CachesInv' /\ StoryInv' /\ BlamesOnlyOwn'
  BY <1>m DEF ShotStep, Imaged, PageInv, Hooked, CachesInv, StoryInv, BlamesOnlyOwn, Rendered,
     Opened
<1>4. OpenedInv' /\ RenderedInv' /\ FramedInv'
  BY <1>m DEF ShotStep, OpenedInv, RenderedInv, FramedInv, Opened, Rendered, Imaged, FitsStory
<1>5. ShotInv'
  BY <1>1, <1>m DEF ShotStep, ShotInv, RenderedInv, FramedInv, Opened, Rendered, Imaged, FitsStory
<1> QED
  BY <1>2, <1>3, <1>4, <1>5

\* The steps of the stabilization loop are such.
LEMMA ShootingStep ==
  ASSUME CaptureAssumption, CaptureInv, Shoots \/ ShotMoves \/ Stabilizes
  PROVE  CaptureInv'
<1>1. ShotStep
  BY CaptureFaultType DEF Shoots, ShotMoves, Stabilizes, ShotStep, Imaged, CaptureInv,
     CaptureTypeOK
<1> QED
  BY <1>1, ShotStays

\* What has grown since is shot again, in a viewport grown for it.
LEMMA RefitsStep ==
  ASSUME CaptureAssumption, CaptureInv, Refits
  PROVE  CaptureInv'
<1> USE DEF CaptureInv, docVars
<1>m. Misled' <=> Misled
  BY MisledStays DEF Refits, docVars
<1>1. /\ story \in Stories /\ step = "measure" /\ Fitted(story) \in Views
      /\ UNCHANGED <<docVars, story, mode, measured, moved, skipped, todo>>
  BY StoryViews DEF Refits, StoryInv
<1>2. page.grown => FitsStory(Fitted(story))
  <2>1. page.shown \in Stories /\ ~Misled => page.shown = story
    BY <1>1 DEF CaptureAssumption, CaptureTypeOK, OpenedInv, RenderedInv, StoryInv, Hooked, Opened,
       Rendered
  <2> QED
    BY <2>1 DEF CaptureAssumption, PageInv, FitsStory, Fitted
<1>3. CASE step' = "save"
  <2>1. /\ cache' \in Caches /\ cache'.css = cache.css /\ view' \in Views \cup {NoView}
        /\ ~abandoned => cache'.view = view'
        /\ captureFaults' \in 0 .. MaxFaults /\ UNCHANGED <<abandoned, verdict>>
        /\ \/ image' = image
           \/ /\ image' = [PageShot EXCEPT !.view = view']
              /\ ~abandoned => FitsStory(view')
    <3>1. ~ViewportAbandoned(Fitted(story))
      BY <1>3, <1>1, ViewIsLate
    <3>2. CASE UNCHANGED <<view, cache, image, abandoned, verdict>>
      BY <3>1, <3>2, CaptureFaultType DEF Refits, CaptureTypeOK, CachesInv
    <3>3. CASE page.grown /\ SetViewport(Fitted(story))
      BY <1>1, <1>2, <3>1, <3>3, ViewIsSet, CaptureFaultType DEF Refits, CaptureTypeOK
    <3> QED
      BY <3>1, <3>2, <3>3 DEF Refits
  <2>2. /\ image' \in Images
        /\ image' # image => /\ image'.css = page.css /\ image'.shown = page.shown
                             /\ image'.phase = page.phase /\ image'.view = view'
    BY <2>1, ShotType DEF CaptureTypeOK, Images
  <2>3. CaptureTypeOK'
    BY <1>1, <1>3, <2>1, <2>2 DEF CaptureTypeOK
  <2>4. PageInv' /\ CachesInv' /\ StoryInv' /\ BlamesOnlyOwn'
    BY <1>1, <1>3, <2>1, <1>m DEF PageInv, Hooked, CachesInv, StoryInv, BlamesOnlyOwn, Rendered,
       Opened
  <2>5. OpenedInv' /\ RenderedInv' /\ FramedInv'
    BY <1>1, <1>3, <1>m DEF OpenedInv, RenderedInv, FramedInv, Opened, Rendered, Imaged
  <2>6. ShotInv'
    BY <1>1, <1>3, <2>1, <2>2, <1>m DEF ShotInv, RenderedInv, Opened, Rendered, Imaged, FitsStory
  <2> QED
    BY <2>3, <2>4, <2>5, <2>6
<1>4. CASE step' # "save"
  <2>1. /\ cache' \in Caches /\ cache'.css = cache.css /\ view' \in Views \cup {NoView}
        /\ step' = "idle" /\ verdict' = "infra" /\ abandoned' = TRUE
        /\ captureFaults' \in 0 .. MaxFaults /\ UNCHANGED image
    BY <1>1, <1>4, ViewIsLate DEF Refits
  <2>2. CaptureTypeOK'
    BY <1>1, <2>1 DEF CaptureTypeOK
  <2>3. PageInv' /\ CachesInv' /\ StoryInv' /\ BlamesOnlyOwn'
    BY <1>1, <2>1, <1>m DEF PageInv, Hooked, CachesInv, StoryInv, BlamesOnlyOwn, Rendered, Opened
  <2>4. OpenedInv' /\ RenderedInv' /\ FramedInv' /\ ShotInv'
    BY <1>1, <2>1, <1>m DEF OpenedInv, RenderedInv, Opened, Rendered, Imaged, FramedInv, ShotInv
  <2> QED
    BY <2>2, <2>3, <2>4
<1> QED
  BY <1>3, <1>4

\* The screenshot is saved.
LEMMA SavesStep ==
  ASSUME CaptureAssumption, CaptureInv, Saves
  PROVE  CaptureInv'
<1> USE DEF CaptureInv, Saves, Ends, docVars, shotVars
<1>m. Misled' <=> Misled
  BY MisledStays
<1>1. CaptureTypeOK'
  BY DEF CaptureTypeOK
<1>2. PageInv' /\ CachesInv'
  BY DEF CaptureTypeOK, PageInv, Hooked, CachesInv
<1>3. StoryInv' /\ BlamesOnlyOwn'
  BY <1>m DEF CaptureTypeOK, StoryInv, Hooked, BlamesOnlyOwn, Rendered, Opened
<1>4. OpenedInv' /\ RenderedInv'
  BY <1>m DEF CaptureTypeOK, OpenedInv, RenderedInv, Opened, Rendered, Imaged
<1>5. FramedInv' /\ ShotInv'
  BY <1>m DEF CaptureTypeOK, FramedInv, FitsStory, ShotInv, Imaged
<1> QED
  BY <1>1, <1>2, <1>3, <1>4, <1>5

----------------------------------------------------------------------------
(* The captures of a session.                                              *)

\* Nothing is captured yet.
LEMMA CaptureInitInv == ASSUME CaptureAssumption, CaptureInit PROVE CaptureInv
<1> USE DEF CaptureInit
<1>1. page \in Documents /\ cache \in Caches /\ image \in Images
  BY DEF BlankPage, NewCache, NoImage, Documents, Caches, Images
<1>2. CaptureTypeOK
  <2>1. captureFaults \in 0 .. MaxFaults
    BY DEF CaptureAssumption
  <2> QED
    BY <1>1, <2>1 DEF CaptureTypeOK
<1>3. PageInv /\ CachesInv /\ StoryInv /\ BlamesOnlyOwn
  BY DEF PageInv, Hooked, CachesInv, StoryInv, BlamesOnlyOwn, Rendered, Opened, BlankPage,
     NewCache
<1>4. OpenedInv /\ RenderedInv /\ FramedInv /\ ShotInv
  BY DEF OpenedInv, RenderedInv, FramedInv, ShotInv, Opened, Rendered, Imaged
<1> QED
  BY <1>2, <1>3, <1>4 DEF CaptureInv

\* For any stories and viewports, any of them broken, silent, tall or late, and any number of
\* failed commands and new browsers.
THEOREM CaptureInvariance == ASSUME CaptureAssumption PROVE CaptureSpec => []CaptureInv
<1>1. CaptureInit => CaptureInv
  BY CaptureInitInv
<1>2. CaptureInv /\ [CaptureNext]_captureVars => CaptureInv'
  <2> SUFFICES ASSUME CaptureInv, [CaptureNext]_captureVars PROVE CaptureInv'
    OBVIOUS
  <2>1. CASE Page
    BY <2>1, PageStartsStep, PageRendersStep, PageEmitsStep, PageThrowsLateStep, PageSettlesStep
       DEF Page
  <2>2. CASE Capture
    <3>1. CASE Navigates
      BY <3>1, HardNavigateStep DEF Navigates
    <3> QED
      BY <2>2, <3>1, SetsViewportStep, SwitchesInPlaceStep, UnreadyStep, DegradesStep,
         ReadySucceedsStep, SignalSetStep, StylesStep, FitsViewportStep, ShootingStep, RefitsStep,
         SavesStep
         DEF Capture
  <2>3. CASE UNCHANGED captureVars
    BY <2>3, MisledStays DEF captureVars, docVars, shotVars, CaptureInv, CaptureTypeOK, PageInv,
       Hooked, CachesInv, StoryInv, OpenedInv, RenderedInv, FramedInv, FitsStory, ShotInv,
       BlamesOnlyOwn, Rendered, Opened, Imaged
  <2> QED
    BY <2>1, <2>2, <2>3, CommandFailsStep, BrowserReplacedStep, BeginStep DEF CaptureNext
<1> QED
  BY <1>1, <1>2, PTL DEF CaptureSpec

\* What is saved of a story is its own screenshot, rendered, styled and in its viewport, whatever
\* the stories before it left in the page, unless an event that names nobody has misled the wait
\* after a switch in place; and an error or a timeout it is blamed for is its own.
THEOREM CapturedOwn == ASSUME CaptureAssumption PROVE CaptureSpec => []CapturesAreOwn
<1>1. CaptureInv => CapturesAreOwn
  BY MisledSoft DEF CaptureInv, ShotInv, FitsStory, Imaged, Opened, CapturesAreOwn, ShotIsOwn,
     MisledInPlace, ShotSized
<1> QED
  BY <1>1, CaptureInvariance, PTL

----------------------------------------------------------------------------
(***************************************************************************)
(* StoryFinalize: for any number of workers and captures, any screenshots, *)
(* any floors and any number of calls that fail.  RowMatchesImages speaks  *)
(* of the moments when nobody is at work; between them the one worker that *)
(* is carries, in its draft, what will become of the row, and its step     *)
(* says how much of it is in S3 already.                                   *)
(***************************************************************************)

\* A history that is not mixed has no two workers at the story.
AloneInv == ~mixed => \A v, w \in AtWork : v = w

\* A row, or the draft of one, that the images in S3 bear out.
BorneOut(r) ==
  /\ images.image = r.image
  /\ r.diff => images.diff = r.image
  /\ r.status = "changed" => r.base /\ (r.image.wide \/ MeetsFloors(r.image))
  /\ r.status = "unchanged" => r.diff /\ ~r.image.wide

\* The screenshot is there before the comparison, the verdict before the diff, and the diff
\* before the row that names it.
DraftInv ==
  ~mixed => \A w \in Runners :
    /\ doing[w] \in {"compare", "diff"} => images.image = shot[w]
    /\ doing[w] = "diff" =>
         /\ draft[w].image = shot[w] /\ draft[w].base /\ ~shot[w].wide
         /\ draft[w].status = IF MeetsFloors(shot[w]) THEN "changed" ELSE "unchanged"
    /\ doing[w] = "upsert" => BorneOut(draft[w])

FinInv == FinTypeOK /\ AloneInv /\ DraftInv /\ RowMatchesImages

\* The steps a worker can be at.
States == {"idle", "put", "compare", "diff", "upsert", "record"}

\* A call that fails keeps the count within its bound.
LEMMA ErrsTyped ==
  ASSUME ShotsAssumption, errors \in 0 .. MaxErrors, Errs
  PROVE  errors' \in 0 .. MaxErrors
BY DEF ShotsAssumption, Errs

\* A second attempt, or none.
LEMMA StorageErrorTyped ==
  ASSUME FinTypeOK, NEW w \in Runners, StorageError(w)
  PROVE  /\ attempt' \in [Runners -> 1 .. 2]
         /\ \E x \in {"put", "record"} : To(w, x)
BY DEF FinTypeOK, StorageError

\* What a comparison drafts is a row.
LEMMA DraftTyped ==
  ASSUME FinTypeOK, NEW w \in Runners, NEW status \in {"new", "changed", "unchanged"},
         NEW base \in BOOLEAN, NEW diff \in BOOLEAN, Draft(w, status, base, diff)
  PROVE  /\ draft' \in [Runners -> ResultRows]
         /\ draft'[w] = [status |-> status, image |-> shot[w], base |-> base, diff |-> diff]
<1>1. shot[w] \in Shots \cup {NoShot}  BY DEF FinTypeOK
<1>2. [status |-> status, image |-> shot[w], base |-> base, diff |-> diff] \in ResultRows
  BY <1>1 DEF ResultRows
<1> QED  BY <1>2 DEF FinTypeOK, Draft

\* The first state: nobody is at work and there is no row.
LEMMA FinInitInv == ASSUME ShotsAssumption, FinInit PROVE FinInv
<1>1. NoRow \in ResultRows /\ NoRow.status = "none"  BY DEF NoRow, ResultRows
<1>2. Nothing \in [image : Shots \cup {NoShot}, diff : Shots \cup {NoShot}]  BY DEF Nothing
<1>3. 0 \in 0 .. MaxCaptures /\ 0 \in 0 .. MaxErrors  BY DEF ShotsAssumption
<1>4. draft \in [Runners -> ResultRows] /\ shot \in [Runners -> Shots \cup {NoShot}]
  BY <1>1 DEF FinInit
<1>5. doing \in [Runners -> States] /\ attempt \in [Runners -> 1 .. 2]  BY DEF FinInit, States
<1>6. FinTypeOK
  BY <1>1, <1>2, <1>3, <1>4, <1>5 DEF FinInit, FinTypeOK, States
<1> QED  BY <1>1, <1>6 DEF FinInit, FinInv, AloneInv, DraftInv, RowMatchesImages, AtWork

\* A step of the worker at the story keeps the invariant when the draft it leaves is what the
\* images bear out, and so is the row once it is done.
LEMMA WorkerGoesTo ==
  ASSUME FinInv, FinTypeOK', NEW w \in Runners, doing[w] # "idle",
         NEW x \in States, To(w, x), mixed' = mixed,
         x \in {"compare", "diff"} /\ ~mixed => images'.image = shot'[w],
         x = "diff" /\ ~mixed =>
           /\ draft'[w].image = shot'[w] /\ draft'[w].base /\ ~shot'[w].wide
           /\ draft'[w].status = IF MeetsFloors(shot'[w]) THEN "changed" ELSE "unchanged",
         x = "upsert" /\ ~mixed => BorneOut(draft[w])',
         x = "idle" /\ ~mixed =>
           (result'.status \in {"new", "changed", "unchanged"} => BorneOut(result)')
  PROVE  FinInv'
<1>1. doing' = [doing EXCEPT ![w] = x]  BY DEF To
<1>2. doing'[w] = x /\ \A v \in Runners \ {w} : doing'[v] = doing[v]
  BY <1>1 DEF FinInv, FinTypeOK
<1>3. ~mixed => \A v \in Runners \ {w} : doing[v] = "idle"
  BY DEF FinInv, AloneInv, AtWork
<1>4. AloneInv'
  BY <1>2, <1>3 DEF AloneInv, AtWork
<1>5. DraftInv'
  BY <1>2, <1>3 DEF DraftInv
<1>6. RowMatchesImages'
  <2>1. SUFFICES ASSUME AtWork' = {}, ~mixed', result'.status \in {"new", "changed", "unchanged"}
                 PROVE  BorneOut(result)'
    BY DEF RowMatchesImages, BorneOut
  <2>2. x = "idle"  BY <2>1, <1>2 DEF AtWork
  <2> QED  BY <2>1, <2>2
<1> QED  BY <1>4, <1>5, <1>6 DEF FinInv

\* A capture begins: a history that was mixed is whole again if nobody else is at work.
LEMMA CapturedInv ==
  ASSUME ShotsAssumption, FinInv, NEW w \in Runners, NEW s \in Shots, Captured(w, s)
  PROVE  FinInv'
<1>1. /\ doing' = [doing EXCEPT ![w] = "put"] /\ shot' = [shot EXCEPT ![w] = s]
      /\ attempt' = [attempt EXCEPT ![w] = 1] /\ mixed' = (AtWork # {})
      /\ captures < MaxCaptures /\ captures' = captures + 1
      /\ UNCHANGED <<baseline, draft, images, result, errors>>
  BY DEF Captured, To
<1>2. captures' \in 0 .. MaxCaptures
  BY <1>1 DEF FinInv, FinTypeOK, ShotsAssumption
<1>3. FinTypeOK'
  <2>1. doing' \in [Runners -> States] /\ shot' \in [Runners -> Shots \cup {NoShot}]
        /\ attempt' \in [Runners -> 1 .. 2] /\ mixed' \in BOOLEAN
    BY <1>1 DEF FinInv, FinTypeOK, States
  <2> QED  BY <1>1, <1>2, <2>1 DEF FinInv, FinTypeOK, States
<1>4. doing'[w] = "put" /\ \A v \in Runners \ {w} : doing'[v] = doing[v]
  BY <1>1 DEF FinInv, FinTypeOK
<1>5. ~mixed' => \A v \in Runners \ {w} : doing'[v] = "idle"
  BY <1>1, <1>4 DEF AtWork
<1>6. AloneInv'  BY <1>5 DEF AloneInv, AtWork
<1>7. DraftInv'  BY <1>4, <1>5 DEF DraftInv
<1>8. RowMatchesImages'
  <2>1. w \in AtWork'  BY <1>4 DEF AtWork
  <2> QED  BY <2>1 DEF RowMatchesImages
<1> QED  BY <1>3, <1>6, <1>7, <1>8 DEF FinInv

\* The screenshot reaches S3, or is tried once more, or given up.
LEMMA PutsScreenshotInv ==
  ASSUME ShotsAssumption, FinInv, NEW w \in Runners, PutsScreenshot(w)
  PROVE  FinInv'
<1>1. doing[w] = "put" /\ UNCHANGED <<baseline, shot, draft, result, mixed, captures>>
  BY DEF PutsScreenshot
<1>2. CASE /\ images' = [images EXCEPT !.image = shot[w]] /\ To(w, "compare")
           /\ UNCHANGED <<attempt, errors>>
  <2>1. images' \in [image : Shots \cup {NoShot}, diff : Shots \cup {NoShot}]
        /\ images'.image = shot[w]
    BY <1>2 DEF FinInv, FinTypeOK
  <2>2. doing' \in [Runners -> States]  BY <1>2 DEF FinInv, FinTypeOK, To, States
  <2>3. FinTypeOK'  BY <1>1, <1>2, <2>1, <2>2 DEF FinInv, FinTypeOK, States
  <2> QED  BY <1>1, <1>2, <2>1, <2>3, WorkerGoesTo DEF States
<1>3. CASE Errs /\ StorageError(w) /\ UNCHANGED images
  <2>1. PICK x \in {"put", "record"} : To(w, x)
    BY <1>3, StorageErrorTyped DEF FinInv
  <2>2. doing' \in [Runners -> States]  BY <2>1 DEF FinInv, FinTypeOK, To, States
  <2>3. errors' \in 0 .. MaxErrors  BY <1>3, ErrsTyped DEF FinInv, FinTypeOK
  <2>4. attempt' \in [Runners -> 1 .. 2]  BY <1>3, StorageErrorTyped DEF FinInv
  <2>5. FinTypeOK'  BY <1>1, <1>3, <2>2, <2>3, <2>4 DEF FinInv, FinTypeOK, States
  <2> QED  BY <1>1, <2>1, <2>5, WorkerGoesTo DEF States
<1> QED  BY <1>2, <1>3 DEF PutsScreenshot

\* The comparison drafts a verdict on the screenshot that is in S3.
LEMMA ComparesInv ==
  ASSUME ShotsAssumption, FinInv, NEW w \in Runners, Compares(w)
  PROVE  FinInv'
<1>1. doing[w] = "compare"
      /\ UNCHANGED <<baseline, attempt, shot, images, result, mixed, captures, errors>>
  BY DEF Compares
<1>2. ~mixed => images.image = shot[w]
  BY <1>1 DEF FinInv, DraftInv
<1>3. ASSUME NEW x \in {"diff", "upsert"}, To(w, x), draft' \in [Runners -> ResultRows]
      PROVE  FinTypeOK'
  <2>1. doing' \in [Runners -> States]  BY <1>3 DEF FinInv, FinTypeOK, To, States
  <2> QED  BY <1>1, <1>3, <2>1 DEF FinInv, FinTypeOK, States
<1>4. ASSUME NEW base \in BOOLEAN, Draft(w, "new", base, FALSE), To(w, "upsert") PROVE FinInv'
  <2>1. /\ draft' \in [Runners -> ResultRows]
        /\ draft'[w] = [status |-> "new", image |-> shot[w], base |-> base, diff |-> FALSE]
    BY <1>4, DraftTyped DEF FinInv
  <2>2. FinTypeOK'  BY <1>3, <1>4, <2>1
  <2>3. ~mixed => BorneOut(draft[w])'  BY <1>1, <1>2, <2>1 DEF BorneOut
  <2> QED  BY <1>1, <1>4, <2>2, <2>3, WorkerGoesTo DEF States
<1>5. CASE shot[w].wide /\ Draft(w, "changed", TRUE, FALSE) /\ To(w, "upsert")
  <2>1. /\ draft' \in [Runners -> ResultRows]
        /\ draft'[w] = [status |-> "changed", image |-> shot[w], base |-> TRUE, diff |-> FALSE]
    BY <1>5, DraftTyped DEF FinInv
  <2>2. FinTypeOK'  BY <1>3, <1>5, <2>1
  <2>3. ~mixed => BorneOut(draft[w])'  BY <1>1, <1>2, <1>5, <2>1 DEF BorneOut
  <2> QED  BY <1>1, <1>5, <2>2, <2>3, WorkerGoesTo DEF States
<1>6. CASE /\ ~shot[w].wide
           /\ Draft(w, IF MeetsFloors(shot[w]) THEN "changed" ELSE "unchanged", TRUE, FALSE)
           /\ To(w, "diff")
  <2> DEFINE status == IF MeetsFloors(shot[w]) THEN "changed" ELSE "unchanged"
  <2>1. status \in {"new", "changed", "unchanged"}  OBVIOUS
  <2>2. Draft(w, status, TRUE, FALSE)  BY <1>6
  <2> HIDE DEF status
  <2>3. /\ draft' \in [Runners -> ResultRows]
        /\ draft'[w] = [status |-> status, image |-> shot[w], base |-> TRUE, diff |-> FALSE]
    BY <2>1, <2>2, DraftTyped DEF FinInv
  <2>4. FinTypeOK'  BY <1>3, <1>6, <2>3
  <2>5. /\ images'.image = shot'[w] \/ mixed
        /\ draft'[w].image = shot'[w] /\ draft'[w].base /\ ~shot'[w].wide
        /\ draft'[w].status = status
    BY <1>1, <1>2, <1>6, <2>3
  <2>6. draft'[w].status = IF MeetsFloors(shot'[w]) THEN "changed" ELSE "unchanged"
    BY <1>1, <2>5 DEF status
  <2> QED  BY <1>1, <1>6, <2>4, <2>5, <2>6, WorkerGoesTo DEF States
<1> QED  BY <1>4, <1>5, <1>6 DEF Compares

\* The diff image reaches S3 and is named, or the verdict is dropped.
LEMMA PutsDiffInv ==
  ASSUME ShotsAssumption, FinInv, NEW w \in Runners, PutsDiff(w)
  PROVE  FinInv'
<1>1. doing[w] = "diff" /\ UNCHANGED <<baseline, shot, result, mixed, captures>>
  BY DEF PutsDiff
<1>2. ~mixed => /\ images.image = shot[w]
                /\ draft[w].image = shot[w] /\ draft[w].base /\ ~shot[w].wide
                /\ draft[w].status = IF MeetsFloors(shot[w]) THEN "changed" ELSE "unchanged"
  BY <1>1 DEF FinInv, DraftInv
<1>3. CASE /\ images' = [images EXCEPT !.diff = shot[w]]
           /\ draft' = [draft EXCEPT ![w].diff = TRUE] /\ To(w, "upsert")
           /\ UNCHANGED <<attempt, errors>>
  <2>1. /\ images' \in [image : Shots \cup {NoShot}, diff : Shots \cup {NoShot}]
        /\ images'.diff = shot[w] /\ images'.image = images.image
    BY <1>3 DEF FinInv, FinTypeOK
  <2>2. draft' \in [Runners -> ResultRows]  BY <1>3 DEF FinInv, FinTypeOK, ResultRows
  <2>3. /\ draft'[w].image = draft[w].image /\ draft'[w].base = draft[w].base
        /\ draft'[w].status = draft[w].status /\ draft'[w].diff
    BY <1>3 DEF FinInv, FinTypeOK, ResultRows
  <2>4. doing' \in [Runners -> States]  BY <1>3 DEF FinInv, FinTypeOK, To, States
  <2>5. FinTypeOK'  BY <1>1, <1>3, <2>1, <2>2, <2>4 DEF FinInv, FinTypeOK, States
  <2>6. ~mixed => BorneOut(draft[w])'
    <3>1. SUFFICES ASSUME ~mixed PROVE BorneOut(draft[w])'  OBVIOUS
    <3>2. /\ images'.image = draft'[w].image /\ images'.diff = draft'[w].image
          /\ draft'[w].diff /\ draft'[w].base /\ draft'[w].image = shot[w]
      BY <1>2, <2>1, <2>3, <3>1
    <3>3. draft'[w].status = "changed" => MeetsFloors(draft'[w].image)
      BY <1>2, <2>3, <3>1, <3>2
    <3>4. ~draft'[w].image.wide  BY <1>2, <3>1, <3>2
    <3> QED  BY <3>2, <3>3, <3>4 DEF BorneOut
  <2> QED  BY <1>1, <1>3, <2>5, <2>6, WorkerGoesTo DEF States
<1>4. CASE Errs /\ StorageError(w) /\ UNCHANGED <<images, draft>>
  <2>1. PICK x \in {"put", "record"} : To(w, x)
    BY <1>4, StorageErrorTyped DEF FinInv
  <2>2. doing' \in [Runners -> States]  BY <2>1 DEF FinInv, FinTypeOK, To, States
  <2>3. errors' \in 0 .. MaxErrors  BY <1>4, ErrsTyped DEF FinInv, FinTypeOK
  <2>4. attempt' \in [Runners -> 1 .. 2]  BY <1>4, StorageErrorTyped DEF FinInv
  <2>5. FinTypeOK'  BY <1>1, <1>4, <2>2, <2>3, <2>4 DEF FinInv, FinTypeOK, States
  <2> QED  BY <1>1, <2>1, <2>5, WorkerGoesTo DEF States
<1>5. CASE Errs /\ Draft(w, "new", TRUE, FALSE) /\ To(w, "upsert") /\ UNCHANGED <<images, attempt>>
  <2>1. /\ draft' \in [Runners -> ResultRows]
        /\ draft'[w] = [status |-> "new", image |-> shot[w], base |-> TRUE, diff |-> FALSE]
    BY <1>5, DraftTyped DEF FinInv
  <2>2. doing' \in [Runners -> States]  BY <1>5 DEF FinInv, FinTypeOK, To, States
  <2>3. errors' \in 0 .. MaxErrors  BY <1>5, ErrsTyped DEF FinInv, FinTypeOK
  <2>4. FinTypeOK'  BY <1>1, <1>5, <2>1, <2>2, <2>3 DEF FinInv, FinTypeOK, States
  <2>5. ~mixed => BorneOut(draft[w])'  BY <1>2, <1>5, <2>1 DEF BorneOut
  <2> QED  BY <1>1, <1>5, <2>4, <2>5, WorkerGoesTo DEF States
<1> QED  BY <1>3, <1>4, <1>5 DEF PutsDiff

\* The row is what was drafted.
LEMMA UpsertsInv ==
  ASSUME ShotsAssumption, FinInv, NEW w \in Runners, Upserts(w)
  PROVE  FinInv'
<1>1. doing[w] = "upsert" /\ UNCHANGED <<baseline, shot, draft, images, mixed, captures>>
  BY DEF Upserts
<1>2. CASE result' = draft[w] /\ To(w, "idle") /\ UNCHANGED <<attempt, errors>>
  <2>1. doing' \in [Runners -> States]  BY <1>2 DEF FinInv, FinTypeOK, To, States
  <2>2. result' \in ResultRows  BY <1>2 DEF FinInv, FinTypeOK
  <2>3. FinTypeOK'  BY <1>1, <1>2, <2>1, <2>2 DEF FinInv, FinTypeOK, States
  <2>4. ~mixed => BorneOut(draft[w])  BY <1>1 DEF FinInv, DraftInv
  <2>5. ~mixed => BorneOut(result)'  BY <1>1, <1>2, <2>4 DEF BorneOut
  <2> QED  BY <1>1, <1>2, <2>3, <2>5, WorkerGoesTo DEF States
<1>3. CASE Errs /\ OtherError(w) /\ UNCHANGED result
  <2>1. To(w, "record") /\ UNCHANGED attempt  BY <1>3 DEF OtherError
  <2>2. doing' \in [Runners -> States]  BY <2>1 DEF FinInv, FinTypeOK, To, States
  <2>3. errors' \in 0 .. MaxErrors  BY <1>3, ErrsTyped DEF FinInv, FinTypeOK
  <2>4. FinTypeOK'  BY <1>1, <1>3, <2>1, <2>2, <2>3 DEF FinInv, FinTypeOK, States
  <2> QED  BY <1>1, <2>1, <2>4, WorkerGoesTo DEF States
<1> QED  BY <1>2, <1>3 DEF Upserts

\* A failure is recorded; if even that fails the history is mixed.
LEMMA RecordsInv ==
  ASSUME ShotsAssumption, FinInv, NEW w \in Runners, Records(w)
  PROVE  FinInv'
<1>1. /\ doing[w] = "record" /\ To(w, "idle")
      /\ UNCHANGED <<baseline, attempt, shot, draft, images, captures>>
  BY DEF Records
<1>2. doing' \in [Runners -> States]  BY <1>1 DEF FinInv, FinTypeOK, To, States
<1>3. CASE result' = [NoRow EXCEPT !.status = "failed"] /\ UNCHANGED <<errors, mixed>>
  <2>1. result' \in ResultRows /\ result'.status = "failed"  BY <1>3 DEF NoRow, ResultRows
  <2>2. FinTypeOK'  BY <1>1, <1>2, <1>3, <2>1 DEF FinInv, FinTypeOK, States
  <2> QED  BY <1>1, <1>3, <2>1, <2>2, WorkerGoesTo DEF States
<1>4. CASE Errs /\ mixed' = TRUE /\ UNCHANGED result
  <2>1. errors' \in 0 .. MaxErrors  BY <1>4, ErrsTyped DEF FinInv, FinTypeOK
  <2>2. FinTypeOK'  BY <1>1, <1>2, <1>4, <2>1 DEF FinInv, FinTypeOK, States
  <2> QED  BY <1>4, <2>2 DEF FinInv, AloneInv, DraftInv, RowMatchesImages
<1> QED  BY <1>3, <1>4 DEF Records

\* The inductive invariant holds in every reachable state.
THEOREM FinalizeInvariance == ASSUME ShotsAssumption PROVE FinSpec => []FinInv
<1>1. FinInit => FinInv  BY FinInitInv
<1>2. FinInv /\ [FinNext]_finVars => FinInv'
  <2> SUFFICES ASSUME FinInv, [FinNext]_finVars PROVE FinInv'  OBVIOUS
  <2>1. CASE UNCHANGED finVars
    <3>1. /\ UNCHANGED <<baseline, doing, attempt, shot, draft>>
          /\ UNCHANGED <<images, result, mixed, captures, errors>>
      BY <2>1 DEF finVars
    <3>2. FinTypeOK'  BY <3>1 DEF FinInv, FinTypeOK
    <3>3. AtWork' = AtWork  BY <3>1 DEF AtWork
    <3>4. AloneInv'  BY <3>1, <3>3 DEF FinInv, AloneInv
    <3>5. DraftInv'  BY <3>1 DEF FinInv, DraftInv, BorneOut
    <3>6. RowMatchesImages'  BY <3>1, <3>3 DEF FinInv, RowMatchesImages
    <3> QED  BY <3>2, <3>4, <3>5, <3>6 DEF FinInv
  <2>2. CASE FinNext
    BY <2>2, CapturedInv, PutsScreenshotInv, ComparesInv, PutsDiffInv, UpsertsInv, RecordsInv
    DEF FinNext
  <2> QED  BY <2>1, <2>2
<1> QED  BY <1>1, <1>2, PTL DEF FinSpec

\* Every variable stays of its type, whatever fails.
THEOREM FinalizeTypeCorrect == ASSUME ShotsAssumption PROVE FinSpec => []FinTypeOK
<1>1. FinInv => FinTypeOK  BY DEF FinInv
<1> QED  BY <1>1, FinalizeInvariance, PTL

\* What a reviewer is shown belongs together, however often the story was captured and
\* whatever failed on the way, unless two workers ran it at once or the last could not record.
THEOREM VerdictIsOnItsImages == ASSUME ShotsAssumption PROVE FinSpec => []RowMatchesImages
<1>1. FinInv => RowMatchesImages  BY DEF FinInv
<1> QED  BY <1>1, FinalizeInvariance, PTL
=============================================================================
