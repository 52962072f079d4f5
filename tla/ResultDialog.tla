----------------------------- MODULE ResultDialog -----------------------------
(***************************************************************************)
(* The dialog in which a reviewer looks at one result of a build           *)
(* (frontend/src/components/TestResultDialog.tsx), over the list of the    *)
(* build page (pages/build.tsx), which polls while the build is running.   *)
(*                                                                         *)
(* A render and its effects are two steps: the effects choose the view     *)
(* mode, clear the flags of the images that failed to load, and put up the *)
(* keyboard listener, which closes over the render it belongs to.  React   *)
(* runs the effects of a render at the latest before the next render.  A   *)
(* poll that fails takes page and dialog away (BuildPage).                 *)
(***************************************************************************)
EXTENDS Integers

CONSTANTS
  ResultLooks,          \* what results of this build look like
  StoryNames,          \* names of the stories, in alphabetical order: numbers
  NoResult,
  BadImages,      \* <<name, slot>>: images that do not load
  MaxPolls        \* bound on the polls that change the list

Slots == {"new", "old", "mask"}
\* changeStatus, and which of the image URLs are there; a failure may have a screenshot.
Kind  == [status : {"failed", "changed", "new", "unchanged"}, images : SUBSET Slots]
\* What is assumed of the constants, where the module is instantiated.
DialogAssumption ==
  ResultLooks \subseteq Kind /\ StoryNames \subseteq Nat /\ MaxPolls \in Nat

VARIABLES
  listed,         \* sortedTestResults, whose order Precedes gives
  run,            \* how often the results were deleted: those that follow have other ids
  selected,         \* selectedResult: as it was when it was selected
  viewMode,
  preferred,      \* preferredViewMode
  imageErrors,    \* screenshotError, ancestorScreenshotError, diffMaskError
  due,            \* the effects of the last render have not run
  listener,       \* what the keyboard listener closes over
  polls

dialogVars == <<listed, run, selected, viewMode, preferred, imageErrors, due, listener, polls>>

Modes   == {"new", "old", "diff", "split"}
ListedResults == [name : StoryNames, run : 0 .. MaxPolls, kind : ResultLooks]
NoKeys  == [result |-> NoResult, listed |-> {}]

DialogTypeOK ==
  /\ listed \in SUBSET ListedResults /\ run \in 0 .. MaxPolls
  /\ selected \in ListedResults \cup {NoResult}
  /\ viewMode \in Modes /\ preferred \in Modes /\ imageErrors \in SUBSET Slots
  /\ due \in BOOLEAN /\ polls \in 0 .. MaxPolls
  /\ listener.result \in ListedResults \cup {NoResult} /\ listener.listed \in SUBSET ListedResults

DialogInit ==
  /\ listed = {} /\ run = 0 /\ selected = NoResult /\ viewMode = "diff" /\ preferred = "diff"
  /\ imageErrors = {} /\ due = FALSE /\ listener = NoKeys /\ polls = 0

----------------------------------------------------------------------------
(* The effects.                                                            *)

SameId(a, b) == a.name = b.name /\ a.run = b.run

\* Whether the result is another one than that of the effects before: a closed dialog counts.
OtherResult ==
  IF selected = NoResult \/ listener.result = NoResult THEN selected # listener.result
                                                    ELSE ~SameId(selected, listener.result)

CanShowOld == "old" \in selected.kind.images /\ selected.kind.status # "new"
CanShowDiff == CanShowOld /\ "mask" \in selected.kind.images
CanShow(mode) == CASE mode = "old" -> CanShowOld [] mode = "diff" -> CanShowDiff [] OTHER -> TRUE

\* Mistake: the mode that does not fit is dropped, the one asked for last is not tried again.
TargetModeForgets == IF selected = NoResult \/ CanShow(viewMode) THEN viewMode ELSE "new"

TargetMode ==
  IF selected = NoResult THEN viewMode
  ELSE IF CanShow(preferred) THEN preferred ELSE IF CanShow(viewMode) THEN viewMode ELSE "new"

Reset == IF OtherResult THEN {} ELSE imageErrors
Listens == listener' = [result |-> selected, listed |-> listed]

\* What runs before the next render if it has not run yet; nothing changes if it has.
Flush == Listens /\ imageErrors' = Reset /\ viewMode' = TargetMode

Effects ==
  /\ due /\ due' = FALSE /\ Flush
  /\ UNCHANGED <<listed, run, selected, preferred, polls>>

----------------------------------------------------------------------------
(* The list.                                                               *)

Rank(status) == CASE status = "failed" -> 0 [] status = "changed" -> 1
                  [] status = "new" -> 2 [] OTHER -> 3

Precedes(a, b) == \/ Rank(a.kind.status) < Rank(b.kind.status)
                  \/ Rank(a.kind.status) = Rank(b.kind.status) /\ a.name < b.name
NextIn(list, a, b) == Precedes(a, b) /\ ~\E o \in list : Precedes(a, o) /\ Precedes(o, b)

Polled(results, n) ==
  /\ polls < MaxPolls /\ polls' = polls + 1
  /\ listed' = results /\ run' = n /\ due' = TRUE
  /\ Flush /\ UNCHANGED <<selected, preferred>>

\* A story's result is inserted, or a later attempt of the same run writes over it.
StoryDone(name, kind) ==
  LET r == [name |-> name, run |-> run, kind |-> kind]
  IN Polled({o \in listed : ~SameId(o, r)} \cup {r}, run)

\* Another build of the commit deletes the results.
Superseded == listed # {} /\ Polled({}, run + 1)

----------------------------------------------------------------------------
(* What the reviewer does.                                                 *)

ShowsResult(r) ==
  selected' = r /\ due' = TRUE /\ Flush /\ UNCHANGED <<listed, run, preferred, polls>>

OpensCard(r) == selected = NoResult /\ ShowsResult(r)
Dismisses == selected # NoResult /\ ShowsResult(NoResult)

\* The buttons belong to the render that is on the screen, the arrow keys to the one whose
\* effects ran last.
Steps(at, by) ==
  \E here, there \in at.listed :
    /\ SameId(here, at.result) /\ ShowsResult(there)
    /\ IF by = 1 THEN NextIn(at.listed, here, there) ELSE NextIn(at.listed, there, here)

ClicksArrow(by) == selected # NoResult /\ Steps([result |-> selected, listed |-> listed], by)
PressesArrow(by) == listener.result # NoResult /\ Steps(listener, by)

PicksMode(mode) ==
  /\ selected # NoResult /\ CanShow(mode) /\ mode # viewMode
  /\ Listens /\ imageErrors' = Reset /\ preferred' = mode /\ due' = TRUE
  /\ viewMode' = IF TargetMode = viewMode THEN mode ELSE TargetMode
  /\ UNCHANGED <<listed, run, selected, polls>>

----------------------------------------------------------------------------
(* What is on the screen.                                                  *)

\* The icon of a failed image, the image, or a line that says there is none.
Pane(slot) ==
  IF slot \in imageErrors THEN "icon"
  ELSE IF slot \in selected.kind.images THEN "image" ELSE "line"

\* The slots whose pane the view mode shows; the mask lies over the new image.
Drawn ==
  CASE viewMode = "split" -> {"old", "new"}
    [] viewMode = "old" -> {"old"}
    [] viewMode = "diff" /\ Pane("new") # "icon" /\ Pane("mask") = "image" -> {"new", "mask"}
    [] OTHER -> {"new"}

ImageFails(slot) ==
  /\ selected # NoResult /\ slot \in Drawn /\ Pane(slot) = "image"
  /\ <<selected.name, slot>> \in BadImages /\ due' = TRUE
  /\ Listens /\ viewMode' = TargetMode
  /\ imageErrors' = IF OtherResult THEN {} ELSE imageErrors \cup {slot}
  /\ UNCHANGED <<listed, run, selected, preferred, polls>>

DialogNext ==
  \/ \E name \in StoryNames, kind \in ResultLooks : StoryDone(name, kind)
  \/ Superseded \/ Dismisses \/ Effects
  \/ \E r \in listed : OpensCard(r)
  \/ \E by \in {-1, 1} : ClicksArrow(by) \/ PressesArrow(by)
  \/ \E mode \in Modes : PicksMode(mode)
  \/ \E slot \in Slots : ImageFails(slot)
DialogSpec == DialogInit /\ [][DialogNext]_dialogVars

----------------------------------------------------------------------------
AtRest == selected # NoResult /\ ~due

\* However the reviewer gets from one result to the next, each is shown in a view it has, and in
\* the one asked for last where it has that (TestResultDialog.tsx, the view-mode effect).
ViewFits == AtRest => CanShow(viewMode) /\ (CanShow(preferred) => viewMode = preferred)

\* An image is reported broken only on the result whose image it is (the reset effect).
BrokenIsOwn ==
  AtRest => \A slot \in Drawn : Pane(slot) = "icon" => <<selected.name, slot>> \in BadImages
=============================================================================
