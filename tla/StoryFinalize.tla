---------------------------- MODULE StoryFinalize ----------------------------
(***************************************************************************)
(* The browser-free half of a story (worker/src/stories.ts, finalizeStory, *)
(* finalizeStoryWithRecording, recordErrorTestResult): its screenshot goes *)
(* to S3, is compared with the baseline's, the diff goes to S3, and one    *)
(* row, upserted on (build, story), says how it ended.                     *)
(*                                                                         *)
(* A chunk may run again after an attempt that failed, or on a second      *)
(* worker while the first still runs: both write the same keys and the     *)
(* same row.                                                               *)
(***************************************************************************)
EXTENDS Naturals, FiniteSets

CONSTANTS
  Runners,        \* workers that may run the story's chunk
  Shots,          \* what a capture may look like against the baseline
  NoShot,
  Area,           \* pixels of an image
  MinPixels,      \* WORKER_CHANGED_MIN_PIXELS
  MinPercent,     \* WORKER_CHANGED_THRESHOLD, of Area
  MaxCaptures,    \* bound on the captures of the story
  MaxErrors       \* bound on the calls that fail

Shot == [wide : BOOLEAN, pixels : Nat]   \* another width; the number of pixels that differ
\* What is assumed of the constants, where the module is instantiated.
ShotsAssumption ==
  /\ Shots \subseteq Shot /\ Area \in Nat \ {0}
  /\ MaxCaptures \in Nat /\ MaxErrors \in Nat

VARIABLES
  baseline,       \* the base result: none, without an upload, or its image in S3
  doing,          \* where each worker's finalize is
  attempt,        \* its attempt
  shot,           \* what it captured
  draft,          \* the row it is about to write
  images,         \* the screenshot and the diff image S3 holds for the story
  result,         \* the story's test_results row
  mixed,          \* history: the last finalize threw, or two overlapped
  captures, errors

finVars == <<baseline, doing, attempt, shot, draft, images, result, mixed, captures, errors>>

NoRow == [status |-> "none", image |-> NoShot, base |-> FALSE, diff |-> FALSE]
ResultRows == [status : {"none", "new", "changed", "unchanged", "failed"},
               image : Shots \cup {NoShot}, base : BOOLEAN, diff : BOOLEAN]
Nothing == [image |-> NoShot, diff |-> NoShot]

FinTypeOK ==
  /\ baseline \in {"none", "detached", "missing", "corrupt", "there"}
  /\ doing \in [Runners -> {"idle", "put", "compare", "diff", "upsert", "record"}]
  /\ attempt \in [Runners -> 1 .. 2] /\ shot \in [Runners -> Shots \cup {NoShot}]
  /\ draft \in [Runners -> ResultRows] /\ result \in ResultRows
  /\ images \in [image : Shots \cup {NoShot}, diff : Shots \cup {NoShot}]
  /\ mixed \in BOOLEAN /\ captures \in 0 .. MaxCaptures /\ errors \in 0 .. MaxErrors

FinInit ==
  /\ baseline \in {"none", "detached", "missing", "corrupt", "there"}
  /\ doing = [w \in Runners |-> "idle"] /\ attempt = [w \in Runners |-> 1]
  /\ shot = [w \in Runners |-> NoShot] /\ draft = [w \in Runners |-> NoRow]
  /\ images = Nothing /\ result = NoRow /\ mixed = FALSE /\ captures = 0 /\ errors = 0

Errs == errors < MaxErrors /\ errors' = errors + 1
To(w, to) == doing' = [doing EXCEPT ![w] = to]
AtWork == {w \in Runners : doing[w] # "idle"}

\* A chunk's capture of the story hands its buffer over.
Captured(w, s) ==
  /\ doing[w] = "idle" /\ captures < MaxCaptures /\ captures' = captures + 1
  /\ To(w, "put") /\ shot' = [shot EXCEPT ![w] = s] /\ attempt' = [attempt EXCEPT ![w] = 1]
  /\ mixed' = (AtWork # {})
  /\ UNCHANGED <<baseline, draft, images, result, errors>>

\* Mistake: as many attempts as there are errors.
StorageErrorAlways(w) == To(w, "put") /\ attempt' = [attempt EXCEPT ![w] = @ + 1]
\* finalizeStoryWithRecording: a StorageError gets one more attempt, the rest is recorded.
StorageError(w) ==
  IF attempt[w] = 1 THEN To(w, "put") /\ attempt' = [attempt EXCEPT ![w] = 2]
                  ELSE To(w, "record") /\ UNCHANGED attempt
OtherError(w) == To(w, "record") /\ UNCHANGED attempt

PutsScreenshot(w) ==
  /\ doing[w] = "put"
  /\ \/ /\ images' = [images EXCEPT !.image = shot[w]] /\ To(w, "compare")
        /\ UNCHANGED <<attempt, errors>>
     \/ Errs /\ StorageError(w) /\ UNCHANGED images
  /\ UNCHANGED <<baseline, shot, draft, result, mixed, captures>>

Draft(w, status, base, diff) ==
  draft' = [draft EXCEPT ![w] =
              [status |-> status, image |-> shot[w], base |-> base, diff |-> diff]]

\* An absolute floor and a relative one; none of them makes equal images differ.
MeetsFloors(s) ==
  s.pixels > 0 /\ s.pixels >= MinPixels /\ s.pixels * 100 >= MinPercent * Area

\* A baseline that is missing or cannot be decoded makes the story new.
Compares(w) ==
  /\ doing[w] = "compare"
  /\ \/ baseline \in {"none", "detached"} /\ Draft(w, "new", FALSE, FALSE) /\ To(w, "upsert")
     \/ baseline \in {"missing", "corrupt"} /\ Draft(w, "new", TRUE, FALSE) /\ To(w, "upsert")
     \/ /\ baseline = "there" /\ shot[w].wide
        /\ Draft(w, "changed", TRUE, FALSE) /\ To(w, "upsert")
     \/ /\ baseline = "there" /\ ~shot[w].wide
        /\ Draft(w, IF MeetsFloors(shot[w]) THEN "changed" ELSE "unchanged", TRUE, FALSE)
        /\ To(w, "diff")
  /\ UNCHANGED <<baseline, attempt, shot, images, result, mixed, captures, errors>>

\* Mistake: the upload of the diff is caught with the rest.
PutsDiffCaught(w) ==
  /\ doing[w] = "diff"
  /\ draft' = [draft EXCEPT ![w].diff = TRUE] /\ To(w, "upsert")
  /\ \/ images' = [images EXCEPT !.diff = shot[w]] /\ UNCHANGED errors
     \/ Errs /\ UNCHANGED images
  /\ UNCHANGED <<baseline, attempt, shot, result, mixed, captures>>

\* The diff image: its upload is a StorageError, a local failure makes the story new.
PutsDiff(w) ==
  /\ doing[w] = "diff"
  /\ \/ /\ images' = [images EXCEPT !.diff = shot[w]]
        /\ draft' = [draft EXCEPT ![w].diff = TRUE] /\ To(w, "upsert")
        /\ UNCHANGED <<attempt, errors>>
     \/ Errs /\ StorageError(w) /\ UNCHANGED <<images, draft>>
     \/ /\ Errs /\ Draft(w, "new", TRUE, FALSE) /\ To(w, "upsert")
        /\ UNCHANGED <<images, attempt>>
  /\ UNCHANGED <<baseline, shot, result, mixed, captures>>

\* upsertTestResult.
Upserts(w) ==
  /\ doing[w] = "upsert"
  /\ \/ result' = draft[w] /\ To(w, "idle") /\ UNCHANGED <<attempt, errors>>
     \/ Errs /\ OtherError(w) /\ UNCHANGED result
  /\ UNCHANGED <<baseline, shot, draft, images, mixed, captures>>

\* recordErrorTestResult; what it throws ends the finalize.
Records(w) ==
  /\ doing[w] = "record" /\ To(w, "idle")
  /\ \/ result' = [NoRow EXCEPT !.status = "failed"] /\ UNCHANGED <<errors, mixed>>
     \/ Errs /\ mixed' = TRUE /\ UNCHANGED result
  /\ UNCHANGED <<baseline, attempt, shot, draft, images, captures>>

FinNext ==
  \E w \in Runners :
    \/ \E s \in Shots : Captured(w, s)
    \/ PutsScreenshot(w) \/ Compares(w) \/ PutsDiff(w) \/ Upserts(w) \/ Records(w)
FinSpec == FinInit /\ [][FinNext]_finVars

----------------------------------------------------------------------------
\* What a reviewer is shown belongs together: the row's verdict was reached on the screenshot
\* and the diff that its keys name, however often the story was captured and whatever failed on
\* the way - unless two workers ran it at once, or the last finalize could not even record.
RowMatchesImages ==
  AtWork = {} /\ ~mixed /\ result.status \in {"new", "changed", "unchanged"} =>
    /\ images.image = result.image
    /\ result.diff => images.diff = result.image
    /\ result.status = "changed" => result.base /\ (result.image.wide \/ MeetsFloors(result.image))
    /\ result.status = "unchanged" => result.diff /\ ~result.image.wide
=============================================================================
