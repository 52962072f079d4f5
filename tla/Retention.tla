------------------------------ MODULE Retention ------------------------------
(***************************************************************************)
(* The retention reaper (worker/src/retention.ts) next to the builds whose *)
(* images it deletes: the rows of one project, their objects in S3, the    *)
(* result rows that point at the images of a baseline build, and the       *)
(* workers, each of which sweeps on its own timer.                         *)
(*                                                                         *)
(* A build is a number, in the order of created_at; its story is one       *)
(* story.  Deletion of an account's objects is in module Uploads.          *)
(***************************************************************************)
EXTENDS Naturals, FiniteSets, FiniteSetsExt

CONSTANTS
  MaxBuilds,      \* bound on the builds uploaded
  Commits,        \* commits they are builds of
  Histories,      \* which commit each build is of, and which it is compared with
  Sweepers,       \* workers
  KeepLastN,      \* RETENTION_KEEP_LAST_N
  MaxPerSweep,    \* RETENTION_MAX_BUILDS_PER_SWEEP
  MaxReapFaults   \* bound on S3 errors, lost connections and crashes

\* What is assumed of the constants, where the module is instantiated.
RetentionAssumption ==
  MaxBuilds \in Nat /\ KeepLastN \in Nat /\ MaxPerSweep \in Nat \ {0} /\ MaxReapFaults \in Nat
BuildNos == 1 .. MaxBuilds
HistoriesAssumption ==
  Histories \subseteq [commit : [BuildNos -> Commits], base : [BuildNos -> Commits \cup {"none"}]]

VARIABLES
  rowOf,          \* the row: "none", "open" (pending, running), "closed", "gone"
  history,        \* commit_sha and base_commit_sha of each build; a base may be no commit
  baseRead,       \* the build whose result its worker fetched as the baseline
  results,        \* builds that have result rows
  refs,           \* what their baseline_image_url points at
  objects,        \* what S3 holds of each build
  cutoff,         \* builds up to this one are older than RETENTION_DAYS
  doomed,         \* builds a sweeper has selected and not yet done with
  emptied,        \* the first of them has no object left
  excused,        \* history: references the reaper could not have known, or whose own build
                  \* was eligible too
  reapFaults

retVars == <<rowOf, history, baseRead, results, refs, objects, cutoff, doomed, emptied,
             excused, reapFaults>>
reaper == <<doomed, emptied>>

NoBuild  == 0
Unread   == MaxBuilds + 1
Kept     == {b \in BuildNos : rowOf[b] \in {"open", "closed"}}

RetTypeOK ==
  /\ rowOf \in [BuildNos -> {"none", "open", "closed", "gone"}]
  /\ history \in Histories
  /\ baseRead \in [BuildNos -> {NoBuild, Unread} \cup BuildNos] /\ results \in SUBSET BuildNos
  /\ refs \in [BuildNos -> {NoBuild} \cup BuildNos]
  /\ objects \in [BuildNos -> SUBSET {"images", "tarball"}] /\ cutoff \in 0 .. MaxBuilds
  /\ doomed \in [Sweepers -> SUBSET BuildNos] /\ emptied \in [Sweepers -> BOOLEAN]
  /\ excused \in SUBSET (BuildNos \X BuildNos) /\ reapFaults \in 0 .. MaxReapFaults

RetInit ==
  /\ rowOf = [b \in BuildNos |-> "none"] /\ history \in Histories
  /\ baseRead = [b \in BuildNos |-> Unread] /\ results = {}
  /\ refs = [b \in BuildNos |-> NoBuild] /\ objects = [b \in BuildNos |-> {}]
  /\ cutoff = 0 /\ doomed = [w \in Sweepers |-> {}] /\ emptied = [w \in Sweepers |-> FALSE]
  /\ excused = {} /\ reapFaults = 0

ReapFault == reapFaults < MaxReapFaults /\ reapFaults' = reapFaults + 1

----------------------------------------------------------------------------
(* Builds.                                                                 *)

Uploaded(b) ==
  /\ rowOf[b] = "none" /\ \A c \in 1 .. b - 1 : rowOf[c] # "none"
  /\ rowOf' = [rowOf EXCEPT ![b] = "open"]
  /\ objects' = [objects EXCEPT ![b] = {"tarball"}]
  /\ UNCHANGED <<history, baseRead, results, refs, cutoff, reaper, excused, reapFaults>>

\* deletePreviousTestResults, then fetchBaseTestResults: of several builds of the base commit
\* the row that comes last wins.
Prefetches(b) ==
  /\ rowOf[b] = "open" /\ baseRead[b] = Unread
  /\ LET left == {c \in results : c = b \/ history.commit[c] # history.commit[b]}
         base == {c \in left : history.commit[c] = history.base[b]} IN
     /\ results' = left
     /\ refs' = [c \in BuildNos |-> IF c \in left THEN refs[c] ELSE NoBuild]
     /\ \E c \in IF base = {} THEN {NoBuild} ELSE base : baseRead' = [baseRead EXCEPT ![b] = c]
  /\ UNCHANGED <<rowOf, history, objects, cutoff, reaper, excused, reapFaults>>

\* finalizeStory: the image is uploaded, then the row is written with the baseline's image URL.
Selected == UNION {doomed[w] : w \in Sweepers}
Finalizes(b) ==
  /\ rowOf[b] = "open" /\ baseRead[b] # Unread /\ b \notin results
  /\ results' = results \cup {b} /\ refs' = [refs EXCEPT ![b] = baseRead[b]]
  /\ objects' = [objects EXCEPT ![b] = @ \cup {"images"}]
  /\ excused' = excused \cup {p \in {<<b, baseRead[b]>>} :
                          /\ p[2] # NoBuild
                          /\ p[2] \in Selected \/ "images" \notin objects[p[2]]}
  /\ UNCHANGED <<rowOf, history, baseRead, cutoff, reaper, reapFaults>>

Closes(b) ==
  /\ rowOf[b] = "open" /\ rowOf' = [rowOf EXCEPT ![b] = "closed"]
  /\ UNCHANGED <<history, baseRead, results, refs, objects, cutoff, reaper, excused,
                 reapFaults>>

Ages ==
  /\ cutoff < MaxBuilds /\ rowOf[cutoff + 1] # "none" /\ cutoff' = cutoff + 1
  /\ UNCHANGED <<rowOf, history, baseRead, results, refs, objects, reaper, excused,
                 reapFaults>>

----------------------------------------------------------------------------
(* runRetentionSweep.                                                      *)

Closed == {b \in BuildNos : rowOf[b] = "closed"}

\* Rank first, then age: a project that builds rarely keeps its last N whatever their age.
Candidates == {b \in Closed : Cardinality({c \in Closed : c >= b}) > KeepLastN /\ b <= cutoff}

\* Mistake: only finished builds protect their baseline.
ProtectedByClosed(b) == \E r \in Closed \ (Candidates \cup {b}) : refs[r] = b
\* A build that stays points at its images; one that is still open counts.
Protected(b) == \E r \in Kept \ (Candidates \cup {b}) : refs[r] = b

\* The oldest of them, as many as one sweep takes.
SelectReapableBuilds ==
  LET due == {b \in Candidates : ~Protected(b)} IN
  {b \in due : Cardinality({c \in due : c < b}) < MaxPerSweep}

SweepStarts(w) ==
  /\ doomed[w] = {} /\ SelectReapableBuilds # {}
  /\ doomed' = [doomed EXCEPT ![w] = SelectReapableBuilds]
  /\ emptied' = [emptied EXCEPT ![w] = FALSE]
  /\ excused' = excused \cup {p \in Candidates \X SelectReapableBuilds :
                               refs[p[1]] = p[2]}
  /\ UNCHANGED <<rowOf, history, baseRead, results, refs, objects, cutoff, reapFaults>>

\* They are taken one by one, the oldest first.
Turn(w) == Min(doomed[w])
NextDoomed(w) ==
  doomed' = [doomed EXCEPT ![w] = @ \ {Turn(w)}] /\ emptied' = [emptied EXCEPT ![w] = FALSE]

\* deleteObjectsByPrefixes over the images' prefix and the tarball.  Object errors, and a call
\* that throws, leave some of them: the row stays for another sweep.
ObjectsGo(w) ==
  /\ doomed[w] # {} /\ ~emptied[w]
  /\ \/ /\ objects' = [objects EXCEPT ![Turn(w)] = {}]
        /\ emptied' = [emptied EXCEPT ![w] = TRUE] /\ UNCHANGED <<doomed, reapFaults>>
     \/ /\ ReapFault /\ NextDoomed(w)
        /\ \E left \in SUBSET objects[Turn(w)] :
             objects' = [objects EXCEPT ![Turn(w)] = left]
  /\ UNCHANGED <<rowOf, history, baseRead, results, refs, cutoff, excused>>

\* The row goes, and its results with it.
RowGoes(w) ==
  /\ emptied[w] /\ NextDoomed(w)
  /\ LET b == Turn(w) IN
     /\ rowOf' = [rowOf EXCEPT ![b] = "gone"] /\ results' = results \ {b}
     /\ refs' = [refs EXCEPT ![b] = NoBuild]
  /\ UNCHANGED <<history, baseRead, objects, cutoff, excused, reapFaults>>

\* The worker stops, or the delete fails.
SweepStops(w) ==
  /\ doomed[w] # {} /\ ReapFault
  /\ doomed' = [doomed EXCEPT ![w] = {}] /\ emptied' = [emptied EXCEPT ![w] = FALSE]
  /\ UNCHANGED <<rowOf, history, baseRead, results, refs, objects, cutoff, excused>>

RetNext ==
  \/ \E b \in BuildNos : Uploaded(b) \/ Prefetches(b) \/ Finalizes(b) \/ Closes(b)
  \/ Ages
  \/ \E w \in Sweepers : SweepStarts(w) \/ ObjectsGo(w) \/ RowGoes(w) \/ SweepStops(w)
RetSpec == RetInit /\ [][RetNext]_retVars

----------------------------------------------------------------------------
(* Properties.                                                             *)

\* A retained build can show the baseline it was compared with (retention.ts:37-43): its images
\* are there, unless the reference was saved when the baseline was being reaped, or had lost its
\* images to a sweep that failed, or the build that holds it was eligible with it.
BaselinesStay ==
  \A r \in Kept : refs[r] # NoBuild /\ <<r, refs[r]>> \notin excused =>
    "images" \in objects[refs[r]]

\* Nothing of a build is left in S3 without a row to find it by, whatever fails between the
\* deletions (retention.ts:100-107).
NoOrphans == \A b \in BuildNos : rowOf[b] = "gone" => objects[b] = {}

\* What a sweep leaves: the images of the retained builds, and no object without a row
\* (runRetentionSweep).
ReapsWholly == BaselinesStay /\ NoOrphans
=============================================================================
