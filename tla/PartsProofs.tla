---------------------------- MODULE PartsProofs ----------------------------
(***************************************************************************)
(* Proofs about five parts: what the retention reaper leaves (Retention),  *)
(* where a sign-in ends (SignIn), what a sync of installations has linked  *)
(* (Installations), what leaves a browser session (PageRequests) and what  *)
(* a chunk is served from a worker's disk (UploadCache); and about four of *)
(* the functions (Formulas): chunks, keys, hosts and pages of a list.      *)
(***************************************************************************)
EXTENDS Retention, SignIn, Installations, PageRequests, UploadCache, Formulas,
        FiniteSetTheorems, SequenceTheorems, WellFoundedInduction, TLAPS

----------------------------------------------------------------------------
(* Retention: for any number of builds and of workers, any histories, any  *)
(* bounds of a sweep and any number of failures.                           *)

\* A sweep holds builds that were closed when it selected them and may only have gone since; the
\* one it has emptied is empty.
DoomedInv ==
  \A w \in Sweepers :
    /\ \A b \in doomed[w] : rowOf[b] \in {"closed", "gone"}
    /\ emptied[w] => doomed[w] # {} /\ objects[Turn(w)] = {}

\* A build that has no row has no object either, and only one that has a row refers to a
\* baseline.
RowsInv ==
  \A b \in BuildNos : /\ rowOf[b] = "none" => objects[b] = {}
                      /\ refs[b] # NoBuild => b \in Kept

\* A baseline that is there, and not excused, is not going to be reaped either.
ShownInv ==
  \A r \in Kept : refs[r] # NoBuild /\ <<r, refs[r]>> \notin excused =>
    "images" \in objects[refs[r]] /\ refs[r] \notin Selected

RetInv == RetTypeOK /\ DoomedInv /\ RowsInv /\ NoOrphans /\ ShownInv

\* The order of the naturals is well founded.
LEMMA NatOrder == IsWellFoundedOn({ss \in Nat \X Nat : ss[1] < ss[2]}, Nat)
BY NatLessThanWellFounded DEF OpToRel

\* Some numbers have a least one.
LEMMA HasLeast ==
  ASSUME NEW S, S \subseteq Nat, S # {}
  PROVE  \E x \in S : \A y \in S : x <= y
<1> DEFINE R == {ss \in Nat \X Nat : ss[1] < ss[2]}
<1>1. IsWellFoundedOn(R, Nat)
  BY NatOrder
<1>2. \E x \in S : \A y \in S : <<y, x>> \notin R
  <2> HIDE DEF R
  <2> QED
    BY <1>1, WFMin
<1>3. PICK x \in S : \A y \in S : ~(y < x)
  BY <1>2
<1> QED
  BY <1>3

\* Bounded ones have a greatest, too.
LEMMA HasGreatest ==
  ASSUME NEW n \in Nat, NEW S, S \subseteq 1 .. n, S # {}
  PROVE  \E x \in S : \A y \in S : y <= x
<1> DEFINE T == {n - x : x \in S}
<1>1. T \subseteq Nat /\ T # {}
  <2>1. \A x \in S : x \in 1 .. n
    OBVIOUS
  <2>2. \A x \in 1 .. n : n - x \in Nat
    OBVIOUS
  <2> QED
    BY <2>1, <2>2
<1>2. PICK t \in T : \A u \in T : t <= u
  <2> HIDE DEF T
  <2> QED
    BY <1>1, HasLeast
<1>3. PICK x \in S : t = n - x
  OBVIOUS
<1>4. ASSUME NEW y \in S PROVE y <= x
  <2>1. n - y \in T
    OBVIOUS
  <2> QED
    BY <1>2, <1>3, <2>1
<1> QED
  BY <1>4

\* One more element counts one at most.
LEMMA OneMore ==
  ASSUME NEW S, IsFiniteSet(S), NEW x
  PROVE  /\ IsFiniteSet(S \cup {x}) /\ Cardinality(S \cup {x}) \in Nat
         /\ Cardinality(S) \in Nat /\ Cardinality(S \cup {x}) <= Cardinality(S) + 1
<1>1. Cardinality(S) \in Nat
  BY FS_CardinalityType
<1>2. /\ IsFiniteSet(S \cup {x})
      /\ Cardinality(S \cup {x}) = IF x \in S THEN Cardinality(S) ELSE Cardinality(S) + 1
  BY FS_AddElement
<1> QED
  BY <1>1, <1>2

\* The least of some numbers is one of them.
LEMMA LeastIsIn ==
  ASSUME NEW S, S \subseteq Nat, S # {}
  PROVE  Min(S) \in S
BY HasLeast DEF Min

\* Whose turn it is, is one of those selected.
LEMMA TurnIsDoomed ==
  ASSUME RetTypeOK, RetentionAssumption, NEW w \in Sweepers, doomed[w] # {}
  PROVE  Turn(w) \in doomed[w] /\ Turn(w) \in BuildNos
<1>1. doomed[w] \subseteq BuildNos /\ BuildNos \subseteq Nat
  BY DEF RetTypeOK, RetentionAssumption, BuildNos
<1> QED
  BY <1>1, LeastIsIn DEF Turn

\* A fault keeps the count within its bound.
LEMMA ReapFaultType ==
  ASSUME RetentionAssumption, reapFaults \in 0 .. MaxReapFaults, ReapFault
  PROVE  reapFaults' \in 0 .. MaxReapFaults
BY DEF ReapFault, RetentionAssumption

\* There is nothing yet to reap.
LEMMA RetInitInv == ASSUME RetentionAssumption, RetInit PROVE RetInv
<1>1. RetTypeOK
  BY DEF RetentionAssumption, RetInit, RetTypeOK, Unread, NoBuild
<1>2. DoomedInv
  BY DEF RetInit, DoomedInv
<1>3. RowsInv /\ NoOrphans /\ ShownInv
  BY DEF RetInit, RowsInv, NoOrphans, ShownInv, Kept
<1> QED
  BY <1>1, <1>2, <1>3 DEF RetInv

----------------------------------------------------------------------------
(* The steps of a build.                                                   *)

\* The row is new: it had no object, and nobody shows it.
LEMMA UploadedStep ==
  ASSUME RetentionAssumption, RetInv, NEW b \in BuildNos, Uploaded(b)
  PROVE  RetInv'
<1>1. RetTypeOK'
  BY DEF Uploaded, RetInv, RetTypeOK, reaper
<1>2. Selected' = Selected /\ Kept' = Kept \cup {b}
  BY DEF Uploaded, reaper, Selected, Kept, RetInv, RetTypeOK
<1>3. /\ objects[b] = {} /\ refs[b] = NoBuild
      /\ \A c \in BuildNos : c # b => rowOf'[c] = rowOf[c] /\ objects'[c] = objects[c]
      /\ rowOf[b] = "none" /\ rowOf'[b] = "open"
  BY DEF Uploaded, RetInv, RetTypeOK, RowsInv, Kept
<1>4. DoomedInv'
  <2>1. ASSUME NEW w \in Sweepers, emptied[w]
        PROVE  doomed[w] # {} /\ objects'[Turn(w)] = {}
    <3>1. doomed[w] # {} /\ objects[Turn(w)] = {}
      BY <2>1 DEF RetInv, DoomedInv
    <3>2. Turn(w) \in BuildNos /\ Turn(w) # b
      BY <1>3, <3>1, TurnIsDoomed DEF RetInv, DoomedInv
    <3> QED
      BY <1>3, <3>1, <3>2
  <2>2. ASSUME NEW w \in Sweepers, NEW c \in doomed[w]
        PROVE  rowOf'[c] \in {"closed", "gone"}
    BY <1>3 DEF RetInv, RetTypeOK, DoomedInv
  <2> QED
    BY <2>1, <2>2 DEF Uploaded, reaper, DoomedInv, Turn
<1>5. RowsInv' /\ NoOrphans'
  BY <1>2, <1>3 DEF Uploaded, RetInv, RowsInv, NoOrphans
<1>6. ShownInv'
  <2>1. ASSUME NEW r \in Kept', refs[r] # NoBuild, <<r, refs[r]>> \notin excused
        PROVE  "images" \in objects'[refs[r]] /\ refs[r] \notin Selected
    <3>1. r \in Kept /\ refs[r] \in BuildNos
      BY <1>2, <1>3, <2>1 DEF RetInv, RetTypeOK, Kept
    <3>2. "images" \in objects[refs[r]] /\ refs[r] \notin Selected
      BY <2>1, <3>1 DEF RetInv, ShownInv
    <3> QED
      BY <1>3, <3>1, <3>2
  <2> QED
    BY <1>2, <2>1 DEF Uploaded, ShownInv
<1> QED
  BY <1>1, <1>4, <1>5, <1>6 DEF RetInv

\* Results are forgotten, and a baseline is only remembered.
LEMMA PrefetchesStep ==
  ASSUME RetentionAssumption, RetInv, NEW b \in BuildNos, Prefetches(b)
  PROVE  RetInv'
<1>1. results' \subseteq results
  BY DEF Prefetches
<1>2. \A c \in BuildNos : refs'[c] \in {refs[c], NoBuild}
  BY DEF Prefetches
<1>3. RetTypeOK'
  <2>1. refs' \in [BuildNos -> {NoBuild} \cup BuildNos]
    BY DEF Prefetches, RetInv, RetTypeOK
  <2>2. baseRead' \in [BuildNos -> {NoBuild, Unread} \cup BuildNos]
    BY DEF Prefetches, RetInv, RetTypeOK
  <2> QED
    BY <1>1, <2>1, <2>2 DEF Prefetches, RetInv, RetTypeOK, reaper
<1>4. DoomedInv' /\ NoOrphans'
  BY DEF Prefetches, RetInv, DoomedInv, NoOrphans, reaper, Turn
<1>5. RowsInv'
  BY <1>2 DEF Prefetches, RetInv, RowsInv, Kept
<1>6. ShownInv'
  BY <1>2 DEF Prefetches, RetInv, ShownInv, Kept, Selected, reaper
<1> QED
  BY <1>3, <1>4, <1>5, <1>6 DEF RetInv

\* A row refers to a baseline whose images are there and stay, or is excused.
LEMMA FinalizesStep ==
  ASSUME RetentionAssumption, RetInv, NEW b \in BuildNos, Finalizes(b)
  PROVE  RetInv'
<1>1. /\ baseRead[b] \in {NoBuild} \cup BuildNos /\ rowOf[b] = "open"
      /\ refs'[b] = baseRead[b] /\ \A c \in BuildNos : c # b => refs'[c] = refs[c]
      /\ \A c \in BuildNos : objects[c] \subseteq objects'[c] /\ (c # b => objects'[c] = objects[c])
      /\ UNCHANGED <<rowOf, doomed, emptied>> /\ excused \subseteq excused'
  BY DEF Finalizes, RetInv, RetTypeOK, reaper
<1>2. RetTypeOK'
  <2>1. excused' \in SUBSET (BuildNos \X BuildNos)
    BY <1>1 DEF Finalizes, RetInv, RetTypeOK
  <2>2. refs' \in [BuildNos -> {NoBuild} \cup BuildNos]
    BY <1>1 DEF Finalizes, RetInv, RetTypeOK
  <2>3. objects' \in [BuildNos -> SUBSET {"images", "tarball"}] /\ results' \in SUBSET BuildNos
    BY DEF Finalizes, RetInv, RetTypeOK
  <2> QED
    BY <2>1, <2>2, <2>3 DEF Finalizes, RetInv, RetTypeOK, reaper
<1>3. Selected' = Selected /\ Kept' = Kept /\ b \in Kept
  BY <1>1 DEF Selected, Kept
<1>4. DoomedInv'
  <2>1. ASSUME NEW w \in Sweepers, emptied[w]
        PROVE  doomed[w] # {} /\ objects'[Turn(w)] = {}
    <3>1. doomed[w] # {} /\ objects[Turn(w)] = {}
      BY <2>1 DEF RetInv, DoomedInv
    <3>2. Turn(w) \in BuildNos /\ Turn(w) # b
      BY <1>1, <3>1, TurnIsDoomed DEF RetInv, DoomedInv
    <3> QED
      BY <1>1, <3>1, <3>2
  <2> QED
    BY <1>1, <2>1 DEF RetInv, DoomedInv, Turn
<1>5. RowsInv' /\ NoOrphans'
  BY <1>1, <1>3 DEF RetInv, RowsInv, NoOrphans
<1>6. ASSUME NEW r \in Kept, refs'[r] # NoBuild, <<r, refs'[r]>> \notin excused'
      PROVE  "images" \in objects'[refs'[r]] /\ refs'[r] \notin Selected
  <2>1. r \in BuildNos
    BY DEF Kept
  <2>2. CASE r # b
    <3>1. "images" \in objects[refs[r]] /\ refs[r] \notin Selected /\ refs[r] \in BuildNos
      BY <1>1, <1>6, <2>1, <2>2 DEF RetInv, RetTypeOK, ShownInv
    <3> QED
      BY <1>1, <2>1, <2>2, <3>1
  <2>3. CASE r = b
    <3>1. baseRead[b] \in BuildNos /\ baseRead[b] # NoBuild
      BY <1>1, <1>6, <2>3
    <3>2. <<b, baseRead[b]>> \notin excused'
      BY <1>1, <1>6, <2>3
    <3>3. baseRead[b] \notin Selected /\ "images" \in objects[baseRead[b]]
      BY <3>1, <3>2 DEF Finalizes
    <3> QED
      BY <1>1, <2>3, <3>1, <3>3
  <2> QED
    BY <2>2, <2>3
<1>7. ShownInv'
  BY <1>3, <1>6 DEF ShownInv
<1> QED
  BY <1>2, <1>4, <1>5, <1>7 DEF RetInv

\* The build is done: nothing of what is said tells it from one that is open.
LEMMA ClosesStep ==
  ASSUME RetentionAssumption, RetInv, NEW b \in BuildNos, Closes(b)
  PROVE  RetInv'
<1>1. RetTypeOK'
  BY DEF Closes, RetInv, RetTypeOK, reaper
<1>2. Selected' = Selected /\ Kept' = Kept
  BY DEF Closes, reaper, Selected, Kept, RetInv, RetTypeOK
<1>3. rowOf[b] = "open" /\ rowOf'[b] = "closed"
      /\ \A c \in BuildNos : c # b => rowOf'[c] = rowOf[c]
  BY DEF Closes, RetInv, RetTypeOK
<1>4. DoomedInv'
  BY <1>3 DEF Closes, RetInv, RetTypeOK, DoomedInv, reaper, Turn
<1>5. RowsInv' /\ NoOrphans'
  BY <1>2, <1>3 DEF Closes, RetInv, RowsInv, NoOrphans
<1>6. ShownInv'
  BY <1>2 DEF Closes, RetInv, ShownInv
<1> QED
  BY <1>1, <1>4, <1>5, <1>6 DEF RetInv

\* Time passes.
LEMMA AgesStep ==
  ASSUME RetentionAssumption, RetInv, Ages
  PROVE  RetInv'
<1>1. RetTypeOK'
  BY DEF RetentionAssumption, Ages, RetInv, RetTypeOK, reaper
<1>2. DoomedInv' /\ RowsInv' /\ NoOrphans' /\ ShownInv'
  BY DEF Ages, RetInv, DoomedInv, RowsInv, NoOrphans, ShownInv, Selected, Kept, reaper, Turn
<1> QED
  BY <1>1, <1>2 DEF RetInv

----------------------------------------------------------------------------
(* The steps of a sweep.                                                   *)

\* What is selected is shown by no build but those that are as old.
LEMMA SweepStartsStep ==
  ASSUME RetentionAssumption, RetInv, NEW w \in Sweepers, SweepStarts(w)
  PROVE  RetInv'
<1> DEFINE S == SelectReapableBuilds
<1>1. S \subseteq Candidates /\ Candidates \subseteq Closed /\ Closed \subseteq BuildNos
      /\ \A b \in S : ~Protected(b)
  BY DEF SelectReapableBuilds, Candidates, Closed
<1>2. /\ doomed'[w] = S /\ ~emptied'[w]
      /\ \A v \in Sweepers : v # w => doomed'[v] = doomed[v] /\ emptied'[v] = emptied[v]
      /\ UNCHANGED <<rowOf, refs, objects>>
      /\ excused' = excused \cup {p \in Candidates \X S : refs[p[1]] = p[2]}
  BY DEF SweepStarts, RetInv, RetTypeOK
<1> HIDE DEF S
<1>3. RetTypeOK'
  <2>1. doomed' \in [Sweepers -> SUBSET BuildNos] /\ emptied' \in [Sweepers -> BOOLEAN]
    BY <1>1 DEF SweepStarts, RetInv, RetTypeOK, S
  <2>2. excused' \in SUBSET (BuildNos \X BuildNos)
    BY <1>1, <1>2 DEF RetInv, RetTypeOK
  <2> QED
    BY <2>1, <2>2 DEF SweepStarts, RetInv, RetTypeOK
<1>4. DoomedInv'
  <2>1. \A b \in S : rowOf[b] = "closed"
    BY <1>1 DEF Closed
  <2> QED
    BY <1>2, <2>1 DEF RetInv, DoomedInv, Turn
<1>5. RowsInv' /\ NoOrphans'
  BY <1>2 DEF RetInv, RowsInv, NoOrphans, Kept
<1>6. Selected' \subseteq Selected \cup S /\ Kept' = Kept
  BY <1>2 DEF Selected, Kept
<1>7. ASSUME NEW r \in Kept, refs[r] # NoBuild, <<r, refs[r]>> \notin excused'
      PROVE  refs[r] \notin S
  <2>1. SUFFICES ASSUME refs[r] \in S
                 PROVE  FALSE
    OBVIOUS
  <2>2. r \notin Candidates
    BY <1>2, <1>7, <2>1
  <2>3. r # refs[r]
    BY <1>1, <2>1, <2>2
  <2> QED
    BY <1>1, <2>1, <2>2, <2>3 DEF Protected
<1>8. ShownInv'
  BY <1>2, <1>6, <1>7 DEF RetInv, ShownInv
<1> QED
  BY <1>3, <1>4, <1>5, <1>8 DEF RetInv

\* Only objects of a selected build go.
LEMMA ObjectsGoStep ==
  ASSUME RetentionAssumption, RetInv, NEW w \in Sweepers, ObjectsGo(w)
  PROVE  RetInv'
<1> DEFINE b == Turn(w)
<1>1. b \in doomed[w] /\ b \in BuildNos
  BY TurnIsDoomed DEF ObjectsGo, RetInv
<1>2. /\ objects'[b] \subseteq objects[b] /\ \A c \in BuildNos : c # b => objects'[c] = objects[c]
      /\ objects' \in [BuildNos -> SUBSET {"images", "tarball"}]
      /\ UNCHANGED <<rowOf, refs, excused>>
  <2>1. CASE objects' = [objects EXCEPT ![b] = {}]
    BY <1>1, <2>1 DEF ObjectsGo, RetInv, RetTypeOK
  <2>2. ASSUME NEW left \in SUBSET objects[b], objects' = [objects EXCEPT ![b] = left]
        PROVE  /\ objects'[b] \subseteq objects[b]
               /\ \A c \in BuildNos : c # b => objects'[c] = objects[c]
               /\ objects' \in [BuildNos -> SUBSET {"images", "tarball"}]
    BY <1>1, <2>2 DEF RetInv, RetTypeOK
  <2> QED
    BY <2>1, <2>2 DEF ObjectsGo
<1>3. /\ \A v \in Sweepers : v # w => doomed'[v] = doomed[v] /\ emptied'[v] = emptied[v]
      /\ doomed'[w] \subseteq doomed[w]
      /\ doomed' \in [Sweepers -> SUBSET BuildNos] /\ emptied' \in [Sweepers -> BOOLEAN]
      /\ emptied'[w] => doomed'[w] = doomed[w] /\ objects'[b] = {}
  <2>1. CASE /\ objects' = [objects EXCEPT ![b] = {}] /\ UNCHANGED doomed
             /\ emptied' = [emptied EXCEPT ![w] = TRUE]
    <3>1. objects'[b] = {}
      BY <1>1, <2>1 DEF RetInv, RetTypeOK
    <3> QED
      BY <2>1, <3>1 DEF RetInv, RetTypeOK
  <2>2. CASE NextDoomed(w)
    BY <2>2 DEF NextDoomed, RetInv, RetTypeOK
  <2> QED
    BY <2>1, <2>2 DEF ObjectsGo
<1>4. RetTypeOK'
  <2>1. reapFaults' \in 0 .. MaxReapFaults
    BY ReapFaultType DEF ObjectsGo, RetInv, RetTypeOK
  <2> QED
    BY <1>2, <1>3, <2>1 DEF ObjectsGo, RetInv, RetTypeOK
<1> HIDE DEF b
<1>5. \A c \in BuildNos : objects'[c] \subseteq objects[c]
  BY <1>2
<1>6. DoomedInv'
  <2>1. ASSUME NEW v \in Sweepers
        PROVE  \A c \in doomed'[v] : rowOf'[c] \in {"closed", "gone"}
    BY <1>2, <1>3 DEF RetInv, DoomedInv
  <2>2. ASSUME NEW v \in Sweepers, emptied'[v]
        PROVE  doomed'[v] # {} /\ objects'[Turn(v)'] = {}
    <3>1. CASE v = w
      BY <1>1, <1>2, <1>3, <2>2, <3>1 DEF b, Turn
    <3>2. CASE v # w
      <4>1. doomed[v] # {} /\ objects[Turn(v)] = {} /\ Turn(v)' = Turn(v)
        BY <1>2, <1>3, <2>2, <3>2 DEF RetInv, DoomedInv, Turn
      <4>2. Turn(v) \in BuildNos
        BY <4>1, TurnIsDoomed DEF RetInv
      <4> QED
        BY <1>2, <1>3, <1>5, <3>2, <4>1, <4>2
    <3> QED
      BY <3>1, <3>2
  <2> QED
    BY <2>1, <2>2 DEF DoomedInv
<1>7. RowsInv' /\ NoOrphans'
  BY <1>2, <1>5 DEF RetInv, RowsInv, NoOrphans, Kept
<1>8. Selected' \subseteq Selected /\ Kept' = Kept /\ b \in Selected
  BY <1>1, <1>2, <1>3 DEF Selected, Kept
<1>9. ShownInv'
  <2>1. ASSUME NEW r \in Kept, refs[r] # NoBuild, <<r, refs[r]>> \notin excused
        PROVE  "images" \in objects'[refs[r]] /\ refs[r] \notin Selected'
    <3>1. "images" \in objects[refs[r]] /\ refs[r] \notin Selected /\ refs[r] \in BuildNos
      BY <2>1 DEF RetInv, RetTypeOK, ShownInv, Kept
    <3> QED
      BY <1>2, <1>8, <3>1
  <2> QED
    BY <1>2, <1>8, <2>1 DEF ShownInv
<1> QED
  BY <1>4, <1>6, <1>7, <1>9 DEF RetInv

\* The row goes when its objects have gone.
LEMMA RowGoesStep ==
  ASSUME RetentionAssumption, RetInv, NEW w \in Sweepers, RowGoes(w)
  PROVE  RetInv'
<1> DEFINE b == Turn(w)
<1>1. b \in doomed[w] /\ b \in BuildNos /\ objects[b] = {}
  BY TurnIsDoomed DEF RowGoes, RetInv, DoomedInv
<1>2. /\ rowOf'[b] = "gone" /\ refs'[b] = NoBuild
      /\ \A c \in BuildNos : c # b => rowOf'[c] = rowOf[c] /\ refs'[c] = refs[c]
      /\ UNCHANGED <<objects, excused>>
      /\ \A v \in Sweepers : v # w => doomed'[v] = doomed[v] /\ emptied'[v] = emptied[v]
      /\ doomed'[w] \subseteq doomed[w] /\ ~emptied'[w]
  BY <1>1 DEF RowGoes, NextDoomed, RetInv, RetTypeOK
<1>3. RetTypeOK'
  <2>1. /\ doomed' \in [Sweepers -> SUBSET BuildNos] /\ emptied' \in [Sweepers -> BOOLEAN]
        /\ rowOf' \in [BuildNos -> {"none", "open", "closed", "gone"}]
        /\ refs' \in [BuildNos -> {NoBuild} \cup BuildNos] /\ results' \in SUBSET BuildNos
    BY <1>1 DEF RowGoes, NextDoomed, RetInv, RetTypeOK
  <2> QED
    BY <2>1 DEF RowGoes, RetInv, RetTypeOK
<1> HIDE DEF b
<1>4. DoomedInv'
  <2>1. ASSUME NEW v \in Sweepers, NEW c \in doomed'[v]
        PROVE  rowOf'[c] \in {"closed", "gone"}
    <3>1. c \in doomed[v] /\ c \in BuildNos
      BY <1>2, <2>1 DEF RetInv, RetTypeOK
    <3> QED
      BY <1>2, <3>1 DEF RetInv, DoomedInv
  <2>2. ASSUME NEW v \in Sweepers, emptied'[v]
        PROVE  doomed'[v] # {} /\ objects'[Turn(v)'] = {}
    BY <1>2, <2>2 DEF RetInv, DoomedInv, Turn
  <2> QED
    BY <2>1, <2>2 DEF DoomedInv
<1>5. Selected' \subseteq Selected /\ Kept' = Kept \ {b}
  BY <1>1, <1>2 DEF Selected, Kept
<1>6. RowsInv' /\ NoOrphans'
  BY <1>1, <1>2, <1>5 DEF RetInv, RowsInv, NoOrphans
<1>7. ShownInv'
  <2>1. \A r \in Kept' : r \in Kept /\ refs'[r] = refs[r]
    BY <1>2, <1>5 DEF Kept
  <2> QED
    BY <1>2, <1>5, <2>1 DEF RetInv, ShownInv
<1> QED
  BY <1>3, <1>4, <1>6, <1>7 DEF RetInv

\* What is left of a sweep that stops is left to another.
LEMMA SweepStopsStep ==
  ASSUME RetentionAssumption, RetInv, NEW w \in Sweepers, SweepStops(w)
  PROVE  RetInv'
<1>1. /\ \A v \in Sweepers : v # w => doomed'[v] = doomed[v] /\ emptied'[v] = emptied[v]
      /\ doomed'[w] = {} /\ ~emptied'[w]
      /\ UNCHANGED <<rowOf, history, baseRead, results, refs, objects, cutoff, excused>>
  BY DEF SweepStops, RetInv, RetTypeOK
<1>2. RetTypeOK'
  <2>1. reapFaults' \in 0 .. MaxReapFaults
    BY ReapFaultType DEF SweepStops, RetInv, RetTypeOK
  <2>2. doomed' \in [Sweepers -> SUBSET BuildNos] /\ emptied' \in [Sweepers -> BOOLEAN]
    BY DEF SweepStops, RetInv, RetTypeOK
  <2> QED
    BY <1>1, <2>1, <2>2 DEF RetInv, RetTypeOK
<1>3. Selected' \subseteq Selected /\ Kept' = Kept
  BY <1>1 DEF Selected, Kept
<1>4. DoomedInv'
  BY <1>1 DEF RetInv, DoomedInv, Turn
<1>5. RowsInv' /\ NoOrphans' /\ ShownInv'
  BY <1>1, <1>3 DEF RetInv, RowsInv, NoOrphans, ShownInv
<1> QED
  BY <1>2, <1>4, <1>5 DEF RetInv

\* The invariant holds in every state.
THEOREM RetentionInvariance ==
  ASSUME RetentionAssumption PROVE RetSpec => []RetInv
<1>1. RetInit => RetInv
  BY RetInitInv
<1>2. RetInv /\ [RetNext]_retVars => RetInv'
  <2>1. CASE UNCHANGED retVars
    BY <2>1
    DEF retVars, RetInv, RetTypeOK, DoomedInv, RowsInv, NoOrphans, ShownInv, Kept, Selected, Turn
  <2> QED
    BY <2>1, UploadedStep, PrefetchesStep, FinalizesStep, ClosesStep, AgesStep, SweepStartsStep,
       ObjectsGoStep, RowGoesStep, SweepStopsStep DEF RetNext
<1> QED
  BY <1>1, <1>2, PTL DEF RetSpec

\* A retained build can show the baseline it was compared with, and nothing of a build is left in
\* S3 without a row to find it by (retention.ts).
THEOREM ReapedWholly ==
  ASSUME RetentionAssumption
  PROVE  RetSpec => []ReapsWholly
<1>1. RetInv => ReapsWholly
  BY DEF RetInv, ShownInv, BaselinesStay, ReapsWholly
<1> QED
  BY <1>1, RetentionInvariance, PTL

----------------------------------------------------------------------------
(* Sign-in: for any tabs, people and pages, and any number of sign-ins,    *)
(* accounts and failures.                                                  *)

\* What a tab holds of its sign-in.
SignIns == [at : {"out", "idp", "finding", "saving", "in", "failed"}, state : 0 .. MaxLogins,
            asked : Pages \cup {Elsewhere}, landed : Pages \cup {Home}, who : People,
            had : 0 .. MaxAccounts]

\* Every sign-in begun has a state of its own; the tab whose state the cookie holds is the one
\* the cookie's page was asked for.
StateInv ==
  /\ cookie.state <= logins
  /\ \A t \in Tabs :
       /\ tab[t].state <= logins /\ (tab[t].at = "idp" => tab[t].state > 0)
       /\ tab[t].at = "idp" /\ cookie.state = tab[t].state => cookie.page = Asked(t)

\* Once it is completed, a sign-in lands there.
LandedInv ==
  \A t \in Tabs : tab[t].at \in {"finding", "saving", "in"} => tab[t].landed = Asked(t)

SignInv == SignTypeOK /\ StateInv /\ LandedInv

\* A page that is safe is taken as it is.
LEMMA SafeTwice == ASSUME NEW page PROVE Safe(Safe(page)) = Safe(page)
BY DEF Safe

\* What a tab asked for is a page of the app.
LEMMA AskedType ==
  ASSUME SignTypeOK, NEW t \in Tabs
  PROVE  Asked(t) \in Pages \cup {Home} /\ Safe(Asked(t)) = Asked(t)
BY SafeTwice DEF SignTypeOK, Asked, Safe

\* A fault keeps the count within its bound.
LEMMA SignFaultType ==
  ASSUME SignAssumption, SignTypeOK, SignFault
  PROVE  signFaults' \in 0 .. MaxSignFaults
BY DEF SignAssumption, SignTypeOK, SignFault

\* No tab has begun.
LEMMA SignInitInv == ASSUME SignAssumption, SignInit PROVE SignInv
<1>1. PICK asked \in [Tabs -> Pages \cup {Elsewhere}], who \in [Tabs -> People] :
        tab = [t \in Tabs |-> [at |-> "out", state |-> 0, asked |-> asked[t], landed |-> Home,
                               who |-> who[t], had |-> 0]]
  BY DEF SignInit
<1>2. 0 \in 0 .. MaxLogins /\ 0 \in 0 .. MaxAccounts /\ 0 \in 0 .. MaxSignFaults
  BY DEF SignAssumption
<1>3. NoCookie \in [state : 0 .. MaxLogins, page : Pages \cup {Home}] /\ NoCookie.state = 0
  BY <1>2 DEF NoCookie
<1>4. SignTypeOK
  <2>1. tab \in [Tabs -> SignIns]
    BY <1>1, <1>2 DEF SignIns
  <2> QED
    BY <1>2, <1>3, <2>1 DEF SignInit, SignTypeOK, SignIns
<1>5. StateInv /\ LandedInv
  BY <1>1, <1>3 DEF SignInit, StateInv, LandedInv
<1> QED
  BY <1>4, <1>5 DEF SignInv

\* What a tab's step leaves alone.
OtherTabs(t) == \A u \in Tabs : u # t => tab'[u] = tab[u]

\* A tab that fails is at the end of its sign-in.
LEMMA FailsStep ==
  ASSUME SignAssumption, SignInv, NEW t \in Tabs, Fails(t), logins' \in logins .. MaxLogins,
         cookie' \in {cookie, NoCookie}, discovery' \in {"none", "kept", "rejected"},
         signFaults' \in 0 .. MaxSignFaults, UNCHANGED <<identity, signedIn, userOf, accounts>>
  PROVE  SignInv'
<1>1. /\ tab' \in [Tabs -> SignIns]
      /\ tab'[t].at = "failed" /\ tab'[t].state = tab[t].state /\ OtherTabs(t)
  BY ZenonT(30) DEF Fails, SignInv, SignTypeOK, OtherTabs, SignIns
<1>2. /\ NoCookie \in [state : 0 .. MaxLogins, page : Pages \cup {Home}] /\ NoCookie.state = 0
      /\ logins \in Nat /\ logins' \in Nat /\ logins <= logins'
      /\ \A u \in Tabs : tab[u].state \in Nat
  BY DEF SignAssumption, NoCookie, SignInv, SignTypeOK
<1>3. SignTypeOK'
  <2>1. logins' \in 0 .. MaxLogins /\ cookie' \in [state : 0 .. MaxLogins, page : Pages \cup {Home}]
    BY <1>2 DEF SignInv, SignTypeOK, SignIns
  <2> QED
    BY <1>1, <2>1 DEF SignInv, SignTypeOK, SignIns
<1>4. StateInv'
  <2>1. cookie'.state <= logins' /\ \A u \in Tabs : tab'[u].state <= logins'
    <3>1. cookie.state <= logins /\ cookie.state \in Nat /\ cookie'.state \in {cookie.state, 0}
      BY <1>2 DEF SignInv, SignTypeOK, StateInv, SignAssumption
    <3>2. \A u \in Tabs : tab'[u].state = tab[u].state /\ tab[u].state <= logins
      BY <1>1 DEF SignInv, StateInv, OtherTabs
    <3> QED
      BY <1>2, <3>1, <3>2
  <2>2. ASSUME NEW u \in Tabs, tab'[u].at = "idp", cookie'.state = tab'[u].state
        PROVE  cookie'.page = Asked(u)'
    <3>1. u # t /\ tab'[u] = tab[u] /\ Asked(u)' = Asked(u)
      BY <1>1, <2>2 DEF OtherTabs, Asked
    <3> QED
      BY <1>2, <2>2, <3>1 DEF SignInv, StateInv
  <2>3. \A u \in Tabs : tab'[u].at = "idp" => tab'[u].state > 0
    BY <1>1 DEF SignInv, StateInv, OtherTabs
  <2> QED
    BY <2>1, <2>2, <2>3 DEF StateInv
<1>5. LandedInv'
  BY <1>1 DEF SignInv, LandedInv, OtherTabs, Asked
<1> QED
  BY <1>3, <1>4, <1>5 DEF SignInv

\* A tab that begins has a state that no other has, and the cookie is its own.
LEMMA BeginsStep ==
  ASSUME SignAssumption, SignInv, NEW t \in Tabs, MayBegin(t), Begins(t),
         discovery' \in {"none", "kept", "rejected"}, signFaults' \in 0 .. MaxSignFaults,
         UNCHANGED <<identity, signedIn, userOf, accounts>>
  PROVE  SignInv'
<1>1. logins \in Nat /\ logins' = logins + 1 /\ logins' \in 0 .. MaxLogins
  BY DEF SignAssumption, SignInv, SignTypeOK, MayBegin
<1>2. /\ tab' \in [Tabs -> SignIns]
      /\ tab'[t].at = "idp" /\ tab'[t].state = logins' /\ tab'[t].asked = tab[t].asked
      /\ OtherTabs(t)
  <2> DEFINE new == [tab[t] EXCEPT !.at = "idp", !.state = logins']
  <2>1. tab \in [Tabs -> SignIns] /\ tab[t] \in SignIns
    BY DEF SignInv, SignTypeOK, SignIns
  <2>2. new \in SignIns /\ new.at = "idp" /\ new.state = logins' /\ new.asked = tab[t].asked
    BY <1>1, <2>1 DEF SignIns
  <2>3. tab' = [tab EXCEPT ![t] = new]
    BY <2>1 DEF Begins
  <2> HIDE DEF new
  <2> QED
    BY <2>1, <2>2, <2>3 DEF OtherTabs
<1>3. cookie' = [state |-> logins', page |-> Asked(t)] /\ Asked(t) \in Pages \cup {Home}
  BY AskedType DEF Begins, SignInv
<1>4. SignTypeOK'
  BY <1>1, <1>2, <1>3 DEF SignInv, SignTypeOK, SignIns
<1>5. \A u \in Tabs : Asked(u)' = Asked(u)
  BY <1>2 DEF Asked, OtherTabs
<1>6. \A u \in Tabs : tab[u].state \in Nat /\ (u # t => tab'[u].state < logins')
  BY <1>1, <1>2 DEF SignInv, SignTypeOK, StateInv, OtherTabs
<1>7. StateInv'
  <2>1. ASSUME NEW u \in Tabs
        PROVE  /\ tab'[u].state <= logins' /\ (tab'[u].at = "idp" => tab'[u].state > 0)
               /\ tab'[u].at = "idp" /\ cookie'.state = tab'[u].state => cookie'.page = Asked(u)'
    <3>1. CASE u = t
      BY <1>1, <1>2, <1>3, <1>5, <3>1
    <3>2. CASE u # t
      BY <1>1, <1>2, <1>3, <1>6, <3>2 DEF SignInv, StateInv, OtherTabs
    <3> QED
      BY <3>1, <3>2
  <2> QED
    BY <1>1, <1>3, <2>1 DEF StateInv
<1>8. LandedInv'
  BY <1>2, <1>5 DEF SignInv, LandedInv, OtherTabs
<1> QED
  BY <1>4, <1>7, <1>8 DEF SignInv

\* A step of a tab that moves on from a sign-in that is its own.
LEMMA MovesOn ==
  ASSUME SignAssumption, SignInv, NEW t \in Tabs, NEW at \in {"finding", "saving", "in"},
         tab' \in [Tabs -> SignIns],
         tab'[t].at = at, tab'[t].state = tab[t].state, tab'[t].asked = tab[t].asked,
         tab'[t].landed = Asked(t), OtherTabs(t), cookie' \in {cookie, NoCookie}, logins' = logins
  PROVE  StateInv' /\ LandedInv'
<1>1. \A u \in Tabs : Asked(u)' = Asked(u) /\ tab'[u].state = tab[u].state
  BY DEF Asked, OtherTabs
<1>2. /\ logins \in Nat /\ (cookie' = NoCookie => cookie'.state = 0)
      /\ \A u \in Tabs : tab[u].state \in Nat
  BY DEF SignAssumption, SignInv, SignTypeOK, NoCookie
<1>3. \A u \in Tabs : tab'[u].at = "idp" => u # t /\ tab'[u] = tab[u] /\ tab[u].state > 0
  BY DEF OtherTabs, SignInv, StateInv
<1>4. cookie'.state <= logins' /\ \A u \in Tabs : tab'[u].state <= logins'
  BY <1>1, <1>2 DEF SignInv, StateInv
<1>5. \A u \in Tabs :
        tab'[u].at = "idp" /\ cookie'.state = tab'[u].state => cookie'.page = Asked(u)'
  BY <1>1, <1>2, <1>3 DEF SignInv, StateInv
<1>6. StateInv'
  BY <1>1, <1>3, <1>4, <1>5 DEF StateInv
<1>7. LandedInv'
  BY <1>1 DEF OtherTabs, SignInv, LandedInv
<1> QED
  BY <1>6, <1>7

\* The cookie is spent: on the tab that put it there, or on none.
LEMMA ExchangesStep ==
  ASSUME SignAssumption, SignInv, NEW t \in Tabs, tab[t].at = "idp", Exchanges(t),
         UNCHANGED <<identity, discovery, signedIn, userOf, logins, accounts>>
  PROVE  SignInv'
<1>1. CASE Fails(t)
  <2>1. signFaults' \in 0 .. MaxSignFaults
    BY SignFaultType DEF Exchanges, SignInv, SignTypeOK
  <2>2. logins' \in logins .. MaxLogins /\ discovery' \in {"none", "kept", "rejected"}
    BY DEF SignAssumption, SignInv, SignTypeOK
  <2> QED
    BY <1>1, <2>1, <2>2, FailsStep DEF Exchanges
<1>2. CASE /\ StateMatches(t) /\ UNCHANGED signFaults
           /\ tab' = [tab EXCEPT ![t].at = "finding", ![t].landed = Safe(cookie.page)]
  <2>1. Safe(cookie.page) = Asked(t) /\ Asked(t) \in Pages \cup {Home}
    BY <1>2, AskedType DEF StateMatches, SignInv, StateInv
  <2>2. /\ tab' \in [Tabs -> SignIns]
        /\ tab'[t].at = "finding" /\ tab'[t].state = tab[t].state
        /\ tab'[t].asked = tab[t].asked /\ tab'[t].landed = Asked(t) /\ OtherTabs(t)
    <3> DEFINE new == [tab[t] EXCEPT !.at = "finding", !.landed = Asked(t)]
    <3>1. tab \in [Tabs -> SignIns] /\ tab[t] \in SignIns
      BY DEF SignInv, SignTypeOK, SignIns
    <3>2. /\ new \in SignIns /\ new.at = "finding" /\ new.state = tab[t].state
          /\ new.asked = tab[t].asked /\ new.landed = Asked(t)
      BY <2>1, <3>1 DEF SignIns
    <3>3. tab' = [tab EXCEPT ![t] = new]
      BY <1>2, <2>1, <3>1
    <3> HIDE DEF new
    <3> QED
      BY <3>1, <3>2, <3>3 DEF OtherTabs
  <2>3. cookie' = NoCookie /\ NoCookie \in [state : 0 .. MaxLogins, page : Pages \cup {Home}]
    BY DEF Exchanges, NoCookie, SignAssumption
  <2>4. SignTypeOK'
    BY <1>2, <2>2, <2>3 DEF SignInv, SignTypeOK, SignIns
  <2> QED
    BY <2>2, <2>3, <2>4, MovesOn DEF SignInv
<1> QED
  BY <1>1, <1>2 DEF Exchanges

\* The row of the user is found, and saved.
LEMMA UserStep ==
  ASSUME SignAssumption, SignInv, NEW t \in Tabs, FindsUser(t) \/ SavesUser(t)
  PROVE  SignInv'
<1>1. tab[t].at \in {"finding", "saving"} /\ tab[t].landed = Asked(t)
  BY DEF FindsUser, SavesUser, SignInv, LandedInv
<1>2. CASE FindsUser(t)
  <2>1. /\ tab' \in [Tabs -> SignIns]
        /\ tab'[t].at = "saving" /\ tab'[t].state = tab[t].state
        /\ tab'[t].asked = tab[t].asked /\ tab'[t].landed = Asked(t) /\ OtherTabs(t)
    <3> DEFINE new == [tab[t] EXCEPT !.at = "saving", !.had = userOf[tab[t].who]]
    <3>1. tab \in [Tabs -> SignIns] /\ tab[t] \in SignIns
      BY DEF SignInv, SignTypeOK, SignIns
    <3>2. userOf[tab[t].who] \in 0 .. MaxAccounts
      BY <3>1 DEF SignInv, SignTypeOK, SignIns
    <3>3. /\ new \in SignIns /\ new.at = "saving" /\ new.state = tab[t].state
          /\ new.asked = tab[t].asked /\ new.landed = Asked(t)
      BY <1>1, <3>1, <3>2 DEF SignIns
    <3>4. tab' = [tab EXCEPT ![t] = new]
      BY <1>2, <3>1 DEF FindsUser
    <3> HIDE DEF new
    <3> QED
      BY <3>1, <3>3, <3>4 DEF OtherTabs
  <2>2. SignTypeOK'
    BY <1>2, <2>1, ZenonT(30) DEF FindsUser, SignInv, SignTypeOK
  <2> QED
    BY <1>2, <2>1, <2>2, MovesOn DEF FindsUser, SignInv
<1>3. CASE SavesUser(t) /\ Fails(t)
  <2>1. logins' \in logins .. MaxLogins /\ signFaults' \in 0 .. MaxSignFaults
    BY <1>3 DEF SavesUser, SignAssumption, SignInv, SignTypeOK
  <2>2. UNCHANGED <<userOf, signedIn, accounts>>
    <3>1. CASE userOf[tab[t].who] \in {0, tab[t].had}
      <4>1. tab'[t].at = "in" /\ tab'[t].at = "failed"
        BY <1>3, <3>1 DEF SavesUser, Fails, SignInv, SignTypeOK
      <4> QED
        BY <4>1
    <3>2. CASE userOf[tab[t].who] \notin {0, tab[t].had}
      BY <1>3, <3>2 DEF SavesUser
    <3> QED
      BY <3>1, <3>2
  <2> QED
    BY <1>3, <2>1, <2>2, FailsStep DEF SavesUser, SignInv, SignTypeOK
<1>4. CASE SavesUser(t) /\ ~Fails(t)
  <2> DEFINE id == IF tab[t].had = 0 THEN accounts + 1 ELSE tab[t].had
  <2>1. id \in 0 .. MaxAccounts
    BY <1>4 DEF SavesUser, SignAssumption, SignInv, SignTypeOK
  <2>2. /\ tab' = [tab EXCEPT ![t].at = "in"]
        /\ userOf' = [userOf EXCEPT ![tab[t].who] = id] /\ signedIn' = id
        /\ accounts' = IF tab[t].had = 0 THEN id ELSE accounts
        /\ UNCHANGED <<identity, discovery, cookie, logins, signFaults>>
    BY <1>4 DEF SavesUser
  <2> HIDE DEF id
  <2>3. /\ tab' \in [Tabs -> SignIns]
        /\ tab'[t].at = "in" /\ tab'[t].state = tab[t].state
        /\ tab'[t].asked = tab[t].asked /\ tab'[t].landed = Asked(t) /\ OtherTabs(t)
    BY <1>1, <2>2 DEF SignInv, SignTypeOK, OtherTabs, SignIns
  <2>4. SignTypeOK'
    BY <2>1, <2>2, <2>3 DEF SignInv, SignTypeOK, SignIns
  <2> QED
    BY <2>2, <2>3, <2>4, MovesOn DEF SignInv
<1> QED
  BY <1>2, <1>3, <1>4

\* Steps of no tab.
LEMMA BrowserStep ==
  ASSUME SignAssumption, SignInv, CookieExpires \/ Logout \/ \E q \in People : DeleteAccount(q)
  PROVE  SignInv'
<1>1. UNCHANGED <<identity, discovery, tab, logins>> /\ cookie' \in {cookie, NoCookie}
  BY DEF CookieExpires, Logout, DeleteAccount
<1>2. signFaults' \in 0 .. MaxSignFaults
  BY SignFaultType DEF SignInv, CookieExpires, Logout, DeleteAccount
<1>3. NoCookie \in [state : 0 .. MaxLogins, page : Pages \cup {Home}] /\ NoCookie.state = 0
  BY DEF NoCookie, SignAssumption
<1>4. /\ signedIn' \in 0 .. MaxAccounts /\ userOf' \in [People -> 0 .. MaxAccounts]
      /\ accounts' = accounts
  BY DEF SignAssumption, SignInv, SignTypeOK, CookieExpires, Logout, DeleteAccount
<1>5. SignTypeOK'
  BY <1>1, <1>2, <1>3, <1>4 DEF SignInv, SignTypeOK, SignIns
<1>6. StateInv'
  <2>1. logins \in Nat /\ \A u \in Tabs : tab[u].state \in Nat
    BY DEF SignAssumption, SignInv, SignTypeOK
  <2> QED
    BY <1>1, <1>3, <2>1 DEF SignInv, StateInv, Asked
<1>7. LandedInv'
  BY <1>1 DEF SignInv, LandedInv, Asked
<1> QED
  BY <1>5, <1>6, <1>7 DEF SignInv

\* A tab's steps together.
LEMMA TabStep ==
  ASSUME SignAssumption, SignInv, NEW t \in Tabs,
         BeginOidc(t) \/ BeginGitHub(t) \/ CompleteOidc(t) \/ CompleteGitHub(t)
  PROVE  SignInv'
<1>1. logins \in logins .. MaxLogins /\ signFaults \in 0 .. MaxSignFaults
      /\ discovery \in {"none", "kept", "rejected"}
  BY DEF SignAssumption, SignInv, SignTypeOK
<1>2. CASE BeginOidc(t)
  <2>1. discovery' \in {"none", "kept", "rejected"} /\ signFaults' \in 0 .. MaxSignFaults
    BY <1>1, <1>2, SignFaultType DEF BeginOidc, GetsConfig, SignInv
  <2>2. logins' \in logins .. MaxLogins
    BY <1>2 DEF BeginOidc, MayBegin, SignAssumption, SignInv, SignTypeOK
  <2> QED
    BY <1>2, <2>1, <2>2, BeginsStep, FailsStep DEF BeginOidc
<1>3. CASE BeginGitHub(t)
  BY <1>1, <1>3, BeginsStep DEF BeginGitHub
<1>4. CASE CompleteOidc(t)
  BY <1>1, <1>4, ExchangesStep, FailsStep DEF CompleteOidc, SignRefuses
<1>5. CASE CompleteGitHub(t)
  <2>1. signFaults' \in 0 .. MaxSignFaults \/ Exchanges(t)
    BY <1>1, <1>5, SignFaultType DEF CompleteGitHub, SignRefuses, SignInv
  <2> QED
    BY <1>1, <1>5, <2>1, ExchangesStep, FailsStep DEF CompleteGitHub, SignRefuses
<1> QED
  BY <1>2, <1>3, <1>4, <1>5

\* The invariant holds in every state.
THEOREM SignInvariance == ASSUME SignAssumption PROVE SignSpec => []SignInv
<1>1. SignInit => SignInv
  BY SignInitInv
<1>2. SignInv /\ [SignNext]_signVars => SignInv'
  <2>1. CASE UNCHANGED signVars
    BY <2>1 DEF signVars, SignInv, SignTypeOK, StateInv, LandedInv, Asked
  <2> QED
    BY <2>1, TabStep, UserStep, BrowserStep DEF SignNext
<1> QED
  BY <1>1, <1>2, PTL DEF SignSpec

\* A sign-in ends on the page it was begun for (completeLogin of both providers).
THEOREM LoginLandsOwn == ASSUME SignAssumption PROVE SignSpec => []LoginIsOwn
<1>1. SignInv => LoginIsOwn
  BY DEF SignInv, LandedInv, LoginIsOwn, Asked
<1> QED
  BY <1>1, SignInvariance, PTL

----------------------------------------------------------------------------
(* Installations: for any users and installations, any number of syncs and *)
(* of rows, and any failures.                                              *)

\* The steps of a sync that has taken an installation up, and those at which it has a row.
TakenUp  == {"insert", "reread", "update", "check", "join"}
HasRow == {"update", "check", "join"}
Runs   == [at : {"idle", "list", "find", "insert", "reread", "update", "check", "join", "done",
                 "thrown", "replied"},
           user : Users \cup {0}, listed : SUBSET Listing, left : SUBSET Listing,
           inst : Listing \cup {NoListing}, row : 0 .. MaxRows]

SyncType ==
  /\ users \subseteq Users /\ rows \subseteq Row /\ made \in 0 .. MaxRows /\ closed \in BOOLEAN
  /\ sync \in [Syncs -> Runs]

\* There is a row of the installation, and the user is linked to it.
HasLink(i, user) == \E r \in rows : r.inst = i.inst /\ <<r.id, user>> \in links

\* Of the run of a sync: the row it has found is of the installation it is at, and every listed
\* one is linked, or still to come, or the one it is at.
RunInv(run) ==
  /\ run.at \in TakenUp => run.inst \in Listing
  /\ ~closed =>
       /\ run.at \in HasRow => \E r \in rows : r.id = run.row /\ r.inst = run.inst.inst
       /\ run.at \in TakenUp \cup {"find", "done"} =>
            \A i \in run.listed : \/ HasLink(i, run.user)
                                  \/ i \in run.left /\ run.at # "done"
                                  \/ run.at \in TakenUp /\ i = run.inst

SyncInv == SyncType /\ \A s \in Syncs : RunInv(sync[s])

\* Rows and links stay, unless an account is closed.
Stay ==
  ~closed' =>
    /\ ~closed
    /\ \A r \in rows : \E q \in rows' : q.id = r.id /\ q.inst = r.inst
    /\ links \subseteq links'

\* So does what is said of a run that nothing happens to.
LEMMA RunStays ==
  ASSUME NEW run \in Runs, RunInv(run), Stay
  PROVE  RunInv(run)'
<1> SUFFICES ASSUME ~closed'
             PROVE  /\ run.at \in HasRow =>
                         \E r \in rows' : r.id = run.row /\ r.inst = run.inst.inst
                    /\ run.at \in TakenUp \cup {"find", "done"} =>
                         \A i \in run.listed : \/ HasLink(i, run.user)'
                                               \/ i \in run.left /\ run.at # "done"
                                               \/ run.at \in TakenUp /\ i = run.inst
  BY DEF RunInv
<1>1. /\ \A r \in rows : \E q \in rows' : q.id = r.id /\ q.inst = r.inst
      /\ links \subseteq links'
      /\ ~closed
  BY DEF Stay
<1>2. \A i : HasLink(i, run.user) => HasLink(i, run.user)'
  BY <1>1 DEF HasLink
<1> QED
  BY <1>1, <1>2 DEF RunInv

\* A step in which sync s changes to a run that is sound.
LEMMA SyncStep ==
  ASSUME SyncInv, NEW s \in Syncs, NEW run \in Runs, sync' = [sync EXCEPT ![s] = run],
         rows' \subseteq Row, made' \in 0 .. MaxRows, Stay, UNCHANGED <<users, closed>>,
         RunInv(run)'
  PROVE  SyncInv'
<1>1. sync' \in [Syncs -> Runs] /\ sync'[s] = run /\ \A o \in Syncs : o # s => sync'[o] = sync[o]
  BY DEF SyncInv, SyncType
<1>2. \A o \in Syncs : sync[o] \in Runs /\ RunInv(sync[o])
  BY DEF SyncInv, SyncType
<1>3. ASSUME NEW o \in Syncs
      PROVE  RunInv(sync[o])'
  <2>1. CASE o = s
    BY <1>1, <2>1 DEF RunInv
  <2>2. CASE o # s
    <3>1. sync'[o] = sync[o]
      BY <1>1, <2>2
    <3>2. PICK r \in Runs : r = sync[o]
      BY <1>2
    <3>3. RunInv(r)'
      BY <1>2, <3>2, RunStays DEF SyncInv, SyncType
    <3> QED
      BY <3>1, <3>2, <3>3 DEF RunInv
  <2> QED
    BY <2>1, <2>2
<1> QED
  BY <1>1, <1>3 DEF SyncInv, SyncType

\* What is said of one run, where it is used.
LEMMA RunOf ==
  ASSUME SyncInv, NEW s \in Syncs
  PROVE  sync[s] \in Runs /\ RunInv(sync[s])
BY DEF SyncInv, SyncType

\* Nothing but the sync changes.
LEMMA OnlySync ==
  ASSUME SyncInv, NEW s \in Syncs, NEW run \in Runs, sync' = [sync EXCEPT ![s] = run],
         UNCHANGED <<users, rows, links, made, closed>>, RunInv(run)
  PROVE  SyncInv'
<1>1. Stay
  BY DEF Stay, SyncInv, SyncType
<1>2. RunInv(run)'
  BY DEF RunInv, HasLink
<1> QED
  BY <1>1, <1>2, SyncStep DEF SyncInv, SyncType

\* A run that has been given up, or is over, owes nothing.
LEMMA IdleRuns ==
  ASSUME SyncsAssumption
  PROVE  /\ Idle \in Runs /\ RunInv(Idle)
         /\ [Idle EXCEPT !.at = "thrown"] \in Runs /\ RunInv([Idle EXCEPT !.at = "thrown"])
         /\ [Idle EXCEPT !.at = "replied"] \in Runs /\ RunInv([Idle EXCEPT !.at = "replied"])
BY DEF SyncsAssumption, Idle, Runs, RunInv, TakenUp, HasRow, NoListing

\* A sync that throws owes nothing.
LEMMA ThrowsStep ==
  ASSUME SyncsAssumption, SyncInv, NEW s \in Syncs, Throws(s),
         UNCHANGED <<users, rows, links, made, closed>>
  PROVE  SyncInv'
BY IdleRuns, OnlySync DEF Throws

\* A sync that starts has nothing listed.
LEMMA StartsStep ==
  ASSUME SyncsAssumption, SyncInv, NEW s \in Syncs, NEW user \in Users, Starts(s, user)
  PROVE  SyncInv'
<1> DEFINE run == [Idle EXCEPT !.at = "list", !.user = user]
<1>1. run \in Runs /\ run.at = "list"
  BY IdleRuns DEF Runs
<1>2. RunInv(run)
  BY <1>1 DEF RunInv, TakenUp, HasRow
<1> QED
  BY <1>1, <1>2, OnlySync DEF Starts

\* All that is listed is still to come.
LEMMA ListsStep ==
  ASSUME SyncsAssumption, SyncInv, NEW s \in Syncs, Lists(s)
  PROVE  SyncInv'
<1> DEFINE now == {[inst |-> i, name |-> IF i \in renamed THEN 1 ELSE 0] : i \in Installs}
<1>1. now \subseteq Listing
  BY DEF Listing
<1>2. ASSUME NEW some \in SUBSET now,
             sync' = [sync EXCEPT ![s].at = "find", ![s].listed = some, ![s].left = some]
      PROVE  SyncInv'
  <2> DEFINE run == [sync[s] EXCEPT !.at = "find", !.listed = some, !.left = some]
  <2>1. some \in SUBSET Listing
    BY <1>1
  <2> HIDE DEF now
  <2>2. run \in Runs
    BY <2>1, RunOf DEF Runs
  <2>3. run.at = "find" /\ run.listed = some /\ run.left = some
    BY <2>2, RunOf DEF Runs
  <2>4. RunInv(run)
    BY <2>3 DEF RunInv, TakenUp, HasRow
  <2>5. sync' = [sync EXCEPT ![s] = run]
    BY <1>2 DEF SyncInv, SyncType, Runs
  <2> QED
    BY <2>2, <2>4, <2>5, OnlySync DEF Lists
<1>3. CASE Throws(s)
  BY <1>3, ThrowsStep DEF Lists
<1> QED
  BY <1>2, <1>3 DEF Lists

\* A run that takes up one of those left leaves the others where they were.
LEMMA TakesStep ==
  ASSUME SyncsAssumption, SyncInv, NEW s \in Syncs, sync[s].at = "find", NEW i \in sync[s].left,
         NEW at \in {"insert", "update", "check"}, NEW id \in 0 .. MaxRows, Takes(s, i, at, id),
         at # "insert" => \E r \in rows : r.id = id /\ r.inst = i.inst,
         UNCHANGED <<users, rows, links, made, closed>>
  PROVE  SyncInv'
<1> DEFINE run == [sync[s] EXCEPT !.at = at, !.inst = i, !.row = id, !.left = @ \ {i}]
<1>1. sync[s] \in Runs /\ i \in Listing
  BY RunOf DEF Runs
<1>2. /\ run \in Runs /\ run.at = at /\ run.inst = i /\ run.row = id
      /\ run.left = sync[s].left \ {i} /\ run.listed = sync[s].listed /\ run.user = sync[s].user
  BY <1>1 DEF Runs
<1>3. sync' = [sync EXCEPT ![s] = run]
  BY <1>1 DEF Takes, SyncInv, SyncType, Runs
<1> HIDE DEF run
<1>4. RunInv(run)
  <2>1. RunInv(sync[s])
    BY RunOf
  <2> QED
    BY <1>1, <1>2, <2>1 DEF RunInv, TakenUp, HasRow
<1> QED
  BY <1>2, <1>3, <1>4, OnlySync

\* The row that is found, if there is one, is of the installation.
LEMMA FindsStep ==
  ASSUME SyncsAssumption, SyncInv, NEW s \in Syncs, Finds(s)
  PROVE  SyncInv'
<1>1. PICK i \in sync[s].left :
        \/ Known(i) = {} /\ Takes(s, i, "insert", 0)
        \/ \E r \in Known(i) : Takes(s, i, IF r.name # i.name THEN "update" ELSE "check", r.id)
  BY DEF Finds
<1>2. /\ sync[s].at = "find" /\ UNCHANGED <<users, rows, links, made, closed>>
      /\ 0 \in 0 .. MaxRows
  BY DEF Finds, SyncsAssumption
<1>3. ASSUME NEW r \in Known(i),
             Takes(s, i, IF r.name # i.name THEN "update" ELSE "check", r.id)
      PROVE  SyncInv'
  <2>1. r \in rows /\ r.inst = i.inst /\ r.id \in 0 .. MaxRows
    BY DEF Known, SyncInv, SyncType, Row, SyncsAssumption
  <2>2. CASE r.name # i.name
    BY <1>2, <1>3, <2>1, <2>2, TakesStep
  <2>3. CASE r.name = i.name
    BY <1>2, <1>3, <2>1, <2>3, TakesStep
  <2> QED
    BY <2>2, <2>3
<1> QED
  BY <1>1, <1>2, <1>3, TakesStep

\* A run that only moves on to another step; what it then owes, it has.
LEMMA GoesStep ==
  ASSUME SyncsAssumption, SyncInv, NEW s \in Syncs, NEW old \in Runs, old = sync[s],
         old.at \in TakenUp, NEW at \in {"find", "reread", "check", "join"}, Goes(s, at),
         UNCHANGED <<users, closed>>, Stay, rows' \subseteq Row, made' \in 0 .. MaxRows,
         at \in HasRow => old.at \in HasRow,
         at = "find" /\ ~closed => HasLink(old.inst, old.user)'
  PROVE  SyncInv'
<1> DEFINE run == [old EXCEPT !.at = at]
<1>1. old \in Runs /\ RunInv(old)
  BY RunOf
<1>2. /\ run \in Runs /\ run.at = at /\ run.inst = old.inst /\ run.row = old.row
      /\ run.left = old.left /\ run.listed = old.listed /\ run.user = old.user
  BY <1>1 DEF Runs
<1>3. sync' = [sync EXCEPT ![s] = run]
  BY DEF Goes
<1> HIDE DEF run
<1>4. \A i : ~closed' /\ HasLink(i, old.user) => HasLink(i, old.user)'
  <2> SUFFICES ASSUME NEW i, ~closed', NEW r \in rows, r.inst = i.inst, <<r.id, old.user>> \in links
               PROVE  HasLink(i, old.user)'
    BY DEF HasLink
  <2>1. PICK q \in rows' : q.id = r.id /\ q.inst = r.inst
    BY DEF Stay
  <2>2. <<q.id, old.user>> \in links'
    BY <2>1 DEF Stay
  <2> QED
    BY <2>1, <2>2 DEF HasLink
<1>5. run.at \in TakenUp => run.inst \in Listing
  BY <1>1, <1>2 DEF RunInv
<1>6. ASSUME ~closed, run.at \in HasRow
      PROVE  \E r \in rows' : r.id = run.row /\ r.inst = run.inst.inst
  <2>1. \E r \in rows : r.id = run.row /\ r.inst = run.inst.inst
    BY <1>1, <1>2, <1>6 DEF RunInv
  <2> QED
    BY <1>6, <2>1 DEF Stay
<1>7. ASSUME ~closed, NEW i \in run.listed
      PROVE  \/ HasLink(i, run.user)'
             \/ i \in run.left /\ run.at # "done"
             \/ run.at \in TakenUp /\ i = run.inst
  <2>1. HasLink(i, old.user) \/ i \in old.left \/ i = old.inst
    BY <1>1, <1>2, <1>7 DEF RunInv
  <2>2. HasLink(i, old.user) => HasLink(i, run.user)'
    BY <1>2, <1>4, <1>7
  <2> QED
    BY <1>2, <1>7, <2>1, <2>2 DEF TakenUp
<1>8. RunInv(run)'
  BY <1>5, <1>6, <1>7 DEF RunInv
<1> QED
  BY <1>2, <1>3, <1>8, SyncStep

\* A row for an installation nobody has recorded.
LEMMA InsertsStep ==
  ASSUME SyncsAssumption, SyncInv, NEW s \in Syncs, Inserts(s)
  PROVE  SyncInv'
<1>1. PICK old \in Runs : old = sync[s] /\ RunInv(old)
  BY RunOf
<1>2. /\ old.at = "insert" /\ made < MaxRows
      /\ UNCHANGED <<users, links, closed>>
  BY <1>1 DEF Inserts
<1>3. CASE old.user \in users
  <2> DEFINE new == [id |-> made', inst |-> old.inst.inst, name |-> old.inst.name,
                     creator |-> old.user]
  <2>1. made' = made + 1 /\ Goes(s, "reread") /\ rows' = rows \cup {new}
    BY <1>1, <1>3 DEF Inserts
  <2>2. old.inst \in Listing /\ old.user \in Users
    BY <1>1, <1>2, <1>3 DEF RunInv, TakenUp, SyncInv, SyncType
  <2>3. made' \in 0 .. MaxRows /\ made' \in 1 .. MaxRows
    BY <1>2, <2>1 DEF SyncInv, SyncType, SyncsAssumption
  <2>4. new \in Row
    BY <2>2, <2>3 DEF Row, Listing
  <2> HIDE DEF new
  <2>5. rows' \subseteq Row /\ Stay
    BY <1>2, <2>1, <2>4 DEF Stay, SyncInv, SyncType
  <2>6. old.at \in TakenUp /\ "reread" \notin HasRow
    BY <1>2 DEF TakenUp, HasRow
  <2> QED
    BY <1>1, <1>2, <2>1, <2>3, <2>5, <2>6, GoesStep
<1>4. CASE old.user \notin users
  BY <1>1, <1>2, <1>4, ThrowsStep DEF Inserts
<1> QED
  BY <1>3, <1>4

\* The row that was inserted, or that another sync inserted first.
LEMMA RereadsStep ==
  ASSUME SyncsAssumption, SyncInv, NEW s \in Syncs, Rereads(s)
  PROVE  SyncInv'
<1>1. PICK old \in Runs : old = sync[s] /\ RunInv(old)
  BY RunOf
<1>2. old.at = "reread" /\ UNCHANGED <<users, rows, links, made, closed>>
  BY <1>1 DEF Rereads
<1>3. ASSUME NEW r \in Known(old.inst), sync' = [sync EXCEPT ![s].at = "check", ![s].row = r.id]
      PROVE  SyncInv'
  <2> DEFINE run == [old EXCEPT !.at = "check", !.row = r.id]
  <2>1. r \in rows /\ r.inst = old.inst.inst /\ r.id \in 0 .. MaxRows
    BY DEF Known, SyncInv, SyncType, Row, SyncsAssumption
  <2>2. /\ run \in Runs /\ run.at = "check" /\ run.inst = old.inst /\ run.row = r.id
        /\ run.left = old.left /\ run.listed = old.listed /\ run.user = old.user
    BY <2>1 DEF Runs
  <2>3. sync' = [sync EXCEPT ![s] = run]
    BY <1>1, <1>3 DEF SyncInv, SyncType
  <2> HIDE DEF run
  <2>4. RunInv(run)
    BY <1>1, <1>2, <2>1, <2>2 DEF RunInv, TakenUp, HasRow
  <2> QED
    BY <1>2, <2>2, <2>3, <2>4, OnlySync
<1> QED
  BY <1>1, <1>2, <1>3, ThrowsStep DEF Rereads

\* A row that is saved with another name is of the same installation.
LEMMA UpdatesStep ==
  ASSUME SyncsAssumption, SyncInv, NEW s \in Syncs, Updates(s)
  PROVE  SyncInv'
<1>1. PICK old \in Runs : old = sync[s] /\ RunInv(old)
  BY RunOf
<1>2. /\ old.at = "update" /\ Goes(s, "check") /\ UNCHANGED <<users, links, made, closed>>
      /\ rows' = {IF r.id = old.row THEN [r EXCEPT !.name = old.inst.name] ELSE r : r \in rows}
  BY <1>1 DEF Updates
<1>3. old.inst \in Listing
  BY <1>1, <1>2 DEF RunInv, TakenUp
<1>4. \A r \in rows : LET q == [r EXCEPT !.name = old.inst.name]
                      IN q \in Row /\ q.id = r.id /\ q.inst = r.inst
  BY <1>3 DEF SyncInv, SyncType, Row, Listing
<1>5. rows' \subseteq Row
  BY <1>2, <1>4 DEF SyncInv, SyncType
<1>6. \A r \in rows : \E q \in rows' : q.id = r.id /\ q.inst = r.inst
  BY <1>2, <1>4
<1>7. Stay /\ made' \in 0 .. MaxRows
  BY <1>2, <1>6 DEF Stay, SyncInv, SyncType
<1>8. old.at \in TakenUp /\ old.at \in HasRow
  BY <1>2 DEF TakenUp, HasRow
<1> QED
  BY <1>1, <1>2, <1>5, <1>7, <1>8, GoesStep

\* A sync leaves an installation when the user is linked to the row it has found.
LEMMA ChecksLinkStep ==
  ASSUME SyncsAssumption, SyncInv, NEW s \in Syncs, ChecksLink(s)
  PROVE  SyncInv'
<1>1. PICK old \in Runs : old = sync[s] /\ RunInv(old)
  BY RunOf
<1>2. /\ old.at = "check" /\ UNCHANGED <<users, rows, links, made, closed>>
      /\ old.at \in TakenUp /\ old.at \in HasRow
  BY <1>1 DEF ChecksLink, TakenUp, HasRow
<1>3. Stay /\ rows' \subseteq Row /\ made' \in 0 .. MaxRows
  BY <1>2 DEF Stay, SyncInv, SyncType
<1>4. CASE Linked(s)
  <2>1. Goes(s, "find")
    BY <1>4 DEF ChecksLink
  <2>2. ~closed => HasLink(old.inst, old.user)'
    BY <1>1, <1>2, <1>4 DEF HasLink, Linked, RunInv
  <2> QED
    BY <1>1, <1>2, <1>3, <2>1, <2>2, GoesStep DEF HasRow
<1>5. CASE ~Linked(s)
  <2>1. Goes(s, "join")
    BY <1>5 DEF ChecksLink
  <2> QED
    BY <1>1, <1>2, <1>3, <2>1, GoesStep
<1> QED
  BY <1>4, <1>5

\* Or when it has linked the user to it.
LEMMA JoinsStep ==
  ASSUME SyncsAssumption, SyncInv, NEW s \in Syncs, Joins(s)
  PROVE  SyncInv'
<1>1. PICK old \in Runs : old = sync[s] /\ RunInv(old)
  BY RunOf
<1>2. /\ old.at = "join" /\ UNCHANGED <<users, rows, made, closed>>
      /\ old.at \in TakenUp /\ old.at \in HasRow
  BY <1>1 DEF Joins, TakenUp, HasRow
<1>3. CASE links' = links \cup {<<old.row, old.user>>} /\ Goes(s, "find")
  <2>1. Stay /\ rows' \subseteq Row /\ made' \in 0 .. MaxRows
    BY <1>2, <1>3 DEF Stay, SyncInv, SyncType
  <2>2. ~closed => HasLink(old.inst, old.user)'
    BY <1>1, <1>2, <1>3 DEF HasLink, RunInv
  <2> QED
    BY <1>1, <1>2, <1>3, <2>1, <2>2, GoesStep DEF HasRow
<1>4. CASE Throws(s) /\ UNCHANGED links
  BY <1>2, <1>4, ThrowsStep
<1> QED
  BY <1>1, <1>3, <1>4 DEF Joins

\* With nothing left, all that was listed is linked.
LEMMA FinishesStep ==
  ASSUME SyncsAssumption, SyncInv, NEW s \in Syncs, Finishes(s)
  PROVE  SyncInv'
<1>1. PICK old \in Runs : old = sync[s] /\ RunInv(old)
  BY RunOf
<1> DEFINE run == [old EXCEPT !.at = "done", !.inst = NoListing, !.row = 0]
<1>2. /\ old.at = "find" /\ old.left = {} /\ UNCHANGED <<users, rows, links, made, closed>>
      /\ sync' = [sync EXCEPT ![s] = run]
  BY <1>1 DEF Finishes, SyncInv, SyncType
<1>3. /\ run \in Runs /\ run.at = "done" /\ run.listed = old.listed /\ run.user = old.user
  <2>1. 0 \in 0 .. MaxRows
    BY DEF SyncsAssumption
  <2> QED
    BY <2>1 DEF Runs
<1> HIDE DEF run
<1>4. RunInv(run)
  BY <1>1, <1>2, <1>3 DEF RunInv, TakenUp, HasRow
<1> QED
  BY <1>2, <1>3, <1>4, OnlySync

\* The request is answered, or the sign-in goes on without it.
LEMMA RepliesStep ==
  ASSUME SyncsAssumption, SyncInv, NEW s \in Syncs, Replies(s)
  PROVE  SyncInv'
<1>1. /\ sync' = [sync EXCEPT ![s] = [Idle EXCEPT !.at = "replied"]]
      /\ UNCHANGED <<users, rows, links, made, closed>>
  BY DEF Replies
<1> QED
  BY <1>1, IdleRuns, OnlySync

\* An account that is closed takes rows and links, and from then on nothing is owed.
LEMMA CascadesStep ==
  ASSUME SyncInv, NEW user \in Users, Cascades(user)
  PROVE  SyncInv'
<1>1. /\ users' \subseteq users /\ rows' \subseteq rows /\ closed' = TRUE
      /\ UNCHANGED <<sync, made>>
  BY DEF Cascades
<1>2. SyncType'
  BY <1>1 DEF SyncInv, SyncType
<1>3. \A s \in Syncs : RunInv(sync[s])'
  BY <1>1 DEF SyncInv, RunInv
<1> QED
  BY <1>2, <1>3 DEF SyncInv

\* No sync has listed anything when the instance starts.
LEMMA SyncInitInv == ASSUME SyncsAssumption, InstInit PROVE SyncInv
<1>1. Idle \in Runs /\ RunInv(Idle)
  BY IdleRuns
<1>2. sync \in [Syncs -> Runs] /\ \A s \in Syncs : sync[s] = Idle
  BY <1>1 DEF InstInit
<1>3. SyncType
  <2>1. users \subseteq Users /\ rows \subseteq Row /\ closed \in BOOLEAN
    BY DEF InstInit
  <2>2. made \in 0 .. MaxRows
    BY DEF InstInit, SyncsAssumption
  <2> QED
    BY <1>2, <2>1, <2>2 DEF SyncType
<1>4. \A s \in Syncs : RunInv(sync[s])
  BY <1>1, <1>2
<1> QED
  BY <1>3, <1>4 DEF SyncInv

\* The inductive invariant of the syncs (syncUserInstallations in api/src/github.ts).
THEOREM SyncInvariance == ASSUME SyncsAssumption PROVE InstSpec => []SyncInv
<1>1. InstInit => SyncInv
  BY SyncInitInv
<1>2. SyncInv /\ [InstNext]_instVars => SyncInv'
  <2> SUFFICES ASSUME SyncInv, [InstNext]_instVars
               PROVE  SyncInv'
    OBVIOUS
  <2>1. ASSUME NEW s \in Syncs, NEW user \in Users, Starts(s, user)
        PROVE  SyncInv'
    BY <2>1, StartsStep
  <2>2. ASSUME NEW s \in Syncs,
               \/ Lists(s) \/ Finds(s) \/ Inserts(s) \/ Rereads(s) \/ Updates(s)
               \/ ChecksLink(s) \/ Joins(s) \/ Finishes(s) \/ Replies(s)
        PROVE  SyncInv'
    BY <2>2, ListsStep, FindsStep, InsertsStep, RereadsStep, UpdatesStep, ChecksLinkStep,
       JoinsStep, FinishesStep, RepliesStep
  <2>3. ASSUME NEW i \in Installs, Renames(i)
        PROVE  SyncInv'
    BY <2>3 DEF Renames, SyncInv, SyncType, RunInv, HasLink
  <2>4. ASSUME NEW user \in Users, Cascades(user)
        PROVE  SyncInv'
    BY <2>4, CascadesStep
  <2>5. CASE UNCHANGED instVars
    BY <2>5 DEF instVars, SyncInv, SyncType, RunInv, HasLink
  <2> QED
    BY <2>1, <2>2, <2>3, <2>4, <2>5 DEF InstNext
<1> QED
  BY <1>1, <1>2, PTL DEF InstSpec

\* A sync that has not thrown has linked its user to every installation GitHub listed to it,
\* whatever other syncs of the same or of another user insert, rename and link in between
\* (syncUserInstallations in api/src/github.ts).
THEOREM ListedLinked == ASSUME SyncsAssumption PROVE InstSpec => []ListedAreLinked
<1>1. SyncInv => ListedAreLinked
  BY DEF SyncInv, SyncType, RunInv, HasLink, ListedAreLinked, TakenUp
<1> QED
  BY <1>1, SyncInvariance, PTL

\* What is still to come was listed; and the state that no sync reads.
LeftInv == \A s \in Syncs : sync[s].left \subseteq sync[s].listed
RestTypes ==
  /\ renamed \subseteq Installs /\ links \subseteq (1 .. MaxRows) \X Users
  /\ dialog \in {"closed", "list", "forbidden", "error"}
  /\ syncFaults \in 0 .. MaxSyncFaults

\* A run that has less to come leaves the others as they are.
LEMMA LeftStep ==
  ASSUME SyncInv, LeftInv, NEW s \in Syncs, NEW run \in Runs, sync' = [sync EXCEPT ![s] = run],
         run.left \subseteq run.listed
  PROVE  LeftInv'
BY DEF SyncInv, SyncType, LeftInv

LEMMA LeftKept ==
  ASSUME SyncsAssumption, SyncInv, LeftInv, InstNext PROVE LeftInv'
<1>1. sync \in [Syncs -> Runs]
  BY DEF SyncInv, SyncType
<1>2. \A s \in Syncs : sync[s] \in Runs /\ sync[s].left \subseteq sync[s].listed
  BY <1>1 DEF LeftInv
<1>3. ASSUME NEW s \in Syncs, Throws(s) PROVE LeftInv'
  BY <1>3, IdleRuns, LeftStep DEF Throws, Idle
<1>4. ASSUME NEW s \in Syncs, NEW at \in {"find", "check", "join", "reread"}, Goes(s, at)
      PROVE  LeftInv'
  <2> DEFINE run == [sync[s] EXCEPT !.at = at]
  <2>1. run \in Runs /\ run.left = sync[s].left /\ run.listed = sync[s].listed
    BY <1>2 DEF Runs
  <2>2. sync' = [sync EXCEPT ![s] = run]
    BY <1>1, <1>4 DEF Goes, Runs
  <2> HIDE DEF run
  <2> QED
    BY <1>2, <2>1, <2>2, LeftStep
<1>5. ASSUME NEW s \in Syncs, NEW i \in Listing, NEW at \in {"insert", "update", "check"},
             NEW id \in 0 .. MaxRows, Takes(s, i, at, id)
      PROVE  LeftInv'
  <2> DEFINE run == [sync[s] EXCEPT !.at = at, !.inst = i, !.row = id, !.left = @ \ {i}]
  <2>1. run \in Runs /\ run.left = sync[s].left \ {i} /\ run.listed = sync[s].listed
    BY <1>2 DEF Runs
  <2>2. sync' = [sync EXCEPT ![s] = run]
    BY <1>1, <1>5 DEF Takes, Runs
  <2> HIDE DEF run
  <2> QED
    BY <1>2, <2>1, <2>2, LeftStep
<1>6. ASSUME NEW s \in Syncs, NEW user \in Users, Starts(s, user) PROVE LeftInv'
  <2> DEFINE run == [Idle EXCEPT !.at = "list", !.user = user]
  <2>1. run \in Runs /\ run.left = {}
    BY IdleRuns DEF Runs, Idle
  <2> HIDE DEF run
  <2> QED
    BY <1>6, <2>1, LeftStep DEF Starts, run
<1>7. ASSUME NEW s \in Syncs, Lists(s) PROVE LeftInv'
  <2> DEFINE now == {[inst |-> i, name |-> IF i \in renamed THEN 1 ELSE 0] : i \in Installs}
  <2>1. now \subseteq Listing
    BY DEF Listing
  <2>2. ASSUME NEW some \in SUBSET now,
               sync' = [sync EXCEPT ![s].at = "find", ![s].listed = some, ![s].left = some]
        PROVE  LeftInv'
    <3> DEFINE run == [sync[s] EXCEPT !.at = "find", !.listed = some, !.left = some]
    <3>1. some \in SUBSET Listing
      BY <2>1
    <3> HIDE DEF now
    <3>2. run \in Runs /\ run.left = some /\ run.listed = some
      BY <1>2, <3>1 DEF Runs
    <3>3. sync' = [sync EXCEPT ![s] = run]
      BY <1>1, <2>2 DEF Runs
    <3> HIDE DEF run
    <3> QED
      BY <3>2, <3>3, LeftStep
  <2> QED
    BY <1>3, <1>7, <2>2 DEF Lists
<1>8. ASSUME NEW s \in Syncs, Finds(s) PROVE LeftInv'
  <2>1. PICK i \in sync[s].left :
          \/ Takes(s, i, "insert", 0)
          \/ \E r \in Known(i) : Takes(s, i, IF r.name # i.name THEN "update" ELSE "check", r.id)
    BY <1>8 DEF Finds
  <2>2. i \in Listing
    BY <1>2 DEF Runs
  <2>3. ASSUME NEW r \in Known(i) PROVE r.id \in 0 .. MaxRows
    BY DEF Known, SyncInv, SyncType, Row, SyncsAssumption
  <2>4. 0 \in 0 .. MaxRows
    BY DEF SyncsAssumption
  <2>5. ASSUME NEW r \in Known(i),
               Takes(s, i, IF r.name # i.name THEN "update" ELSE "check", r.id)
        PROVE  LeftInv'
    <3>1. CASE r.name # i.name
      BY <1>5, <2>2, <2>3, <2>5, <3>1
    <3>2. CASE r.name = i.name
      BY <1>5, <2>2, <2>3, <2>5, <3>2
    <3> QED
      BY <3>1, <3>2
  <2> QED
    BY <1>5, <2>1, <2>2, <2>4, <2>5
<1>9. ASSUME NEW s \in Syncs, Rereads(s) PROVE LeftInv'
  <2>1. ASSUME NEW r \in Known(sync[s].inst), sync' = [sync EXCEPT ![s].at = "check", ![s].row = r.id]
        PROVE  LeftInv'
    <3> DEFINE run == [sync[s] EXCEPT !.at = "check", !.row = r.id]
    <3>1. r.id \in 0 .. MaxRows
      BY DEF Known, SyncInv, SyncType, Row, SyncsAssumption
    <3>2. run \in Runs /\ run.left = sync[s].left /\ run.listed = sync[s].listed
      BY <1>2, <3>1 DEF Runs
    <3>3. sync' = [sync EXCEPT ![s] = run]
      BY <1>1, <2>1 DEF Runs
    <3> HIDE DEF run
    <3> QED
      BY <1>2, <3>2, <3>3, LeftStep
  <2> QED
    BY <1>3, <1>9, <2>1 DEF Rereads
<1>10. ASSUME NEW s \in Syncs, Finishes(s) PROVE LeftInv'
  <2> DEFINE run == [sync[s] EXCEPT !.at = "done", !.inst = NoListing, !.row = 0]
  <2>1. 0 \in 0 .. MaxRows
    BY DEF SyncsAssumption
  <2>2. run \in Runs /\ run.left = sync[s].left /\ run.listed = sync[s].listed
    BY <1>2, <2>1 DEF Runs
  <2>3. sync' = [sync EXCEPT ![s] = run]
    BY <1>1, <1>10 DEF Finishes, Runs
  <2> HIDE DEF run
  <2> QED
    BY <1>2, <2>2, <2>3, LeftStep
<1>11. ASSUME NEW s \in Syncs, Replies(s) PROVE LeftInv'
  BY <1>11, IdleRuns, LeftStep DEF Replies, Idle
<1>12. ASSUME NEW s \in Syncs, Inserts(s) \/ Updates(s) \/ ChecksLink(s) \/ Joins(s) PROVE LeftInv'
  BY <1>3, <1>4, <1>12 DEF Inserts, Updates, ChecksLink, Joins
<1>13. CASE sync' = sync
  BY <1>13 DEF LeftInv
<1> QED
  BY <1>6, <1>7, <1>8, <1>9, <1>10, <1>11, <1>12, <1>13 DEF InstNext, Renames, Cascades

LEMMA RestKept ==
  ASSUME SyncsAssumption, SyncInv, RestTypes, InstNext PROVE RestTypes'
<1>1. SyncFault => syncFaults' \in 0 .. MaxSyncFaults
  BY DEF SyncFault, RestTypes, SyncsAssumption
<1>2. syncFaults' \in 0 .. MaxSyncFaults
  BY <1>1 DEF InstNext, Starts, Lists, Finds, Inserts, Rereads, Updates, ChecksLink, Joins, Finishes,
              Replies, Renames, Cascades, RestTypes
<1>3. renamed' \subseteq Installs
  BY DEF InstNext, Starts, Lists, Finds, Inserts, Rereads, Updates, ChecksLink, Joins, Finishes,
         Replies, Renames, Cascades, RestTypes
<1>4. dialog' \in {"closed", "list", "forbidden", "error"}
  <2>1. ASSUME NEW s \in Syncs, Replies(s) PROVE dialog' \in {"closed", "list", "forbidden", "error"}
    <3>1. ListRepos(s) => dialog' \in {"list", "forbidden"}
      BY DEF ListRepos
    <3> QED
      BY <2>1, <3>1 DEF Replies, ListOrgs, RestTypes
  <2>2. (\A s \in Syncs : ~Replies(s)) => dialog' = dialog
    BY DEF InstNext, Starts, Lists, Finds, Inserts, Rereads, Updates, ChecksLink, Joins, Finishes,
           Renames, Cascades
  <2> QED
    BY <2>1, <2>2 DEF RestTypes
<1>5. links' \subseteq (1 .. MaxRows) \X Users
  <2>1. ASSUME NEW s \in Syncs, Joins(s) PROVE links' \subseteq (1 .. MaxRows) \X Users
    <3>1. CASE links' = links
      BY <3>1 DEF RestTypes
    <3>2. CASE links' # links
      <4>1. /\ sync[s].user \in users /\ \E r \in rows : r.id = sync[s].row
            /\ links' = links \cup {<<sync[s].row, sync[s].user>>}
        BY <2>1, <3>2 DEF Joins
      <4>2. sync[s].row \in 1 .. MaxRows /\ sync[s].user \in Users
        BY <4>1 DEF SyncInv, SyncType, Row
      <4> QED
        BY <4>1, <4>2 DEF RestTypes
    <3> QED
      BY <3>1, <3>2
  <2>2. ASSUME NEW user \in Users, Cascades(user) PROVE links' \subseteq links
    BY <2>2 DEF Cascades
  <2>3. \/ \E s \in Syncs : Joins(s)
        \/ \E user \in Users : Cascades(user)
        \/ links' = links
    BY DEF InstNext, Starts, Lists, Finds, Inserts, Rereads, Updates, ChecksLink, Finishes,
           Replies, Renames
  <2> QED
    BY <2>1, <2>2, <2>3 DEF RestTypes
<1> QED
  BY <1>2, <1>3, <1>4, <1>5 DEF RestTypes

\* Rows, links and syncs are of their types.
THEOREM SyncTypeCorrect == ASSUME SyncsAssumption PROVE InstSpec => []InstTypeOK
<1>1. InstInit => LeftInv /\ RestTypes
  BY DEF InstInit, LeftInv, RestTypes, Idle, SyncsAssumption
<1>2. SyncInv /\ LeftInv /\ RestTypes /\ [InstNext]_instVars => LeftInv' /\ RestTypes'
  <2>1. ASSUME LeftInv, RestTypes, UNCHANGED instVars PROVE LeftInv' /\ RestTypes'
    BY <2>1 DEF instVars, LeftInv, RestTypes
  <2> QED
    BY <2>1, LeftKept, RestKept
<1>3. SyncInv /\ LeftInv /\ RestTypes => InstTypeOK
  BY DEF SyncInv, SyncType, Runs, LeftInv, RestTypes, InstTypeOK
<1> QED
  BY <1>1, <1>2, <1>3, SyncInvariance, PTL DEF InstSpec

----------------------------------------------------------------------------
(* PageRequests: for any requests, any stories, and any failures of the    *)
(* installations.                                                          *)

\* A browser that is ready blocks what goes elsewhere, if it is to and could; a request it lets
\* through stays with its host.
EgressInv ==
  /\ where \in [RequestNos -> {"unmade", "stopped", "open", "paused", "stuck", "answered", "left"}]
  /\ ask \in [RequestNos -> AskKinds \cup {None}]
  /\ egress \in {"resolver", "intercept", "off"}
  /\ egress = "intercept" /\ ~missed =>
       /\ launch = "ready" => intercept = "full"
       /\ \A r \in RequestNos : where[r] = "open" => ask[r].to = "same"

\* A request settles in one place.
LEMMA SettlesOne ==
  ASSUME EgressInv, NEW r \in RequestNos, NEW to, Settles(r, to),
         to \in {"stopped", "answered", "left"}
  PROVE  /\ where' \in [RequestNos -> {"unmade", "stopped", "open", "paused", "stuck", "answered",
                                       "left"}]
         /\ ask' \in [RequestNos -> AskKinds \cup {None}]
         /\ \A q \in RequestNos : where'[q] = "open" => where[q] = "open" /\ ask'[q] = ask[q]
         /\ \A q \in RequestNos : where'[q] = "left" => where[q] = "left" \/ (q = r /\ to = "left")
BY DEF EgressInv, Settles

\* A step of the session keeps the invariant, and leaves a host only with a request that the
\* network layer was not there to stop.
LEMMA EgressStep ==
  ASSUME EgressInv, NetNext
  PROVE  /\ EgressInv'
         /\ (\E r \in RequestNos : where[r] # "left" /\ where'[r] = "left")
              => egress = "off" \/ missed
<1> USE DEF EgressInv
<1>1. CASE InstallBrowserSafeguards \/ InstallSessionDiagnostics
  BY <1>1 DEF InstallBrowserSafeguards, InstallSessionDiagnostics
<1>2. CASE InstallNetworkEgressBlock
  BY <1>2 DEF InstallNetworkEgressBlock
<1>3. CASE Replaced
  BY <1>3 DEF Replaced, Forgotten
<1>4. CASE ComesOfAge \/ CollectFailureDiagnostics \/ Succeeds
  BY <1>4 DEF ComesOfAge, CollectFailureDiagnostics, Succeeds, layers
<1>5. CASE \E s \in Scripts : Captures(s)
  BY <1>5 DEF Captures, layers
<1>6. CASE \E l \in Lines : Logs(l)
  BY <1>6 DEF Logs, layers
<1>7. ASSUME NEW r \in RequestNos, Intercepted(r)
      PROVE  /\ EgressInv' /\ \A q \in RequestNos : where'[q] = "left" => where[q] = "left"
             /\ UNCHANGED <<egress, missed>>
  <2>1. CASE Settles(r, "stopped")
    BY <1>7, <2>1, SettlesOne DEF Intercepted, layers
  <2>2. ASSUME NEW to \in {"open", "stuck"}, Settled(ask[r], to), where' = [where EXCEPT ![r] = to],
               UNCHANGED ask
        PROVE  /\ EgressInv' /\ \A q \in RequestNos : where'[q] = "left" => where[q] = "left"
    BY <1>7, <2>2 DEF Intercepted, layers, Settled, Allowed
  <2> QED
    BY <1>7, <2>1, <2>2 DEF Intercepted, layers
<1>8. ASSUME NEW r \in RequestNos, Completes(r)
      PROVE  /\ EgressInv'
             /\ (\E q \in RequestNos : where[q] # "left" /\ where'[q] = "left")
                  => egress = "off" \/ missed
  <2> DEFINE to == IF Unresolved(ask[r]) THEN "stopped"
                   ELSE IF ask[r].to = "off" THEN "left" ELSE "answered"
  <2>1. Settles(r, to) /\ to \in {"stopped", "answered", "left"} /\ where[r] = "open"
        /\ UNCHANGED layers
    BY <1>8 DEF Completes
  <2>2. to = "left" => egress = "off" \/ missed
    BY <1>8, <2>1 DEF Unresolved
  <2> HIDE DEF to
  <2> QED
    BY <2>1, <2>2, SettlesOne DEF layers
<1>9. ASSUME NEW r \in RequestNos, NEW k \in AskKinds, Requested(r, k)
      PROVE  /\ EgressInv' /\ \A q \in RequestNos : where'[q] = "left" => where[q] = "left"
  <2>1. where[r] = "unmade" /\ launch = "ready" /\ UNCHANGED layers
    BY <1>9 DEF Requested, IsNext
  <2>2. \/ where' = [where EXCEPT ![r] = "stopped"] /\ UNCHANGED ask
        \/ /\ ask' = [ask EXCEPT ![r] = k]
           /\ where' = [where EXCEPT ![r] = IF intercept = "none" THEN "open" ELSE "paused"]
    BY <1>9 DEF Requested
  <2> QED
    BY <2>1, <2>2 DEF layers
<1> QED
  BY <1>1, <1>2, <1>3, <1>4, <1>5, <1>6, <1>7, <1>8, <1>9 DEF NetNext, InstallBrowserSafeguards,
     InstallSessionDiagnostics, InstallNetworkEgressBlock, Replaced, Forgotten, ComesOfAge,
     CollectFailureDiagnostics, Succeeds, Captures, Logs

\* No request leaves for another host, from any context and in any browser the session gets,
\* unless the network layer is switched off or could not be installed.
THEOREM EgressContained == NetSpec => Contained
<1>1. NetInit => EgressInv
  BY DEF NetInit, EgressInv
<1>2. EgressInv /\ [NetNext]_netVars => EgressInv'
  BY EgressStep DEF netVars, EgressInv
<1>3. EgressInv /\ [NetNext]_netVars =>
        [(\E r \in RequestNos : where[r] # "left" /\ where'[r] = "left")
           => egress = "off" \/ missed]_netVars
  BY EgressStep
<1> QED
  BY <1>1, <1>2, <1>3, PTL DEF NetSpec, Contained

\* Requests are finite in number.
LEMMA RequestsFinite ==
  ASSUME AsksAssumption, NEW K \in SUBSET RequestNos
  PROVE  IsFiniteSet(K) /\ Cardinality(K) \in Nat
<1>1. IsFiniteSet(RequestNos)
  BY FS_Interval DEF RequestNos, AsksAssumption
<1> QED
  BY <1>1, FS_Subset, FS_CardinalityType

\* No more of the newest, or of the oldest, than were asked for.
LEMMA FewAtAnEnd ==
  ASSUME AsksAssumption, NEW K \in SUBSET RequestNos, NEW n \in Nat
  PROVE  Cardinality(NewestOf(K, n)) <= n /\ Cardinality(OldestOf(K, n)) <= n
<1>1. ASSUME NEW A \in SUBSET K, NEW x \in A, NEW B \in SUBSET K,
             A \subseteq B \cup {x}, Cardinality(B) < n
      PROVE  Cardinality(A) <= n
  <2>1. IsFiniteSet(B) /\ Cardinality(B) \in Nat /\ Cardinality(A) \in Nat
    BY RequestsFinite
  <2>2. Cardinality(B \cup {x}) <= Cardinality(B) + 1 /\ IsFiniteSet(B \cup {x})
    BY <2>1, OneMore
  <2>3. Cardinality(A) <= Cardinality(B \cup {x}) /\ Cardinality(B \cup {x}) \in Nat
    BY <1>1, <2>2, FS_Subset, FS_CardinalityType
  <2> QED
    BY <1>1, <2>1, <2>2, <2>3
<1>2. Cardinality(NewestOf(K, n)) <= n
  <2>1. CASE NewestOf(K, n) = {}
    BY <2>1, FS_EmptySet
  <2>2. CASE NewestOf(K, n) # {}
    <3>1. NewestOf(K, n) \subseteq Nat
      <4>1. \A x \in K : x \in Nat
        BY DEF RequestNos, AsksAssumption
      <4> QED
        BY <4>1 DEF NewestOf
    <3>2. PICK x \in NewestOf(K, n) : \A y \in NewestOf(K, n) : x <= y
      BY <2>2, <3>1, HasLeast
    <3>3. NewestOf(K, n) \subseteq {q \in K : q > x} \cup {x}
      BY <3>1, <3>2 DEF NewestOf, RequestNos
    <3>4. NewestOf(K, n) \in SUBSET K /\ Cardinality({q \in K : q > x}) < n
      BY DEF NewestOf
    <3> QED
      BY <1>1, <3>2, <3>3, <3>4
  <2> QED
    BY <2>1, <2>2
<1>3. Cardinality(OldestOf(K, n)) <= n
  <2>1. CASE OldestOf(K, n) = {}
    BY <2>1, FS_EmptySet
  <2>2. CASE OldestOf(K, n) # {}
    <3>1. OldestOf(K, n) \subseteq 1 .. MaxRequests
      BY DEF OldestOf, RequestNos
    <3>2. PICK x \in OldestOf(K, n) : \A y \in OldestOf(K, n) : y <= x
      BY <2>2, <3>1, HasGreatest DEF AsksAssumption
    <3>3. OldestOf(K, n) \subseteq {q \in K : q < x} \cup {x}
      BY <3>1, <3>2 DEF OldestOf, RequestNos
    <3>4. OldestOf(K, n) \in SUBSET K /\ Cardinality({q \in K : q < x}) < n
      BY DEF OldestOf
    <3> QED
      BY <1>1, <3>2, <3>3, <3>4
  <2> QED
    BY <2>1, <2>2
<1> QED
  BY <1>2, <1>3

\* The pending requests that were made after one.
After(r) == {q \in tracked : q > r}

\* Requests are made in the order of their numbers, and none is out in a browser that is not ready.
MadeInv ==
  /\ \A r \in RequestNos : where[r] # "unmade" => \A q \in 1 .. r - 1 : where[q] # "unmade"
  /\ \A r \in tracked \cup aged : where[r] # "unmade"
  /\ launch # "ready" => Out = {}

\* A request that is out is in the map, or has been pushed out of it; and no more requests that
\* came after it are in the map than were counted.
PendingInv ==
  watched => \A r \in Out : sentAfter[r] < MaxPending =>
    r \in tracked \cup aged /\ Cardinality(After(r)) <= sentAfter[r]

PendingType ==
  /\ where \in [RequestNos -> {"unmade", "stopped", "open", "paused", "stuck", "answered", "left"}]
  /\ ask \in [RequestNos -> AskKinds \cup {None}]
  /\ sentAfter \in [RequestNos -> 0 .. MaxPending]
  /\ tracked \in SUBSET RequestNos /\ Cardinality(tracked) <= MaxPending
  /\ aged \in SUBSET RequestNos

\* What settles is taken out of the map and off every count.
LEMMA SettlesPending ==
  ASSUME AsksAssumption, PendingType, MadeInv, PendingInv, NEW r \in RequestNos, where[r] # "unmade",
         NEW to \in {"stopped", "answered", "left"}, Settles(r, to), UNCHANGED <<watched, launch>>
  PROVE  PendingType' /\ MadeInv' /\ PendingInv'
<1>1. PendingType'
  <2>1. Cardinality(tracked \ {r}) <= MaxPending
    <3>1. IsFiniteSet(tracked) /\ Cardinality(tracked) \in Nat
      BY RequestsFinite DEF PendingType
    <3>2. tracked \ {r} \in SUBSET tracked
      OBVIOUS
    <3>3. Cardinality(tracked \ {r}) <= Cardinality(tracked) /\ Cardinality(tracked \ {r}) \in Nat
      BY <3>1, <3>2, FS_Subset, FS_CardinalityType
    <3> QED
      BY <3>1, <3>3 DEF PendingType, AsksAssumption
  <2> QED
    BY <2>1 DEF PendingType, Settles, AsksAssumption
<1>2. MadeInv' /\ Out' = Out \ {r}
  BY DEF MadeInv, Out, Settles, PendingType, RequestNos
<1>3. ASSUME NEW q \in Out', watched, sentAfter'[q] < MaxPending
      PROVE  q \in tracked' \cup aged' /\ Cardinality(After(q)') <= sentAfter'[q]
  <2>1. q \in Out /\ q # r /\ sentAfter'[q] = sentAfter[q] /\ q \in RequestNos
    BY <1>2, <1>3 DEF Settles, PendingType, Out
  <2>2. q \in tracked \cup aged /\ Cardinality(After(q)) <= sentAfter[q]
    BY <1>3, <2>1 DEF PendingInv
  <2>3. After(q)' \subseteq After(q) /\ After(q) \in SUBSET RequestNos
    BY DEF After, Settles, PendingType
  <2>4. Cardinality(After(q)') <= Cardinality(After(q)) /\ Cardinality(After(q)') \in Nat
        /\ Cardinality(After(q)) \in Nat
    BY <2>3, RequestsFinite, FS_Subset
  <2> QED
    BY <2>1, <2>2, <2>4 DEF Settles, PendingType
<1> QED
  BY <1>1, <1>2, <1>3 DEF PendingInv

\* A request that passes the page is noted: it pushes out what MaxPending later ones are in the
\* place of, and nothing else that is young.
LEMMA RequestedPending ==
  ASSUME AsksAssumption, PendingType, MadeInv, PendingInv, NEW r \in RequestNos,
         NEW k \in AskKinds, Requested(r, k)
  PROVE  PendingType' /\ MadeInv' /\ PendingInv'
<1>1. where[r] = "unmade" /\ launch = "ready" /\ UNCHANGED <<launch, watched, aged>>
  BY DEF Requested, IsNext, layers
<1>2. \A q \in RequestNos : where[q] # "unmade" => q < r
  BY <1>1 DEF MadeInv, RequestNos
<1>3. \A q \in 1 .. r - 1 : where[q] # "unmade"
  BY DEF Requested, IsNext
<1>4. CASE StoppedInPage(k)
  <2>1. UNCHANGED <<ask, tracked, sentAfter>> /\ where' = [where EXCEPT ![r] = "stopped"]
    BY <1>4 DEF Requested
  <2>2. Out' = Out
    BY <1>1, <2>1 DEF Out, PendingType
  <2>3. MadeInv'
    BY <1>1, <1>2, <1>3, <2>1, <2>2 DEF MadeInv, PendingType, RequestNos
  <2>4. PendingInv'
    BY <1>1, <2>1, <2>2 DEF PendingInv, After
  <2> QED
    BY <1>1, <2>1, <2>3, <2>4 DEF PendingType
<1>5. CASE ~StoppedInPage(k)
  <2> DEFINE at == IF intercept = "none" THEN "open" ELSE "paused"
  <2>1. /\ ask' = [ask EXCEPT ![r] = k] /\ where' = [where EXCEPT ![r] = at]
        /\ sentAfter' = [q \in RequestNos |-> IF q \in Out /\ sentAfter[q] < MaxPending
                                              THEN sentAfter[q] + 1 ELSE sentAfter[q]]
        /\ tracked' = IF watched THEN Noted(r) ELSE tracked
    BY <1>5 DEF Requested
  <2>2. at \in {"open", "paused"}
    OBVIOUS
  <2> HIDE DEF at
  <2>3. Out' = Out \cup {r} /\ r \notin Out
    BY <1>1, <2>1, <2>2 DEF Out, PendingType
  <2>4. NewestOf(Young, MaxPending - 1) \subseteq tracked
    BY DEF NewestOf, Young
  <2>5. tracked' \subseteq tracked \cup {r} /\ tracked' \in SUBSET RequestNos
    BY <2>1, <2>4 DEF Noted, PendingType
  <2>6. MadeInv'
    BY <1>1, <1>2, <1>3, <2>1, <2>2, <2>5 DEF MadeInv, PendingType, RequestNos
  <2>7. Cardinality(tracked') <= MaxPending
    <3>1. CASE watched
      <4>1. Young \in SUBSET RequestNos /\ MaxPending - 1 \in Nat
        BY DEF Young, PendingType, AsksAssumption
      <4>2. NewestOf(Young, MaxPending - 1) \in SUBSET RequestNos
        BY <2>4 DEF PendingType
      <4>3. Cardinality(NewestOf(Young, MaxPending - 1)) <= MaxPending - 1
        BY <4>1, FewAtAnEnd
      <4>4. /\ Cardinality(NewestOf(Young, MaxPending - 1)) \in Nat
            /\ IsFiniteSet(NewestOf(Young, MaxPending - 1))
        BY <4>2, RequestsFinite
      <4>5. Cardinality(Noted(r)) <= Cardinality(NewestOf(Young, MaxPending - 1)) + 1
        BY <4>4, OneMore DEF Noted
      <4>6. Noted(r) \in SUBSET RequestNos
        BY <4>2 DEF Noted
      <4>7. Cardinality(Noted(r)) \in Nat
        BY <4>6, RequestsFinite
      <4> QED
        BY <2>1, <3>1, <4>3, <4>4, <4>5, <4>7 DEF AsksAssumption
    <3> QED
      BY <2>1, <3>1 DEF PendingType
  <2>8. PendingType'
    BY <1>1, <2>1, <2>2, <2>5, <2>7 DEF PendingType, AsksAssumption
  <2>9. ASSUME NEW q \in Out', watched, sentAfter'[q] < MaxPending
        PROVE  q \in tracked' \cup aged' /\ Cardinality(After(q)') <= sentAfter'[q]
    <3>1. q \in RequestNos /\ After(q) \in SUBSET RequestNos /\ tracked' = Noted(r)
      BY <2>1, <2>9 DEF Out, After, PendingType
    <3>2. CASE q = r
      <4>1. After(q)' = {}
        <5>1. \A p \in tracked : p \in RequestNos /\ p < r
          BY <1>2 DEF MadeInv, PendingType
        <5>2. \A p \in tracked' : p <= r /\ p \in Nat
          BY <2>5, <5>1 DEF RequestNos, AsksAssumption
        <5> QED
          BY <3>2, <5>2 DEF After, RequestNos, AsksAssumption
      <4> QED
        BY <2>8, <3>1, <3>2, <4>1, FS_EmptySet DEF Noted, PendingType
    <3>3. CASE q # r
      <4>1. q \in Out /\ sentAfter'[q] = sentAfter[q] + 1 /\ sentAfter[q] < MaxPending
            /\ sentAfter[q] \in Nat
        BY <2>1, <2>3, <2>9, <3>1, <3>3 DEF PendingType, AsksAssumption
      <4>2. q \in tracked \cup aged /\ Cardinality(After(q)) <= sentAfter[q]
        BY <2>9, <4>1 DEF PendingInv
      <4>3. IsFiniteSet(After(q)) /\ Cardinality(After(q)) \in Nat
        BY <3>1, RequestsFinite
      <4>4. After(q)' \subseteq After(q) \cup {r}
        BY <2>5 DEF After
      <4>5. Cardinality(After(q)') <= Cardinality(After(q)) + 1
        <5>1. /\ IsFiniteSet(After(q) \cup {r})
              /\ Cardinality(After(q) \cup {r}) <= Cardinality(After(q)) + 1
          BY <4>3, OneMore
        <5>2. Cardinality(After(q)') <= Cardinality(After(q) \cup {r})
              /\ Cardinality(After(q)') \in Nat /\ Cardinality(After(q) \cup {r}) \in Nat
          BY <4>4, <5>1, FS_Subset, FS_CardinalityType
        <5> QED
          BY <4>3, <5>1, <5>2
      <4>6. Cardinality(After(q)') \in Nat
        BY <2>5, <3>1, RequestsFinite DEF After
      <4>7. q \in tracked' \cup aged'
        <5>1. CASE q \in aged
          BY <1>1, <5>1
        <5>2. CASE q \in Young
          <6>1. {p \in Young : p > q} \in SUBSET After(q)
            BY DEF Young, After
          <6>2. Cardinality({p \in Young : p > q}) <= Cardinality(After(q))
                /\ Cardinality({p \in Young : p > q}) \in Nat
            BY <4>3, <6>1, FS_Subset, FS_CardinalityType
          <6>3. Cardinality({p \in Young : p > q}) < MaxPending - 1
            BY <2>9, <4>1, <4>2, <4>3, <6>2 DEF AsksAssumption
          <6> QED
            BY <3>1, <5>2, <6>3 DEF Noted, NewestOf
        <5> QED
          BY <4>2, <5>1, <5>2 DEF Young
      <4> QED
        BY <4>1, <4>2, <4>3, <4>5, <4>6, <4>7
    <3> QED
      BY <3>2, <3>3
  <2> QED
    BY <1>1, <2>6, <2>8, <2>9 DEF PendingInv
<1> QED
  BY <1>4, <1>5

\* What a browser begins with: nothing that is out, nothing that is noted.
LEMMA ForgottenPending ==
  ASSUME AsksAssumption, PendingType, MadeInv, Forgotten, launch' # "ready"
  PROVE  PendingType' /\ MadeInv' /\ PendingInv'
<1>1. Out' = {} /\ tracked' = {} /\ aged' = {}
  BY DEF Out, Forgotten
<1>2. Cardinality({}) = 0
  BY FS_EmptySet
<1> QED
  BY <1>1, <1>2 DEF Forgotten, PendingType, MadeInv, PendingInv, AsksAssumption, RequestNos

\* A step of the session keeps the pending requests accounted for.
LEMMA PendingStep ==
  ASSUME AsksAssumption, PendingType, MadeInv, PendingInv, NetNext
  PROVE  PendingType' /\ MadeInv' /\ PendingInv'
<1>1. ASSUME InstallBrowserSafeguards \/ InstallSessionDiagnostics \/ InstallNetworkEgressBlock
      PROVE  PendingType' /\ MadeInv' /\ PendingInv'
  <2>1. /\ UNCHANGED <<ask, where, sentAfter, tracked, aged>> /\ Out = {}
    BY <1>1 DEF InstallBrowserSafeguards, InstallSessionDiagnostics, InstallNetworkEgressBlock,
       buffers, MadeInv
  <2>2. Out' = Out
    BY <2>1 DEF Out
  <2> QED
    BY <2>1, <2>2 DEF PendingType, MadeInv, PendingInv
<1>2. CASE Replaced
  BY <1>2, ForgottenPending DEF Replaced
<1>3. ASSUME ComesOfAge PROVE PendingType' /\ MadeInv' /\ PendingInv'
  <2>1. aged \subseteq aged' /\ aged' \subseteq aged \cup tracked
    BY <1>3 DEF ComesOfAge, OldestOf, Young
  <2>2. UNCHANGED <<ask, where, sentAfter, tracked, launch, watched>>
    BY <1>3 DEF ComesOfAge, layers
  <2>3. Out' = Out
    BY <2>2 DEF Out
  <2> QED
    BY <2>1, <2>2, <2>3 DEF PendingType, MadeInv, PendingInv, After
<1>4. ASSUME UNCHANGED <<ask, where, sentAfter, tracked, aged, launch, watched>>
      PROVE  PendingType' /\ MadeInv' /\ PendingInv'
  <2>1. Out' = Out
    BY <1>4 DEF Out
  <2> QED
    BY <1>4, <2>1 DEF PendingType, MadeInv, PendingInv, After
<1>5. CASE CollectFailureDiagnostics \/ Succeeds
  BY <1>4, <1>5 DEF CollectFailureDiagnostics, Succeeds, layers
<1>6. CASE \E s \in Scripts : Captures(s)
  BY <1>4, <1>6 DEF Captures, layers
<1>7. CASE \E l \in Lines : Logs(l)
  BY <1>4, <1>7 DEF Logs, layers
<1>8. ASSUME NEW r \in RequestNos, Intercepted(r)
      PROVE  PendingType' /\ MadeInv' /\ PendingInv'
  <2>1. where[r] = "paused" /\ UNCHANGED <<launch, watched>>
    BY <1>8 DEF Intercepted, layers
  <2>2. CASE Settles(r, "stopped")
    BY <2>1, <2>2, SettlesPending
  <2>3. ASSUME NEW to \in {"open", "stuck"}, where' = [where EXCEPT ![r] = to],
               UNCHANGED <<ask, sentAfter, tracked, aged>>
        PROVE  PendingType' /\ MadeInv' /\ PendingInv'
    <3>1. Out' = Out
      BY <2>1, <2>3 DEF Out, PendingType
    <3> QED
      BY <2>1, <2>3, <3>1 DEF PendingType, MadeInv, PendingInv, After, RequestNos
  <2> QED
    BY <1>8, <2>2, <2>3 DEF Intercepted
<1>9. ASSUME NEW r \in RequestNos, Completes(r)
      PROVE  PendingType' /\ MadeInv' /\ PendingInv'
  <2> DEFINE to == IF Unresolved(ask[r]) THEN "stopped"
                   ELSE IF ask[r].to = "off" THEN "left" ELSE "answered"
  <2>1. Settles(r, to) /\ to \in {"stopped", "answered", "left"} /\ where[r] = "open"
        /\ UNCHANGED <<launch, watched>>
    BY <1>9 DEF Completes, layers
  <2> HIDE DEF to
  <2> QED
    BY <2>1, SettlesPending
<1>10. ASSUME NEW r \in RequestNos, NEW k \in AskKinds, Requested(r, k)
       PROVE  PendingType' /\ MadeInv' /\ PendingInv'
  BY <1>10, RequestedPending
<1> QED
  BY <1>1, <1>2, <1>3, <1>5, <1>6, <1>7, <1>8, <1>9, <1>10 DEF NetNext

\* The rest of the session's state: the installations, the console and the report.
SessionType ==
  /\ egress \in {"resolver", "intercept", "off"}
  /\ launch \in {"fresh", "hooked", "watched", "ready"}
  /\ script \in BOOLEAN /\ intercept \in {"none", "added", "full"} /\ watched \in BOOLEAN
  /\ console \in Seq(Lines \X (Scripts \cup {NoScript})) /\ Len(console) <= MaxEntries
  /\ current \in Scripts \cup {NoScript} /\ since \in SUBSET Lines
  /\ report.story \in Scripts \cup {NoScript} /\ Cardinality(report.pending) <= MaxReported
  /\ missed \in BOOLEAN /\ breaks \in 0 .. MaxBreaks

RequestInv == PendingType /\ SessionType /\ MadeInv /\ PendingInv

\* A break is counted.
LEMMA BreakTyped ==
  ASSUME AsksAssumption, breaks \in 0 .. MaxBreaks, Break
  PROVE  breaks' \in 0 .. MaxBreaks
BY DEF AsksAssumption, Break

\* A step of the session keeps its types.
LEMMA SessionTypeStep ==
  ASSUME AsksAssumption, PendingType, SessionType, NetNext
  PROVE  SessionType'
<1> USE DEF AsksAssumption
<1>1. CASE InstallBrowserSafeguards
  BY <1>1, BreakTyped DEF InstallBrowserSafeguards, SessionType, buffers
<1>2. CASE InstallSessionDiagnostics
  BY <1>2, BreakTyped DEF InstallSessionDiagnostics, SessionType, buffers
<1>3. CASE InstallNetworkEgressBlock
  BY <1>3, BreakTyped DEF InstallNetworkEgressBlock, SessionType, buffers
<1>4. CASE Replaced
  <2>1. << >> \in Seq(Lines \X (Scripts \cup {NoScript})) /\ Len(<< >>) = 0
    OBVIOUS
  <2>2. console' \in Seq(Lines \X (Scripts \cup {NoScript})) /\ Len(console') = 0
    BY <1>4, <2>1 DEF Replaced, Forgotten
  <2>3. /\ console' \in Seq(Lines \X (Scripts \cup {NoScript})) /\ Len(console') <= MaxEntries
        /\ current' \in Scripts \cup {NoScript} /\ since' \in SUBSET Lines
    BY <1>4, <2>2 DEF Replaced, Forgotten
  <2>4. UNCHANGED <<egress, report>> /\ launch' = "fresh" /\ intercept' = "none"
        /\ script' \in BOOLEAN /\ watched' \in BOOLEAN /\ missed' \in BOOLEAN
    BY <1>4 DEF Replaced
  <2>5. breaks' \in 0 .. MaxBreaks
    BY <1>4, BreakTyped DEF Replaced, SessionType
  <2> QED
    BY <2>3, <2>4, <2>5 DEF SessionType
<1>5. CASE ComesOfAge
  BY <1>5 DEF ComesOfAge, SessionType, layers
<1>6. CASE Succeeds
  BY <1>6 DEF Succeeds, SetCurrentStory, SessionType, layers
<1>7. CASE CollectFailureDiagnostics
  <2>1. Cardinality(PendingRequests) <= MaxReported
    BY FewAtAnEnd DEF PendingRequests, PendingType
  <2> QED
    BY <1>7, <2>1 DEF CollectFailureDiagnostics, SetCurrentStory, SessionType, layers
<1>8. ASSUME NEW s \in Scripts, Captures(s) PROVE SessionType'
  <2>1. Cardinality({}) = 0
    BY FS_EmptySet
  <2> QED
    BY <1>8, <2>1 DEF Captures, SetCurrentStory, SessionType, layers, NoReport
<1>9. ASSUME NEW l \in Lines, Logs(l) PROVE SessionType'
  <2> DEFINE ring == Append(console, <<l, current>>)
             from == IF Len(ring) > MaxEntries THEN 2 ELSE 1
  <2>1. /\ ring \in Seq(Lines \X (Scripts \cup {NoScript})) /\ Len(ring) = Len(console) + 1
        /\ Len(console) \in Nat
    BY DEF SessionType
  <2>2. console' = SubSeq(ring, from, Len(ring))
    BY <1>9 DEF Logs
  <2>3. from \in {1, 2}
    OBVIOUS
  <2>4. Len(ring) <= MaxEntries => from = 1
    BY <2>1
  <2>4a. ~(Len(ring) <= MaxEntries) => from = 2
    BY <2>1
  <2> HIDE DEF ring, from
  <2>5. console' \in Seq(Lines \X (Scripts \cup {NoScript})) /\ Len(console') <= MaxEntries
    BY <2>1, <2>2, <2>3, <2>4, <2>4a DEF SessionType
  <2> QED
    BY <1>9, <2>5 DEF Logs, SessionType, layers
<1>10. ASSUME NEW r \in RequestNos, Intercepted(r) PROVE SessionType'
  BY <1>10 DEF Intercepted, SessionType, layers
<1>11. ASSUME NEW r \in RequestNos, Completes(r) PROVE SessionType'
  BY <1>11 DEF Completes, SessionType, layers
<1>12. ASSUME NEW r \in RequestNos, NEW k \in AskKinds, Requested(r, k) PROVE SessionType'
  BY <1>12 DEF Requested, SessionType, layers
<1> QED
  BY <1>1, <1>2, <1>3, <1>4, <1>5, <1>6, <1>7, <1>8, <1>9, <1>10, <1>11, <1>12 DEF NetNext

\* The accounts hold in every state the session reaches.
THEOREM RequestInvariance == ASSUME AsksAssumption PROVE NetSpec => []RequestInv
<1>1. NetInit => RequestInv
  <2> SUFFICES ASSUME NetInit PROVE RequestInv
    OBVIOUS
  <2>1. Cardinality({}) = 0
    BY FS_EmptySet
  <2>2. PendingType
    BY <2>1 DEF NetInit, PendingType, AsksAssumption
  <2>3. << >> \in Seq(Lines \X (Scripts \cup {NoScript})) /\ Len(<< >>) = 0
    OBVIOUS
  <2>4. console \in Seq(Lines \X (Scripts \cup {NoScript})) /\ Len(console) = 0
    BY <2>3 DEF NetInit
  <2>5. report.story = NoScript /\ Cardinality(report.pending) = 0
    BY <2>1 DEF NetInit, NoReport
  <2>6. SessionType
    <3>1. /\ Len(console) <= MaxEntries /\ current \in Scripts \cup {NoScript}
          /\ since \in SUBSET Lines /\ Cardinality(report.pending) <= MaxReported
      BY <2>4, <2>5 DEF NetInit, AsksAssumption
    <3>2. /\ egress \in {"resolver", "intercept", "off"} /\ launch = "fresh"
          /\ script \in BOOLEAN /\ intercept = "none" /\ watched \in BOOLEAN
          /\ missed \in BOOLEAN
      BY DEF NetInit
    <3>3. breaks \in 0 .. MaxBreaks
      BY DEF NetInit, AsksAssumption
    <3> QED
      BY <2>4, <2>5, <3>1, <3>2, <3>3 DEF SessionType
  <2>7. MadeInv /\ PendingInv
    BY DEF NetInit, MadeInv, PendingInv, Out, RequestNos
  <2> QED
    BY <2>2, <2>6, <2>7 DEF RequestInv
<1>2. RequestInv /\ [NetNext]_netVars => RequestInv'
  <2>1. CASE NetNext
    BY <2>1, PendingStep, SessionTypeStep DEF RequestInv
  <2>2. CASE UNCHANGED netVars
    BY <2>2 DEF RequestInv, PendingType, SessionType, MadeInv, PendingInv, Out, After, netVars
  <2> QED
    BY <2>1, <2>2
<1> QED
  BY <1>1, <1>2, PTL DEF NetSpec

\* Every state of the session is of its type.
THEOREM NetTypeCorrect == ASSUME AsksAssumption PROVE NetSpec => []NetTypeOK
<1>1. RequestInv => NetTypeOK
  BY DEF RequestInv, PendingType, SessionType, NetTypeOK
<1> QED
  BY <1>1, RequestInvariance, PTL

\* What hangs a story is in its report.
THEOREM PendingKnown == ASSUME AsksAssumption PROVE NetSpec => []StillKnown
<1>1. RequestInv => StillKnown
  BY DEF RequestInv, PendingInv, StillKnown
<1> QED
  BY <1>1, RequestInvariance, PTL

----------------------------------------------------------------------------
(* UploadCache: for any uploads, any archives, any limits and any number   *)
(* of failures and stops.  A chunk trusts the marker alone; so every       *)
(* marker on the disk must stand for whole files, and every step between   *)
(* the removal and the marking must keep the marker away until they are.   *)

\* A worker that is past the start of a chunk runs the chunk of an upload.
ChunkInv == phase # "idle" => chunk \in UploadIds

\* A marker stands for whole files, unless a sweep of its directory was cut short.
MarkerInv == \A u \in UploadIds : disk[u].marker => disk[u].files = "all" \/ u \in torn

\* Nothing is left of an upload that is being fetched, it has no marker while it is unpacked,
\* and the marker is written when all of it is there.
StageInv ==
  /\ phase = "fetch" => disk[chunk].files = "none" /\ ~disk[chunk].marker
  /\ phase = "unpack" => ~disk[chunk].marker
  /\ phase = "mark" => disk[chunk].files = "all"

CacheInv == CacheTypeOK /\ ChunkInv /\ MarkerInv /\ StageInv /\ ServesWhole

\* A failure or a stop keeps the count within its bound.
LEMMA DiskFaultTyped ==
  ASSUME ArchivesAssumption, diskFaults \in 0 .. MaxDiskFaults, DiskFault
  PROVE  diskFaults' \in 0 .. MaxDiskFaults
BY DEF ArchivesAssumption, DiskFault

\* The first state: nothing on the disk, and nobody to serve.
LEMMA CacheInitInv == ASSUME ArchivesAssumption, CacheInit PROVE CacheInv
BY DEF ArchivesAssumption, CacheInit, CacheInv, CacheTypeOK, ChunkInv, MarkerInv, StageInv,
       ServesWhole, Absent, NoUpload

\* A step that leaves the disk alone, and the sweeps, keeps the invariant if where it leads
\* asks no more of the chunk's directory than is known of it.
LEMMA ChunkMoves ==
  ASSUME CacheInv, UNCHANGED <<disk, torn>>,
         stored' \in SUBSET UploadIds, chunk' \in UploadIds \cup {NoUpload},
         phase' \in {"idle", "sweep", "look", "fetch", "unpack", "mark", "serve"},
         diskFaults' \in 0 .. MaxDiskFaults,
         phase' # "idle" => chunk' \in UploadIds,
         phase' = "fetch" => disk[chunk'].files = "none" /\ ~disk[chunk'].marker,
         phase' = "unpack" => ~disk[chunk'].marker,
         phase' = "mark" => disk[chunk'].files = "all",
         phase' = "serve" => disk[chunk'].files = "all" \/ chunk' \in torn
  PROVE  CacheInv'
BY DEF CacheInv, CacheTypeOK, ChunkInv, MarkerInv, StageInv, ServesWhole

\* Every step keeps the invariant.
LEMMA CacheStep == ASSUME ArchivesAssumption, CacheInv, CacheNext PROVE CacheInv'
<1> USE DEF CacheInv, CacheTypeOK, ChunkInv, MarkerInv, StageInv, ServesWhole
<1>1. ASSUME NEW u \in UploadIds, ChunkStarts(u) PROVE CacheInv'
  BY <1>1, ChunkMoves DEF ChunkStarts
<1>2. ASSUME NEW u \in UploadIds, Sweeps(u) PROVE CacheInv'
  <2>1. UNCHANGED <<stored, chunk, phase>> /\ phase = "sweep"  BY <1>2 DEF Sweeps
  <2>2. CASE disk' = [disk EXCEPT ![u] = Absent] /\ torn' = torn \ {u} /\ UNCHANGED diskFaults
    BY <2>1, <2>2 DEF Absent
  <2>3. CASE /\ DiskFault /\ torn' = torn \cup {u}
             /\ \E m \in {FALSE, disk[u].marker} :
                  disk' = [disk EXCEPT ![u] = [marker |-> m, files |-> "some", stale |-> FALSE]]
    <3>1. diskFaults' \in 0 .. MaxDiskFaults  BY <2>3, DiskFaultTyped
    <3>2. PICK m \in {FALSE, disk[u].marker} :
            disk' = [disk EXCEPT ![u] = [marker |-> m, files |-> "some", stale |-> FALSE]]
      BY <2>3
    <3>3. m \in BOOLEAN  BY <3>2
    <3> QED  BY <2>1, <2>3, <3>1, <3>2, <3>3
  <2> QED  BY <1>2, <2>2, <2>3 DEF Sweeps
<1>3. ASSUME NEW u \in UploadIds, GoesStale(u) PROVE CacheInv'
  BY <1>3, ZenonT(30) DEF GoesStale
<1>4. ASSUME NEW u \in UploadIds, TarballGoes(u) PROVE CacheInv'
  <2>1. diskFaults' \in 0 .. MaxDiskFaults  BY <1>4, DiskFaultTyped DEF TarballGoes
  <2> QED  BY <1>4, <2>1, ChunkMoves DEF TarballGoes
<1>5. CASE SweepDone
  BY <1>5, ChunkMoves DEF SweepDone
<1>6. CASE Looks
  <2>1. chunk \in UploadIds /\ phase = "look" /\ UNCHANGED <<stored, chunk, diskFaults>>
    BY <1>6 DEF Looks
  <2>2. CASE disk[chunk].marker
    <3>1. phase' = "serve" /\ disk' = [disk EXCEPT ![chunk].stale = FALSE] /\ UNCHANGED torn
      BY <1>6, <2>2 DEF Looks
    <3>2. disk[chunk].files = "all" \/ chunk \in torn  BY <2>1, <2>2
    <3>3. CacheTypeOK'  BY <2>1, <3>1
    <3>4. \A u \in UploadIds : disk'[u].marker = disk[u].marker /\ disk'[u].files = disk[u].files
      BY <3>1
    <3> QED  BY <2>1, <3>1, <3>2, <3>3, <3>4
  <2>3. CASE ~disk[chunk].marker
    <3>1. phase' = "fetch" /\ disk' = [disk EXCEPT ![chunk] = Absent] /\ torn' = torn \ {chunk}
      BY <1>6, <2>3 DEF Looks
    <3>2. CacheTypeOK'  BY <2>1, <3>1 DEF Absent
    <3>3. /\ disk'[chunk].files = "none" /\ ~disk'[chunk].marker
          /\ \A u \in UploadIds \ {chunk} : disk'[u] = disk[u]
      BY <2>1, <3>1 DEF Absent
    <3> QED  BY <2>1, <3>1, <3>2, <3>3
  <2> QED  BY <2>2, <2>3
<1>7. CASE Fetches
  BY <1>7, ChunkMoves DEF Fetches
<1>8. CASE FetchFails
  <2>1. diskFaults' \in 0 .. MaxDiskFaults  BY <1>8, DiskFaultTyped DEF FetchFails
  <2> QED  BY <1>8, <2>1, ChunkMoves DEF FetchFails, ChunkEnds
<1>9. CASE Unpacks
  <2>1. chunk \in UploadIds  BY <1>9 DEF Unpacks
  <2> QED  BY <1>9, <2>1 DEF Unpacks
<1>10. CASE Unpacked
  <2>1. chunk \in UploadIds /\ UNCHANGED <<stored, torn, diskFaults>>  BY <1>10 DEF Unpacked
  <2>2. CASE SafeExtracts(ArchiveOf[chunk])
    <3>1. phase' = "mark" /\ disk' = [disk EXCEPT ![chunk].files = "all"] /\ UNCHANGED chunk
      BY <1>10, <2>2 DEF Unpacked
    <3> QED  BY <2>1, <3>1
  <2>3. CASE ~SafeExtracts(ArchiveOf[chunk])
    <3>1. ChunkEnds /\ UNCHANGED disk  BY <1>10, <2>3 DEF Unpacked
    <3> QED  BY <2>1, <3>1, ChunkMoves DEF ChunkEnds
  <2> QED  BY <2>2, <2>3
<1>11. CASE Marks
  <2>1. chunk \in UploadIds  BY <1>11 DEF Marks
  <2> QED  BY <1>11, <2>1 DEF Marks
<1>12. CASE ChunkOver
  BY <1>12, ChunkMoves DEF ChunkOver, ChunkEnds
<1>13. CASE Stops
  <2>1. diskFaults' \in 0 .. MaxDiskFaults  BY <1>13, DiskFaultTyped DEF Stops
  <2> QED  BY <1>13, <2>1, ChunkMoves DEF Stops, ChunkEnds
<1> QED
  BY <1>1, <1>2, <1>3, <1>4, <1>5, <1>6, <1>7, <1>8, <1>9, <1>10, <1>11, <1>12, <1>13
  DEF CacheNext

\* The inductive invariant holds in every reachable state.
THEOREM CacheInvariance == ASSUME ArchivesAssumption PROVE CacheSpec => []CacheInv
<1>1. CacheInit => CacheInv  BY CacheInitInv
<1>2. CacheInv /\ [CacheNext]_cacheVars => CacheInv'
  <2>1. CASE UNCHANGED cacheVars
    BY <2>1 DEF cacheVars, CacheInv, CacheTypeOK, ChunkInv, MarkerInv, StageInv, ServesWhole
  <2> QED  BY <2>1, CacheStep
<1> QED  BY <1>1, <1>2, PTL DEF CacheSpec

\* Every variable stays of its type, whatever fails.
THEOREM CacheTypeCorrect == ASSUME ArchivesAssumption PROVE CacheSpec => []CacheTypeOK
<1>1. CacheInv => CacheTypeOK  BY DEF CacheInv
<1> QED  BY <1>1, CacheInvariance, PTL

\* A chunk renders a whole Storybook, whatever failed or stopped before: the marker a chunk
\* trusts is written last and removed first, and only a sweep cut short escapes that.
THEOREM ServedWhole == ASSUME ArchivesAssumption PROVE CacheSpec => []ServesWhole
<1>1. CacheInv => ServesWhole  BY DEF CacheInv
<1> QED  BY <1>1, CacheInvariance, PTL

----------------------------------------------------------------------------
(* Formulas: how a build is cut into chunks, for any list of stories and   *)
(* any size of a chunk.                                                    *)

\* Where the j-th story of the i-th chunk was discovered, with so many stories in a chunk.
Place(i, j, many) == (i - 1) * many + j

\* Division leaves a remainder.
LEMMA Quotient ==
  ASSUME NEW m \in Nat, NEW d \in Nat, d # 0
  PROVE  /\ m \div d \in Nat /\ m % d \in Nat /\ m % d < d
         /\ m = (m \div d) * d + (m % d)
<1>1. m % d \in 0 .. d - 1
  OBVIOUS
<1>2. m \div d \in Int
  OBVIOUS
<1>3. m \div d >= 0
  OBVIOUS
<1>4. m = (m \div d) * d + (m % d)
  OBVIOUS
<1> QED
  BY <1>1, <1>2, <1>3, <1>4

\* So many chunks are needed and no more.
LEMMA ChunkCount ==
  ASSUME NEW n \in Nat, NEW d \in Nat, d # 0, NEW c, c = (n + d - 1) \div d
  PROVE  c \in Nat /\ n <= c * d /\ c * d < n + d
<1> DEFINE r == (n + d - 1) % d
<1>1. n + d - 1 \in Nat
  OBVIOUS
<1>2. c \in Nat /\ r \in Nat /\ r < d /\ n + d - 1 = c * d + r
  BY <1>1, Quotient
<1>3. c * d \in Nat
  BY <1>2
<1> QED
  BY <1>2, <1>3

\* Places of later chunks come later.
LEMMA PlacesGrow ==
  ASSUME NEW d \in Nat, d # 0, NEW i \in Nat, NEW k \in Nat, i < k,
         NEW j \in 1 .. d, NEW l \in 1 .. d
  PROVE  Place(i, j, d) < Place(k, l, d) /\ Place(i, j, d) # Place(k, l, d)
<1>1. (i - 1) * d + d <= (k - 1) * d
  <2>1. k - 1 >= i
    OBVIOUS
  <2>2. (k - 1) * d >= i * d
    BY <2>1
  <2>3. i * d = (i - 1) * d + d
    OBVIOUS
  <2> QED
    BY <2>2, <2>3
<1>2. (i - 1) * d \in Int /\ (k - 1) * d \in Int
  OBVIOUS
<1> QED
  BY <1>1, <1>2 DEF Place

\* The bounds of a chunk, of which every one but the last is full.
LEMMA ChunkBounds ==
  ASSUME NEW d \in Nat, d # 0, NEW n \in Nat, NEW c \in Nat, n <= c * d, c * d < n + d,
         NEW i \in 1 .. c
  PROVE  /\ (i - 1) * d \in Nat /\ i * d \in Nat /\ i * d = (i - 1) * d + d
         /\ (i - 1) * d < n
         /\ i < c => i * d < n
<1>1. i \in Nat /\ i >= 1 /\ i <= c
  OBVIOUS
<1>2. (i - 1) * d \in Nat /\ i * d \in Nat
  BY <1>1
<1>3. i * d = (i - 1) * d + d
  BY <1>1
<1>4. i * d <= c * d
  BY <1>1
<1>5. c * d \in Nat
  OBVIOUS
<1>6. (i - 1) * d < n
  BY <1>2, <1>3, <1>4, <1>5
<1>7. ASSUME i < c PROVE i * d < n
  <2>1. i <= c - 1 /\ c - 1 \in Nat
    BY <1>1, <1>7
  <2>2. i * d <= (c - 1) * d
    BY <1>1, <2>1
  <2>3. (c - 1) * d = c * d - d
    OBVIOUS
  <2> QED
    BY <1>2, <1>5, <2>2, <2>3
<1> QED
  BY <1>2, <1>3, <1>6, <1>7

\* What is cut out of a sequence, up to one place and from behind another.
IsCut(t, S, s, a, b) ==
  t \in Seq(S) /\ Len(t) = b - a /\ \A j \in 1 .. b - a : t[j] = s[a + j]

\* SubSeq cuts.
LEMMA Cut ==
  ASSUME NEW S, NEW s \in Seq(S), NEW a \in Nat, NEW b \in Nat, a < b, b <= Len(s)
  PROVE  IsCut(SubSeq(s, a + 1, b), S, s, a, b)
<1>1. \A k \in a + 1 .. b : s[k] \in S
  OBVIOUS
<1>2. /\ SubSeq(s, a + 1, b) \in Seq(S)
      /\ Len(SubSeq(s, a + 1, b)) = (IF a + 1 <= b THEN b - (a + 1) + 1 ELSE 0)
      /\ \A j \in 1 .. b - (a + 1) + 1 : SubSeq(s, a + 1, b)[j] = s[(a + 1) + j - 1]
  BY <1>1, SubSeqProperties
<1>3. b - (a + 1) + 1 = b - a /\ a + 1 <= b
  OBVIOUS
<1>4. \A j \in 1 .. b - a : (a + 1) + j - 1 = a + j
  OBVIOUS
<1> QED
  BY <1>2, <1>3, <1>4 DEF IsCut

\* The i-th of c chunks of d stories: it takes its stories in order from its first place on, it is
\* full unless it is the last, and the last one ends the list.
IsChunk(storyIds, taken, i, c, d) ==
  /\ Len(taken) \in 1 .. d
  /\ i < c => Len(taken) = d
  /\ DOMAIN taken = 1 .. Len(taken)
  /\ (i - 1) * d + Len(taken) <= Len(storyIds)
  /\ i = c => (i - 1) * d + Len(taken) = Len(storyIds)
  /\ \A j \in 1 .. Len(taken) : taken[j] = storyIds[Place(i, j, d)]

\* One chunk: the stories from its first place on, as many as a chunk holds or are left.
LEMMA ChunkShape ==
  ASSUME NEW S, NEW storyIds \in Seq(S), NEW d \in Nat, d # 0, NEW c \in Nat,
         Len(storyIds) <= c * d, c * d < Len(storyIds) + d, NEW i \in 1 .. c,
         NEW chunks, chunks[i] = SubSeq(storyIds, (i - 1) * d + 1, Least(i * d, Len(storyIds)))
  PROVE  IsChunk(storyIds, chunks[i], i, c, d)
<1> DEFINE n == Len(storyIds)
           a == (i - 1) * d
           e == i * d
           b == Least(e, n)
<1>1. n \in Nat
  OBVIOUS
<1>2. a \in Nat /\ e \in Nat /\ e = a + d /\ a < n /\ (i < c => e < n)
  BY <1>1, ChunkBounds
<1>3. i = c => e >= n
  OBVIOUS
<1>4. chunks[i] = SubSeq(storyIds, a + 1, b)
  OBVIOUS
<1>5. \A j : Place(i, j, d) = a + j
  BY DEF Place
<1> HIDE DEF a, e, n
<1>6. /\ b \in Nat /\ a < b /\ b <= n /\ b <= a + d
      /\ i < c => b = a + d
      /\ i = c => b = n
  BY <1>1, <1>2, <1>3 DEF Least
<1> HIDE DEF b
<1>7. b <= Len(storyIds)
  BY <1>6 DEF n
<1>8. IsCut(SubSeq(storyIds, a + 1, b), S, storyIds, a, b)
  BY <1>2, <1>6, <1>7, Cut
<1>9. IsCut(chunks[i], S, storyIds, a, b)
  BY <1>4, <1>8
<1>10. Len(chunks[i]) = b - a /\ DOMAIN chunks[i] = 1 .. b - a
  BY <1>9 DEF IsCut
<1>11. \A j \in 1 .. b - a : chunks[i][j] = storyIds[a + j]
  BY <1>9 DEF IsCut
<1>12. b - a \in 1 .. d /\ (i < c => b - a = d) /\ a + (b - a) <= n /\ (i = c => a + (b - a) = n)
  BY <1>1, <1>2, <1>6
<1> QED
  BY <1>5, <1>10, <1>11, <1>12 DEF a, n, IsChunk

\* What planChunks makes of a list: every chunk holds between one and chunkSize stories, and all but
\* the last are full; one after the other the chunks are the list, each story at one place.  So no
\* story of a build is rendered in two chunks or in none (shard.ts, planChunks).
THEOREM PlanPartitions ==
  ASSUME NEW S, NEW storyIds \in Seq(S), NEW chunkSize \in Int,
         NEW chunks, chunks = PlanChunks(storyIds, chunkSize)
  PROVE  LET full == Most(1, chunkSize)
             places == {p \in (DOMAIN chunks) \X (1 .. full) : p[2] \in DOMAIN chunks[p[1]]}
         IN /\ \E c \in Nat : DOMAIN chunks = 1 .. c
            /\ \A i \in DOMAIN chunks : /\ Len(chunks[i]) \in 1 .. full
                                        /\ i + 1 \in DOMAIN chunks => Len(chunks[i]) = full
            /\ \A p \in places : /\ Place(p[1], p[2], full) \in DOMAIN storyIds
                                 /\ chunks[p[1]][p[2]] = storyIds[Place(p[1], p[2], full)]
            /\ \A k \in DOMAIN storyIds : \E p \in places : Place(p[1], p[2], full) = k
            /\ \A p, q \in places : Place(p[1], p[2], full) = Place(q[1], q[2], full) => p = q
<1> DEFINE full == Most(1, chunkSize)
           places == {p \in (DOMAIN chunks) \X (1 .. full) : p[2] \in DOMAIN chunks[p[1]]}
           n == Len(storyIds)
           c == (n + full - 1) \div full
<1>1. full \in Nat /\ full # 0 /\ n \in Nat /\ DOMAIN storyIds = 1 .. n
  BY DEF Most
<1>2. chunks = [i \in 1 .. c |-> SubSeq(storyIds, (i - 1) * full + 1, Least(i * full, n))]
  BY DEF PlanChunks
<1> HIDE DEF full
<1>3. c \in Nat /\ n <= c * full /\ c * full < n + full
  BY <1>1, ChunkCount
<1> HIDE DEF c
<1>4. DOMAIN chunks = 1 .. c
  BY <1>2
<1>5. ASSUME NEW i \in 1 .. c
      PROVE  /\ Len(chunks[i]) \in 1 .. full
             /\ i < c => Len(chunks[i]) = full
             /\ DOMAIN chunks[i] = 1 .. Len(chunks[i])
             /\ (i - 1) * full + Len(chunks[i]) <= n
             /\ i = c => (i - 1) * full + Len(chunks[i]) = n
             /\ \A j \in 1 .. Len(chunks[i]) : chunks[i][j] = storyIds[Place(i, j, full)]
  <2>1. chunks[i] = SubSeq(storyIds, (i - 1) * full + 1, Least(i * full, Len(storyIds)))
    BY <1>2
  <2> HIDE DEF n
  <2>2. Len(storyIds) <= c * full /\ c * full < Len(storyIds) + full
    BY <1>3 DEF n
  <2>3. IsChunk(storyIds, chunks[i], i, c, full)
    <3>1. full \in Nat
      BY <1>1
    <3>2. full # 0
      BY <1>1
    <3>3. c \in Nat
      BY <1>3
    <3>4. Len(storyIds) <= c * full
      BY <2>2
    <3>5. c * full < Len(storyIds) + full
      BY <2>2
    <3>6. storyIds \in Seq(S) /\ i \in 1 .. c
      OBVIOUS
    <3> QED
      BY <2>1, <3>1, <3>2, <3>3, <3>4, <3>5, <3>6, ChunkShape, ZenonT(60)
  <2> QED
    BY <2>3 DEF n, IsChunk
<1> HIDE DEF n
<1>6. \A i \in DOMAIN chunks : /\ Len(chunks[i]) \in 1 .. full
                               /\ i + 1 \in DOMAIN chunks => Len(chunks[i]) = full
  BY <1>3, <1>4, <1>5
<1>7. \A p \in places : /\ p[1] \in 1 .. c /\ p[2] \in 1 .. full /\ p = <<p[1], p[2]>>
                        /\ p[2] \in 1 .. Len(chunks[p[1]])
  BY <1>4, <1>5
<1>8. ASSUME NEW p \in places
      PROVE  /\ Place(p[1], p[2], full) \in DOMAIN storyIds
             /\ chunks[p[1]][p[2]] = storyIds[Place(p[1], p[2], full)]
  <2>1. p[1] \in 1 .. c /\ p[2] \in 1 .. Len(chunks[p[1]])
    BY <1>7
  <2> DEFINE before == (p[1] - 1) * full
  <2>2. before \in Nat
    BY <1>1, <1>3, <2>1, ChunkBounds
  <2>3. Place(p[1], p[2], full) = before + p[2] /\ before + Len(chunks[p[1]]) <= n
    BY <1>5, <2>1 DEF Place
  <2>4. Len(chunks[p[1]]) \in 1 .. full
    BY <1>5, <2>1
  <2> HIDE DEF before
  <2>5. Place(p[1], p[2], full) \in 1 .. n
    BY <1>1, <2>1, <2>2, <2>3, <2>4
  <2> QED
    BY <1>1, <1>5, <2>1, <2>5
<1>9. ASSUME NEW k \in DOMAIN storyIds
      PROVE  \E p \in places : Place(p[1], p[2], full) = k
  <2> DEFINE i == (k - 1) \div full + 1
             j == ((k - 1) % full) + 1
  <2>1. k \in 1 .. n /\ k - 1 \in Nat
    BY <1>1
  <2>2. /\ i - 1 \in Nat /\ i \in Nat /\ j \in Nat /\ j >= 1 /\ j <= full
        /\ k - 1 = (i - 1) * full + (j - 1)
    <3> DEFINE m == k - 1
               q == m \div full
               rest == m % full
    <3>1. q \in Nat /\ rest \in Nat /\ rest < full /\ m = q * full + rest
      BY <1>1, <2>1, Quotient
    <3>2. i = q + 1 /\ j = rest + 1
      OBVIOUS
    <3> HIDE DEF m, q, rest, i, j
    <3>3. i - 1 = q /\ j - 1 = rest
      BY <3>1, <3>2
    <3>4. m = (i - 1) * full + (j - 1)
      BY <3>1, <3>3
    <3> QED
      BY <1>1, <3>1, <3>2, <3>3, <3>4 DEF m
  <2> DEFINE before == (i - 1) * full
  <2> HIDE DEF i, j
  <2>3. before \in Nat
    BY <1>1, <2>2
  <2>4. k - 1 = before + (j - 1) /\ Place(i, j, full) = before + j
    BY <2>2 DEF Place
  <2>5. i >= 1 /\ Place(i, j, full) = k
    <3> HIDE DEF before
    <3> QED
      BY <2>1, <2>2, <2>3, <2>4
  <2>6. i <= c
    <3>1. SUFFICES ASSUME c <= i - 1 PROVE FALSE
      BY <1>3, <2>2
    <3>2. c * full <= (i - 1) * full
      BY <1>1, <1>3, <2>2, <3>1
    <3> QED
      BY <1>1, <1>3, <2>1, <2>2, <3>2
  <2>7. j \in 1 .. Len(chunks[i])
    <3>1. CASE i < c
      BY <1>5, <2>2, <2>5, <2>6, <3>1
    <3>2. CASE i = c
      <4>1. before + Len(chunks[i]) = n /\ Len(chunks[i]) \in 1 .. full
        BY <1>5, <2>2, <2>5, <2>6, <3>2
      <4> HIDE DEF before
      <4> QED
        BY <1>1, <2>1, <2>2, <2>3, <2>4, <4>1
    <3> QED
      BY <1>3, <2>2, <2>6, <3>1, <3>2
  <2>8. <<i, j>> \in places
    BY <1>4, <1>5, <2>2, <2>5, <2>6, <2>7
  <2> QED
    BY <2>5, <2>8
<1>10. ASSUME NEW p \in places, NEW q \in places,
              Place(p[1], p[2], full) = Place(q[1], q[2], full)
       PROVE  p = q
  <2>1. /\ p[1] \in Nat /\ q[1] \in Nat /\ p[2] \in 1 .. full /\ q[2] \in 1 .. full
        /\ p = <<p[1], p[2]>> /\ q = <<q[1], q[2]>>
    BY <1>7
  <2>2. ~(p[1] < q[1])
    BY <1>1, <1>10, <2>1, PlacesGrow
  <2>3. ~(q[1] < p[1])
    BY <1>1, <1>10, <2>1, PlacesGrow
  <2>4. p[1] = q[1]
    BY <2>1, <2>2, <2>3
  <2>5. p[2] = q[2]
    <3>1. (p[1] - 1) * full \in Int
      BY <1>1, <2>1
    <3> QED
      BY <1>10, <2>1, <2>4, <3>1 DEF Place
  <2> QED
    BY <2>1, <2>4, <2>5
<1> QED
  BY <1>3, <1>4, <1>6, <1>8, <1>9, <1>10 DEF full

----------------------------------------------------------------------------
(* Formulas: whose an object is, for any project, upload and story.        *)

\* Tuples put together, element by element.
LEMMA JoinOneOne ==
  ASSUME NEW x, NEW y
  PROVE  <<x>> \o <<y>> = <<x, y>>
<1> DEFINE S == {x, y}
           joined == <<x>> \o <<y>>
<1>1. <<x>> \in Seq(S) /\ <<y>> \in Seq(S) /\ <<x, y>> \in Seq(S)
  OBVIOUS
<1>2. joined \in Seq(S) /\ Len(joined) = 2
  BY <1>1
<1>3. \A i \in 1 .. 2 : joined[i] = <<x, y>>[i]
  BY <1>1
<1> QED
  BY <1>1, <1>2, <1>3, SeqEqual

\* The same of two and one.
LEMMA JoinTwoOne ==
  ASSUME NEW x, NEW y, NEW z
  PROVE  <<x, y>> \o <<z>> = <<x, y, z>>
<1> DEFINE S == {x, y, z}
           joined == <<x, y>> \o <<z>>
<1>1. <<x, y>> \in Seq(S) /\ <<z>> \in Seq(S) /\ <<x, y, z>> \in Seq(S)
  OBVIOUS
<1>2. joined \in Seq(S) /\ Len(joined) = 3
  BY <1>1
<1>3. \A i \in 1 .. 3 : joined[i] = <<x, y, z>>[i]
  BY <1>1
<1> QED
  BY <1>1, <1>2, <1>3, SeqEqual

\* The same of three and two.
LEMMA JoinThreeTwo ==
  ASSUME NEW x, NEW y, NEW z, NEW v, NEW w
  PROVE  <<x, y, z>> \o <<v, w>> = <<x, y, z, v, w>>
<1> DEFINE S == {x, y, z, v, w}
           joined == <<x, y, z>> \o <<v, w>>
<1>1. <<x, y, z>> \in Seq(S) /\ <<v, w>> \in Seq(S) /\ <<x, y, z, v, w>> \in Seq(S)
  OBVIOUS
<1>2. joined \in Seq(S) /\ Len(joined) = 5
  BY <1>1
<1>3. \A i \in 1 .. 5 : joined[i] = <<x, y, z, v, w>>[i]
  BY <1>1
<1> QED
  BY <1>1, <1>2, <1>3, SeqEqual

\* The same of five and one.
LEMMA JoinFiveOne ==
  ASSUME NEW x, NEW y, NEW z, NEW v, NEW w, NEW k
  PROVE  <<x, y, z, v, w>> \o <<k>> = <<x, y, z, v, w, k>>
<1> DEFINE S == {x, y, z, v, w, k}
           joined == <<x, y, z, v, w>> \o <<k>>
<1>1. <<x, y, z, v, w>> \in Seq(S) /\ <<k>> \in Seq(S) /\ <<x, y, z, v, w, k>> \in Seq(S)
  OBVIOUS
<1>2. joined \in Seq(S) /\ Len(joined) = 6
  BY <1>1
<1>3. \A i \in 1 .. 6 : joined[i] = <<x, y, z, v, w, k>>[i]
  BY <1>1
<1> QED
  BY <1>1, <1>2, <1>3, SeqEqual

\* The beginning of a tuple.
LEMMA FirstThree ==
  ASSUME NEW x, NEW y, NEW z, NEW v, NEW w, NEW k
  PROVE  SubSeq(<<x, y, z, v, w, k>>, 1, 3) = <<x, y, z>>
<1> DEFINE S == {x, y, z, v, w, k}
           whole == <<x, y, z, v, w, k>>
           cut == SubSeq(whole, 1, 3)
<1>1. whole \in Seq(S) /\ <<x, y, z>> \in Seq(S) /\ Len(whole) = 6 /\ Len(<<x, y, z>>) = 3
  OBVIOUS
<1>2. \A i \in 1 .. 3 : whole[i] = <<x, y, z>>[i] /\ whole[i] \in S
  OBVIOUS
<1> HIDE DEF whole, S
<1>3. /\ cut \in Seq(S) /\ Len(cut) = 3
      /\ \A i \in 1 .. 3 : cut[i] = whole[i]
  BY <1>1, <1>2, SubSeqProperties
<1>4. \A i \in 1 .. 3 : cut[i] = <<x, y, z>>[i]
  BY <1>2, <1>3
<1>5. cut = <<x, y, z>>
  <2> HIDE DEF cut
  <2> QED
    BY <1>1, <1>3, <1>4, SeqEqual
<1> QED
  BY <1>5 DEF whole

\* A longer beginning.
LEMMA FirstFive ==
  ASSUME NEW x, NEW y, NEW z, NEW v, NEW w, NEW k
  PROVE  SubSeq(<<x, y, z, v, w, k>>, 1, 5) = <<x, y, z, v, w>>
<1> DEFINE S == {x, y, z, v, w, k}
           whole == <<x, y, z, v, w, k>>
           cut == SubSeq(whole, 1, 5)
<1>1. whole \in Seq(S) /\ <<x, y, z, v, w>> \in Seq(S) /\ Len(whole) = 6 /\ Len(<<x, y, z, v, w>>) = 5
  OBVIOUS
<1>2. \A i \in 1 .. 5 : whole[i] = <<x, y, z, v, w>>[i] /\ whole[i] \in S
  OBVIOUS
<1> HIDE DEF whole, S
<1>3. /\ cut \in Seq(S) /\ Len(cut) = 5
      /\ \A i \in 1 .. 5 : cut[i] = whole[i]
  BY <1>1, <1>2, SubSeqProperties
<1>4. \A i \in 1 .. 5 : cut[i] = <<x, y, z, v, w>>[i]
  BY <1>2, <1>3
<1>5. cut = <<x, y, z, v, w>>
  <2> HIDE DEF cut
  <2> QED
    BY <1>1, <1>3, <1>4, SeqEqual
<1> QED
  BY <1>5 DEF whole

\* A key spelled out, place by place.
LEMMA KeyPlaces ==
  ASSUME NEW p, NEW u, NEW a
  PROVE  /\ ScreenshotKey(p, u, a) = <<"projects", p % 2, p, "screenshots", u, a>>
         /\ DiffImageKey(p, u, a) = <<"projects", p % 2, p, "screenshots", u, a \o <<"diff">>>>
         /\ FailureScreenshotKey(p, u, a)
              = <<"projects", p % 2, p, "screenshots", u, a \o <<"failure">>>>
         /\ ScreenshotsKeyPrefix(p, u) = <<"projects", p % 2, p, "screenshots", u>>
         /\ UploadTarballKey(p, u) = <<"projects", p % 2, p, u, ".tar.gz">>
         /\ ProjectKeyPrefix(p) = <<"projects", p % 2, p>>
<1>1. ProjectKeyPrefix(p) = <<"projects", p % 2, p>>
  <2> DEFINE hash == p % 2
  <2>1. ProjectKeyPrefix(p) = (<<"projects">> \o <<hash>>) \o <<p>>
    BY Zenon DEF ProjectKeyPrefix, ProjectHashSegment
  <2> HIDE DEF hash
  <2>2. <<"projects">> \o <<hash>> = <<"projects", hash>>
    BY JoinOneOne, Zenon
  <2>3. <<"projects", hash>> \o <<p>> = <<"projects", hash, p>>
    BY JoinTwoOne, Zenon
  <2> QED
    BY <2>1, <2>2, <2>3, Zenon DEF hash
<1>2. ScreenshotsKeyPrefix(p, u) = <<"projects", p % 2, p, "screenshots", u>>
  <2> DEFINE hash == p % 2
  <2>1. ScreenshotsKeyPrefix(p, u) = <<"projects", hash, p>> \o <<"screenshots", u>>
    BY <1>1, Zenon DEF ScreenshotsKeyPrefix
  <2> HIDE DEF hash
  <2>2. <<"projects", hash, p>> \o <<"screenshots", u>> = <<"projects", hash, p, "screenshots", u>>
    BY JoinThreeTwo, Zenon
  <2> QED
    BY <2>1, <2>2, Zenon DEF hash
<1>3. UploadTarballKey(p, u) = <<"projects", p % 2, p, u, ".tar.gz">>
  <2> DEFINE hash == p % 2
  <2>1. UploadTarballKey(p, u) = <<"projects", hash, p>> \o <<u, ".tar.gz">>
    BY <1>1, Zenon DEF UploadTarballKey
  <2> HIDE DEF hash
  <2>2. <<"projects", hash, p>> \o <<u, ".tar.gz">> = <<"projects", hash, p, u, ".tar.gz">>
    BY JoinThreeTwo, Zenon
  <2> QED
    BY <2>1, <2>2, Zenon DEF hash
<1>4. ScreenshotKey(p, u, a) = <<"projects", p % 2, p, "screenshots", u, a>>
  <2> DEFINE hash == p % 2
  <2>1. ScreenshotKey(p, u, a) = <<"projects", hash, p, "screenshots", u>> \o <<a>>
    BY <1>2, Zenon DEF ScreenshotKey
  <2> HIDE DEF hash
  <2>2. <<"projects", hash, p, "screenshots", u>> \o <<a>>
          = <<"projects", hash, p, "screenshots", u, a>>
    BY JoinFiveOne, Zenon
  <2> QED
    BY <2>1, <2>2, Zenon DEF hash
<1>5. DiffImageKey(p, u, a) = <<"projects", p % 2, p, "screenshots", u, a \o <<"diff">>>>
  <2> DEFINE name == a \o <<"diff">>
             hash == p % 2
  <2>1. DiffImageKey(p, u, a) = <<"projects", hash, p, "screenshots", u>> \o <<name>>
    BY <1>2, Zenon DEF DiffImageKey
  <2> HIDE DEF name, hash
  <2>2. <<"projects", hash, p, "screenshots", u>> \o <<name>>
          = <<"projects", hash, p, "screenshots", u, name>>
    BY JoinFiveOne, Zenon
  <2> QED
    BY <2>1, <2>2, Zenon DEF name, hash
<1>6. FailureScreenshotKey(p, u, a)
        = <<"projects", p % 2, p, "screenshots", u, a \o <<"failure">>>>
  <2> DEFINE name == a \o <<"failure">>
             hash == p % 2
  <2>1. FailureScreenshotKey(p, u, a) = <<"projects", hash, p, "screenshots", u>> \o <<name>>
    BY <1>2, Zenon DEF FailureScreenshotKey
  <2> HIDE DEF name, hash
  <2>2. <<"projects", hash, p, "screenshots", u>> \o <<name>>
          = <<"projects", hash, p, "screenshots", u, name>>
    BY JoinFiveOne, Zenon
  <2> QED
    BY <2>1, <2>2, Zenon DEF name, hash
<1> QED
  BY <1>1, <1>2, <1>3, <1>4, <1>5, <1>6

\* The three images of a story, and the story id each is named after.
ImageKey(p, u, a, kind) ==
  IF kind = "shot" THEN ScreenshotKey(p, u, a)
  ELSE IF kind = "diff" THEN DiffImageKey(p, u, a) ELSE FailureScreenshotKey(p, u, a)
NamedAfter(a, kind) == IF kind = "shot" THEN a ELSE a \o <<kind>>
ImageKinds == {"shot", "diff", "failure"}

\* Every image is where its name says.
LEMMA ImagePlaces ==
  ASSUME NEW p, NEW u, NEW a, NEW kind \in ImageKinds
  PROVE  ImageKey(p, u, a, kind)
           = <<"projects", p % 2, p, "screenshots", u, NamedAfter(a, kind)>>
<1>1. CASE kind = "shot"
  <2>1. ImageKey(p, u, a, kind) = ScreenshotKey(p, u, a)
    BY <1>1 DEF ImageKey
  <2>2. NamedAfter(a, kind) = a
    BY <1>1 DEF NamedAfter
  <2>3. ScreenshotKey(p, u, a)
          = <<"projects", p % 2, p, "screenshots", u, a>>
    BY KeyPlaces
  <2> QED
    BY <2>1, <2>2, <2>3, Zenon
<1>2. CASE kind = "diff"
  <2>1. ImageKey(p, u, a, kind) = DiffImageKey(p, u, a)
    BY <1>2 DEF ImageKey
  <2>2. NamedAfter(a, kind) = a \o <<"diff">>
    BY <1>2 DEF NamedAfter
  <2>3. DiffImageKey(p, u, a)
          = <<"projects", p % 2, p, "screenshots", u, a \o <<"diff">>>>
    BY KeyPlaces
  <2> QED
    BY <2>1, <2>2, <2>3, Zenon
<1>3. CASE kind = "failure"
  <2>1. ImageKey(p, u, a, kind) = FailureScreenshotKey(p, u, a)
    BY <1>3 DEF ImageKey
  <2>2. NamedAfter(a, kind) = a \o <<"failure">>
    BY <1>3 DEF NamedAfter
  <2>3. FailureScreenshotKey(p, u, a)
          = <<"projects", p % 2, p, "screenshots", u, a \o <<"failure">>>>
    BY KeyPlaces
  <2> QED
    BY <2>1, <2>2, <2>3, Zenon
<1> QED
  BY <1>1, <1>2, <1>3 DEF ImageKinds

\* Images of different projects or uploads never share a key; two images of one upload do exactly if
\* they are named after the same id, which two stories' images of one kind never are and a diff
\* and a failure never either: only a story called like another with "-diff" or "-failure" behind
\* it shares one.  No image has the key of a tarball, and what the prefix of a project or of an
\* upload's screenshots covers is what is kept of it (s3Keys.ts).
THEOREM ObjectsAreOwn ==
  ASSUME NEW W, {"diff", "failure"} \subseteq W, NEW p, NEW q, NEW u, NEW v,
         NEW a \in Seq(W), NEW b \in Seq(W), NEW i \in ImageKinds, NEW j \in ImageKinds
  PROVE  /\ ImageKey(p, u, a, i) = ImageKey(q, v, b, j)
              <=> p = q /\ u = v /\ NamedAfter(a, i) = NamedAfter(b, j)
         /\ i = j => (NamedAfter(a, i) = NamedAfter(b, j) <=> a = b)
         /\ NamedAfter(a, i) = NamedAfter(b, j) => i = j \/ i = "shot" \/ j = "shot"
         /\ ImageKey(p, u, a, i) # UploadTarballKey(q, v)
         /\ SubSeq(ImageKey(p, u, a, i), 1, 3) = ProjectKeyPrefix(q) <=> p = q
         /\ SubSeq(ImageKey(p, u, a, i), 1, 5) = ScreenshotsKeyPrefix(q, v) <=> p = q /\ u = v
         /\ UploadTarballKey(p, u) = ScreenshotsKeyPrefix(q, v)
              => u = "screenshots" /\ v = ".tar.gz"
<1> DEFINE key == ImageKey(p, u, a, i)
           other == ImageKey(q, v, b, j)
<1>1. /\ key = <<"projects", p % 2, p, "screenshots", u, NamedAfter(a, i)>>
      /\ other = <<"projects", q % 2, q, "screenshots", v, NamedAfter(b, j)>>
  BY ImagePlaces
<1>2. /\ UploadTarballKey(q, v) = <<"projects", q % 2, q, v, ".tar.gz">>
      /\ UploadTarballKey(p, u) = <<"projects", p % 2, p, u, ".tar.gz">>
      /\ ScreenshotsKeyPrefix(q, v) = <<"projects", q % 2, q, "screenshots", v>>
      /\ ProjectKeyPrefix(q) = <<"projects", q % 2, q>>
  BY KeyPlaces
<1>3. key = other <=> p = q /\ u = v /\ NamedAfter(a, i) = NamedAfter(b, j)
  <2> HIDE DEF key, other
  <2> QED
    BY <1>1
<1>4. i = j => (NamedAfter(a, i) = NamedAfter(b, j) <=> a = b)
  <2>1. \A x \in W : a \o <<x>> = b \o <<x>> => a = b
    BY DEF ImageKinds
  <2> QED
    BY <2>1 DEF NamedAfter, ImageKinds
<1>5. NamedAfter(a, i) = NamedAfter(b, j) => i = j \/ i = "shot" \/ j = "shot"
  <2>1. \A x, y \in W : a \o <<x>> = b \o <<y>> => x = y
    OBVIOUS
  <2> QED
    BY <2>1 DEF NamedAfter, ImageKinds
<1>6. key # UploadTarballKey(q, v)
  <2> HIDE DEF key, other
  <2> QED
    BY <1>1, <1>2
<1>7. SubSeq(key, 1, 3) = ProjectKeyPrefix(q) <=> p = q
  <2>1. SubSeq(key, 1, 3) = <<"projects", p % 2, p>>
    <3> HIDE DEF key, other
    <3> QED
      BY <1>1, FirstThree, Zenon
  <2> HIDE DEF key, other
  <2> QED
    BY <1>2, <2>1
<1>8. SubSeq(key, 1, 5) = ScreenshotsKeyPrefix(q, v) <=> p = q /\ u = v
  <2>1. SubSeq(key, 1, 5) = <<"projects", p % 2, p, "screenshots", u>>
    <3> HIDE DEF key, other
    <3> QED
      BY <1>1, FirstFive, Zenon
  <2> HIDE DEF key, other
  <2> QED
    BY <1>2, <2>1
<1>9. UploadTarballKey(p, u) = ScreenshotsKeyPrefix(q, v) => u = "screenshots" /\ v = ".tar.gz"
  BY <1>2
<1> QED
  BY <1>3, <1>4, <1>5, <1>6, <1>7, <1>8, <1>9

----------------------------------------------------------------------------
(* Formulas: which host's token answers, for any configuration.            *)

\* The entries of a list that pass a test are found in it, the first of them first, so the token of
\* a host answers for addresses of its own origin only, an address is refused exactly if no entry
\* has its origin, and the first of several entries of one origin answers (resolveGitLabHost).
THEOREM TokensAreOwn ==
  ASSUME NEW E, NEW entries \in Seq(E), NEW hosts \in ParseGitLabHosts(entries), NEW address,
         NEW found, found = ResolveGitLabHost(hosts, address)
  PROVE  /\ found = {} <=> \A i \in DOMAIN entries : entries[i].address.origin # address.origin
         /\ \A h, g \in found : h = g
         /\ \A h \in found : /\ h.token \in DOMAIN entries
                             /\ entries[h.token].address.origin = address.origin
                             /\ \A i \in DOMAIN entries :
                                  i < h.token => entries[i].address.origin # address.origin
<1> DEFINE Same == {i \in DOMAIN hosts : hosts[i].host = ToOrigin(address)}
           First == CHOOSE i \in Same : \A j \in Same : i <= j
<1>1. hosts = [i \in DOMAIN entries |-> [host |-> entries[i].address.origin, token |-> i]]
  BY DEF ParseGitLabHosts, ToOrigin
<1>2. found = IF Same = {} THEN {} ELSE {hosts[First]}
  BY DEF ResolveGitLabHost, SelectIndices
<1>3. Same = {i \in DOMAIN entries : entries[i].address.origin = address.origin}
  BY <1>1 DEF ToOrigin
<1>4. Same \subseteq Nat /\ DOMAIN entries \subseteq Nat
  BY <1>3
<1>5. ASSUME Same # {}
      PROVE  First \in Same /\ \A j \in Same : First <= j
  <2> HIDE DEF Same
  <2>1. \E i \in Same : \A j \in Same : i <= j
    BY <1>4, <1>5, HasLeast
  <2> QED
    BY <2>1
<1> HIDE DEF Same, First
<1>6. ASSUME NEW h \in found
      PROVE  /\ h.token \in DOMAIN entries
             /\ entries[h.token].address.origin = address.origin
             /\ \A i \in DOMAIN entries :
                  i < h.token => entries[i].address.origin # address.origin
  <2>1. Same # {} /\ h = hosts[First]
    BY <1>2, <1>6
  <2>2. First \in Same /\ \A j \in Same : First <= j
    BY <1>5, <2>1
  <2>3. h.token = First
    BY <1>1, <1>3, <2>1, <2>2
  <2>4. First \in DOMAIN entries /\ entries[First].address.origin = address.origin
    BY <1>3, <2>2
  <2>5. ASSUME NEW i \in DOMAIN entries, i < First, entries[i].address.origin = address.origin
        PROVE  FALSE
    <3>1. i \in Same /\ i \in Nat /\ First \in Nat
      BY <1>3, <1>4, <2>2, <2>5
    <3>2. First <= i
      BY <2>2, <3>1
    <3> QED
      BY <2>5, <3>1, <3>2
  <2> QED
    BY <2>3, <2>4, <2>5
<1>7. found = {} <=> Same = {}
  BY <1>2
<1>8. \A h, g \in found : h = g
  BY <1>2
<1> QED
  BY <1>3, <1>6, <1>7, <1>8

----------------------------------------------------------------------------
(* Formulas: what the pages of a list hold, for any finite table of builds, *)
(* any limit and any maximum of it.                                        *)

\* A strict order of a set in which any two are ordered.
Ordered(S, R) ==
  /\ \A x \in S : <<x, x>> \notin R
  /\ \A x, y, z \in S : <<x, y>> \in R /\ <<y, z>> \in R => <<x, z>> \in R
  /\ \A x, y \in S : x = y \/ <<x, y>> \in R \/ <<y, x>> \in R

\* How many are ahead of one.
Ahead(x, S, R) == {y \in S : <<y, x>> \in R}

\* In a finite set that is ordered, the numbers of those ahead are a ranking without ties or gaps.
LEMMA Ranks ==
  ASSUME NEW S, IsFiniteSet(S), NEW R, Ordered(S, R)
  PROVE  /\ Cardinality(S) \in Nat
         /\ \A x \in S : Cardinality(Ahead(x, S, R)) \in 0 .. Cardinality(S) - 1
         /\ \A x, y \in S : <<x, y>> \in R =>
              Cardinality(Ahead(x, S, R)) < Cardinality(Ahead(y, S, R))
         /\ \A x, y \in S : Cardinality(Ahead(x, S, R)) = Cardinality(Ahead(y, S, R)) => x = y
         /\ \A k \in 0 .. Cardinality(S) - 1 : \E x \in S : Cardinality(Ahead(x, S, R)) = k
<1> DEFINE rank == [x \in S |-> Cardinality(Ahead(x, S, R))]
           T == 0 .. Cardinality(S) - 1
<1>1. Cardinality(S) \in Nat
  BY FS_CardinalityType
<1>2. ASSUME NEW x \in S
      PROVE  /\ Ahead(x, S, R) \in SUBSET S /\ Ahead(x, S, R) # S /\ IsFiniteSet(Ahead(x, S, R))
             /\ Cardinality(Ahead(x, S, R)) \in Nat
             /\ Cardinality(Ahead(x, S, R)) < Cardinality(S)
  <2>1. Ahead(x, S, R) \in SUBSET S /\ Ahead(x, S, R) # S
    BY DEF Ahead, Ordered
  <2>2. /\ IsFiniteSet(Ahead(x, S, R)) /\ Cardinality(Ahead(x, S, R)) <= Cardinality(S)
        /\ Cardinality(S) = Cardinality(Ahead(x, S, R)) => S = Ahead(x, S, R)
    BY <2>1, FS_Subset
  <2>3. Cardinality(Ahead(x, S, R)) \in Nat
    BY <2>2, FS_CardinalityType
  <2> QED
    BY <1>1, <2>1, <2>2, <2>3
<1>3. ASSUME NEW x \in S, NEW y \in S, <<x, y>> \in R
      PROVE  Cardinality(Ahead(x, S, R)) < Cardinality(Ahead(y, S, R))
  <2>1. Ahead(x, S, R) \in SUBSET Ahead(y, S, R) /\ Ahead(x, S, R) # Ahead(y, S, R)
    BY <1>3 DEF Ahead, Ordered
  <2>2. IsFiniteSet(Ahead(y, S, R))
    BY <1>2
  <2>3. /\ Cardinality(Ahead(x, S, R)) <= Cardinality(Ahead(y, S, R))
        /\ Cardinality(Ahead(y, S, R)) = Cardinality(Ahead(x, S, R))
             => Ahead(y, S, R) = Ahead(x, S, R)
    BY <2>1, <2>2, FS_Subset
  <2>4. Cardinality(Ahead(x, S, R)) \in Nat /\ Cardinality(Ahead(y, S, R)) \in Nat
    BY <1>2
  <2> QED
    BY <2>1, <2>3, <2>4
<1>4. ASSUME NEW x \in S, NEW y \in S,
             Cardinality(Ahead(x, S, R)) = Cardinality(Ahead(y, S, R))
      PROVE  x = y
  <2>1. Cardinality(Ahead(x, S, R)) \in Nat
    BY <1>2
  <2>2. ~(<<x, y>> \in R)
    BY <1>3, <1>4, <2>1
  <2>3. ~(<<y, x>> \in R)
    BY <1>3, <1>4, <2>1
  <2> QED
    BY <2>2, <2>3 DEF Ordered
<1>5. \A x \in S : Cardinality(Ahead(x, S, R)) \in T
  BY <1>1, <1>2
<1>6. \A k \in T : \E x \in S : Cardinality(Ahead(x, S, R)) = k
  <2>1. rank \in Injection(S, T)
    BY <1>4, <1>5, Zenon DEF Injection, IsInjective
  <2>2. IsFiniteSet(T) /\ Cardinality(T) = Cardinality(S)
    <3> DEFINE top == Cardinality(S) - 1
    <3>1. 0 \in Int /\ top \in Int /\ T = 0 .. top
      BY <1>1
    <3>2. Cardinality(S) = top + 1 /\ ~(0 > top + 1)
      BY <1>1
    <3> HIDE DEF top, T
    <3>3. IsFiniteSet(T) /\ Cardinality(T) = IF 0 > top THEN 0 ELSE top - 0 + 1
      BY <3>1, FS_Interval
    <3>4. Cardinality(T) = top + 1
      BY <3>1, <3>2, <3>3
    <3> QED
      BY <3>2, <3>3, <3>4
  <2>3. rank \in Surjection(S, T)
    BY <2>1, <2>2, FS_Injection
  <2> QED
    BY <2>3 DEF Surjection
<1> QED
  BY <1>1, <1>3, <1>4, <1>5, <1>6

\* The rows of a table that lists builds: each has an id of its own.
BuildTable(builds) ==
  /\ IsFiniteSet(builds)
  /\ \A b \in builds : b.id \in Nat /\ b.at \in Nat
  /\ \A b, c \in builds : b.id = c.id => b = c

\* One build is listed before another.
Sooner(b, c) == b.at > c.at \/ (b.at = c.at /\ b.id > c.id)

\* The list holds every build once, in its order.
LEMMA NewestHoldsAll ==
  ASSUME NEW builds, BuildTable(builds), NEW all, all = Newest(builds)
  PROVE  /\ Cardinality(builds) \in Nat
         /\ all \in Seq(builds) /\ Len(all) = Cardinality(builds)
         /\ \A b \in builds : \E i \in DOMAIN all : all[i] = b
         /\ \A i, j \in DOMAIN all : i < j => Sooner(all[i], all[j])
<1> DEFINE R == {e \in builds \X builds : Sooner(e[1], e[2])}
           n == Cardinality(builds)
<1>1. \A b, c \in builds : <<b, c>> \in R <=> Sooner(b, c)
  OBVIOUS
<1>2. Ordered(builds, R)
  <2> HIDE DEF R
  <2>1. \A x \in builds : ~Sooner(x, x)
    BY DEF BuildTable, Sooner
  <2>2. \A x, y, z \in builds : Sooner(x, y) /\ Sooner(y, z) => Sooner(x, z)
    BY DEF BuildTable, Sooner
  <2>3. \A x, y \in builds : x = y \/ Sooner(x, y) \/ Sooner(y, x)
    BY DEF BuildTable, Sooner
  <2> QED
    BY <1>1, <2>1, <2>2, <2>3 DEF Ordered
<1>3. \A b \in builds : Ahead(b, builds, R)
                          = {c \in builds : c.at > b.at \/ (c.at = b.at /\ c.id > b.id)}
  BY DEF Ahead, Sooner
<1> HIDE DEF R
<1>4. /\ n \in Nat
      /\ \A x \in builds : Cardinality(Ahead(x, builds, R)) \in 0 .. n - 1
      /\ \A x, y \in builds : <<x, y>> \in R =>
           Cardinality(Ahead(x, builds, R)) < Cardinality(Ahead(y, builds, R))
      /\ \A x, y \in builds :
           Cardinality(Ahead(x, builds, R)) = Cardinality(Ahead(y, builds, R)) => x = y
      /\ \A k \in 0 .. n - 1 : \E x \in builds : Cardinality(Ahead(x, builds, R)) = k
  BY <1>2, Ranks DEF BuildTable
<1> HIDE DEF n
<1>5. all = [i \in 1 .. n |-> CHOOSE b \in builds : Cardinality(Ahead(b, builds, R)) = i - 1]
  <2>1. all = [i \in 1 .. n |->
                 CHOOSE b \in builds :
                   Cardinality({c \in builds : c.at > b.at \/ (c.at = b.at /\ c.id > b.id)}) = i - 1]
    BY DEF Newest, n
  <2>2. ASSUME NEW i \in 1 .. n
        PROVE  (CHOOSE b \in builds :
                  Cardinality({c \in builds : c.at > b.at \/ (c.at = b.at /\ c.id > b.id)}) = i - 1)
               = (CHOOSE b \in builds : Cardinality(Ahead(b, builds, R)) = i - 1)
    BY <1>3
  <2> QED
    BY <2>1, <2>2
<1>6. ASSUME NEW i \in 1 .. n
      PROVE  all[i] \in builds /\ Cardinality(Ahead(all[i], builds, R)) = i - 1
  <2>1. i - 1 \in 0 .. n - 1
    BY <1>4
  <2>2. \E x \in builds : Cardinality(Ahead(x, builds, R)) = i - 1
    BY <1>4, <2>1
  <2> QED
    BY <1>5, <2>2
<1>7. all \in Seq(builds) /\ Len(all) = n /\ DOMAIN all = 1 .. n
  BY <1>4, <1>5, <1>6
<1>8. ASSUME NEW b \in builds
      PROVE  \E i \in 1 .. n : all[i] = b
  <2> DEFINE k == Cardinality(Ahead(b, builds, R))
  <2>1. k \in 0 .. n - 1
    BY <1>4
  <2>2. k + 1 \in 1 .. n /\ (k + 1) - 1 = k
    BY <1>4, <2>1
  <2>3. all[k + 1] \in builds /\ Cardinality(Ahead(all[k + 1], builds, R)) = k
    BY <1>6, <2>2
  <2>4. all[k + 1] = b
    BY <1>4, <2>3
  <2> QED
    BY <2>2, <2>4
<1>9. ASSUME NEW i \in 1 .. n, NEW j \in 1 .. n, i < j
      PROVE  Sooner(all[i], all[j])
  <2>1. /\ all[i] \in builds /\ Cardinality(Ahead(all[i], builds, R)) = i - 1
        /\ all[j] \in builds /\ Cardinality(Ahead(all[j], builds, R)) = j - 1
    BY <1>6
  <2>2. i \in Nat /\ j \in Nat /\ ~(j - 1 < i - 1) /\ i - 1 # j - 1
    BY <1>9
  <2>3. <<all[j], all[i]>> \notin R
    BY <1>4, <2>1, <2>2
  <2>4. all[i] # all[j]
    BY <2>1, <2>2
  <2> QED
    BY <1>1, <1>2, <2>1, <2>3, <2>4 DEF Ordered
<1> QED
  BY <1>4, <1>7, <1>8, <1>9 DEF n

\* In a finite set that is ordered, there is one that is ahead of none.
LEMMA HasLast ==
  ASSUME NEW S, IsFiniteSet(S), S # {}, NEW R, Ordered(S, R)
  PROVE  \E x \in S : \A y \in S : <<x, y>> \notin R
<1>1. Cardinality(S) \in Nat /\ Cardinality(S) - 1 \in 0 .. Cardinality(S) - 1
  BY FS_CardinalityType, FS_EmptySet
<1>2. \A k \in 0 .. Cardinality(S) - 1 : \E x \in S : Cardinality(Ahead(x, S, R)) = k
  BY Ranks
<1>3. PICK x \in S : Cardinality(Ahead(x, S, R)) = Cardinality(S) - 1
  BY <1>1, <1>2
<1>4. \A y \in S : Cardinality(Ahead(y, S, R)) \in 0 .. Cardinality(S) - 1
  BY Ranks
<1>5. \A y \in S : <<x, y>> \in R => Cardinality(Ahead(x, S, R)) < Cardinality(Ahead(y, S, R))
  BY Ranks
<1> QED
  BY <1>1, <1>3, <1>4, <1>5

\* The newest row of every build number is listed, and no other.
LEMMA LatestIsThere ==
  ASSUME NEW builds, BuildTable(builds), NEW own \in SUBSET builds
  PROVE  /\ BuildTable(LatestOf(own)) /\ LatestOf(own) \subseteq own
         /\ \A b \in own : \E c \in LatestOf(own) :
              c.project = b.project /\ c.number = b.number /\ c.id >= b.id
         /\ \A b, c \in LatestOf(own) : b.project = c.project /\ b.number = c.number => b = c
<1> DEFINE listed == LatestOf(own)
<1>1. listed \in SUBSET own /\ listed \in SUBSET builds
  BY DEF LatestOf
<1>2. BuildTable(listed)
  BY <1>1, FS_Subset DEF BuildTable
<1>3. \A b \in own : b.id \in Nat
  BY DEF BuildTable
<1>4. ASSUME NEW b \in own
      PROVE  \E c \in listed : c.project = b.project /\ c.number = b.number /\ c.id >= b.id
  <2> DEFINE same == {c \in own : c.project = b.project /\ c.number = b.number}
             R == {e \in same \X same : e[1].id < e[2].id}
  <2>1. IsFiniteSet(same) /\ same # {}
    BY <1>1, FS_Subset DEF BuildTable
  <2>2. Ordered(same, R)
    <3>1. \A x, y \in same : <<x, y>> \in R <=> x.id < y.id
      OBVIOUS
    <3>2. \A x, y \in same : x.id \in Nat /\ (x.id = y.id => x = y)
      BY DEF BuildTable
    <3> HIDE DEF R, same
    <3> QED
      BY <3>1, <3>2 DEF Ordered
  <2>3. PICK c \in same : \A d \in same : <<c, d>> \notin R
    <3> HIDE DEF R, same
    <3> QED
      BY <2>1, <2>2, HasLast
  <2>4. \A d \in same : ~(c.id < d.id)
    BY <2>3
  <2>5. \A d \in own : /\ d.id \in Nat
                      /\ d.project = c.project /\ d.number = c.number => ~(d.id > c.id)
    BY <1>3, <2>3, <2>4
  <2>6. c \in listed
    BY <2>3, <2>5 DEF LatestOf
  <2>7. /\ b \in same /\ b.id \in Nat /\ c.id \in Nat
        /\ c.project = b.project /\ c.number = b.number
    BY <1>3, <2>3
  <2>8. c.id >= b.id
    BY <2>4, <2>7
  <2> QED
    BY <2>6, <2>7, <2>8
<1>5. ASSUME NEW b \in listed, NEW c \in listed, b.project = c.project, b.number = c.number
      PROVE  b = c
  <2>1. b \in own /\ c \in own /\ b.id \in Nat /\ c.id \in Nat
    BY <1>1, <1>3
  <2>2. ~(c.id > b.id) /\ ~(b.id > c.id)
    BY <1>3, <1>5, <2>1 DEF LatestOf
  <2>3. b.id = c.id
    BY <2>1, <2>2
  <2> QED
    BY <1>1, <2>3 DEF BuildTable
<1> QED
  BY <1>1, <1>2, <1>4, <1>5

\* The pages of a project's list, each asked for where the one before it ended.
PageAt(builds, project, limit, most, k) ==
  ListBuilds(builds, project, limit, k * Clamp(limit, most), most)

\* A page is the part of the list that begins at its offset, and says whether that is the end.
IsPage(page, all, full, k) ==
  /\ full \in Nat /\ full # 0 /\ Len(all) \in Nat /\ k * full \in Nat
  /\ Len(page.builds) \in Nat /\ DOMAIN page.builds = 1 .. Len(page.builds)
  /\ page.builds = <<>> <=> Len(page.builds) = 0
  /\ \A j \in Nat : j \in DOMAIN page.builds
                      <=> j >= 1 /\ j <= full /\ k * full + j <= Len(all)
  /\ \A j \in DOMAIN page.builds : page.builds[j] = all[k * full + j]
  /\ page.hasMore <=> k * full + full < Len(all)

\* The endpoint answers with such pages.
LEMMA PageShape ==
  ASSUME NEW builds, BuildTable(builds), NEW project, NEW limit \in Int, NEW most \in Nat, most # 0,
         NEW all, all = Newest(LatestOf({b \in builds : b.project = project})),
         NEW full, full = Clamp(limit, most), NEW k \in Nat,
         NEW page, page = PageAt(builds, project, limit, most, k)
  PROVE  IsPage(page, all, full, k)
<1> DEFINE listed == LatestOf({b \in builds : b.project = project})
           start == k * full
           fetched == SubSeq(all, Most(start, 0) + 1, Least(Len(all), Most(start, 0) + full + 1))
<1>1. BuildTable(listed)
  <2>1. {b \in builds : b.project = project} \in SUBSET builds
    OBVIOUS
  <2> QED
    BY <2>1, LatestIsThere
<1>2. all \in Seq(listed) /\ Len(all) \in Nat
  BY <1>1, NewestHoldsAll
<1>3. full \in Nat /\ full # 0
  BY DEF Clamp, Least, Most
<1>4. start \in Nat
  BY <1>3
<1>5. page.builds = SubSeq(fetched, 1, Least(Len(fetched), full))
  BY DEF PageAt, ListBuilds
<1>6. page.hasMore <=> Len(fetched) > full
  BY DEF PageAt, ListBuilds
<1> HIDE DEF start, listed
<1>7. Most(start, 0) = start
  BY <1>4 DEF Most
<1>8. CASE Len(all) <= start
  <2>1. Least(Len(all), start + full + 1) = Len(all)
    BY <1>2, <1>3, <1>4, <1>8 DEF Least
  <2>2. fetched = <<>>
    <3>1. fetched = SubSeq(all, start + 1, Len(all))
      BY <1>7, <2>1
    <3>2. start + 1 \in Int /\ Len(all) \in Int /\ Len(all) < start + 1
      BY <1>2, <1>4, <1>8
    <3>3. SubSeq(all, start + 1, Len(all)) = <<>>
      BY <3>2, SubSeqEmpty
    <3> QED
      BY <3>1, <3>3
  <2> HIDE DEF fetched
  <2>3. Len(fetched) = 0 /\ Least(Len(fetched), full) = 0
    BY <1>3, <2>2 DEF Least
  <2>4. page.builds = <<>> /\ ~page.hasMore
    <3>1. SubSeq(fetched, 1, 0) = <<>>
      BY SubSeqEmpty
    <3>2. page.builds = <<>>
      BY <1>5, <2>3, <3>1, Zenon
    <3>3. ~page.hasMore
      BY <1>3, <1>6, <2>3
    <3> QED
      BY <3>2, <3>3
  <2>5. Len(page.builds) = 0 /\ DOMAIN page.builds = 1 .. 0
    BY <2>4
  <2>6. ~(start + full < Len(all)) /\ \A j \in Nat : j >= 1 => ~(start + j <= Len(all))
    <3>1. ~(start + full < Len(all))
      BY <1>2, <1>3, <1>4, <1>8
    <3>2. \A j \in Nat : j >= 1 => ~(start + j <= Len(all))
      BY <1>2, <1>4, <1>8
    <3> QED
      BY <3>1, <3>2
  <2>7. \A j \in Nat : j \notin 1 .. 0
    OBVIOUS
  <2>8. /\ Len(page.builds) \in Nat /\ DOMAIN page.builds = 1 .. Len(page.builds)
        /\ \A j : j \notin DOMAIN page.builds
    BY <2>5
  <2> QED
    BY <1>2, <1>3, <1>4, <2>4, <2>5, <2>6, <2>8 DEF start, IsPage
<1>9. CASE start < Len(all)
  <2> DEFINE end == Least(Len(all), start + full + 1)
             many == Least(end - start, full)
  <2>1. end \in Nat /\ start < end /\ end <= Len(all)
    BY <1>2, <1>3, <1>4, <1>9 DEF Least
  <2>2. many \in Nat /\ 0 < many /\ many <= end - start /\ many <= full
    BY <1>3, <1>4, <2>1 DEF Least
  <2>3. fetched = SubSeq(all, start + 1, end)
    BY <1>7
  <2>4. ASSUME Len(fetched) = end - start
         PROVE  page.hasMore <=> start + full < Len(all)
    <3>1. end - start > full <=> start + full < Len(all)
      <4> HIDE DEF fetched
      <4> QED
        BY <1>2, <1>3, <1>4, <2>1 DEF Least
    <3> HIDE DEF end, fetched
    <3> QED
      BY <1>6, <2>4, <3>1, Zenon
  <2>5. \A j \in Nat : j \in 1 .. many <=> j >= 1 /\ j <= full /\ start + j <= Len(all)
    BY <1>2, <1>3, <1>4, <2>1, <2>2 DEF Least
  <2>6. many = Least(end - start, full)
    OBVIOUS
  <2> HIDE DEF many, end, fetched
  <2>7. IsCut(SubSeq(all, start + 1, end), listed, all, start, end)
    BY <1>2, <1>4, <2>1, Cut
  <2>8. IsCut(fetched, listed, all, start, end)
    BY <2>3, <2>7
  <2>9. /\ fetched \in Seq(listed) /\ Len(fetched) = end - start
        /\ \A j \in 1 .. end - start : fetched[j] = all[start + j]
    BY <2>8 DEF IsCut
  <2>10. many <= Len(fetched) /\ 0 \in Nat /\ 0 < many
    BY <2>2, <2>9
  <2>11. IsCut(SubSeq(fetched, 0 + 1, many), listed, fetched, 0, many)
    BY <2>2, <2>9, <2>10, Cut
  <2>12. page.builds = SubSeq(fetched, 0 + 1, many)
    BY <1>5, <2>9, <2>6
  <2>13. IsCut(page.builds, listed, fetched, 0, many)
    BY <2>11, <2>12
  <2>14. /\ page.builds \in Seq(listed) /\ Len(page.builds) = many - 0
        /\ \A j \in 1 .. many - 0 : page.builds[j] = fetched[0 + j]
    BY <2>13 DEF IsCut
  <2>15. Len(page.builds) = many /\ DOMAIN page.builds = 1 .. many
    BY <2>2, <2>14
  <2>16. page.builds = <<>> <=> Len(page.builds) = 0
    BY <2>2, <2>14
  <2>17. \A j \in 1 .. many : page.builds[j] = all[start + j]
    <3>1. \A j \in 1 .. many : j \in 1 .. end - start /\ j \in 1 .. many - 0 /\ 0 + j = j
      BY <1>4, <2>1, <2>2
    <3>2. \A j \in 1 .. many : page.builds[j] = fetched[0 + j]
      BY <2>14, <3>1, Zenon
    <3>3. \A j \in 1 .. many : fetched[j] = all[start + j]
      BY <2>9, <3>1, Zenon
    <3> QED
      BY <3>1, <3>2, <3>3, Zenon
  <2> QED
    BY <1>2, <1>3, <1>4, <2>2, <2>9, <2>15, <2>17, <2>5, <2>4, <2>16 DEF start, IsPage
<1> QED
  BY <1>2, <1>4, <1>8, <1>9

\* A project's list, page by page until one says that there are no more, holds the newest row of
\* each build number, each once and the newest first, as long as the builds stay what they are
\* (screenshotTests.ts, list).
THEOREM PagesHoldEach ==
  ASSUME NEW builds, BuildTable(builds), NEW project, NEW limit \in Int, NEW most \in Nat, most # 0,
         NEW own, own = {b \in builds : b.project = project},
         NEW pages, pages = [k \in Nat |-> PageAt(builds, project, limit, most, k)],
         NEW shown, shown = [k \in Nat |-> pages[k].builds]
  PROVE  /\ \A b \in own : \E k \in Nat : \E j \in DOMAIN shown[k] :
              shown[k][j].number = b.number /\ shown[k][j].id >= b.id
         /\ \A k \in Nat : \A j \in DOMAIN shown[k] : shown[k][j] \in own
         /\ \A k, l \in Nat : \A i \in DOMAIN shown[k], j \in DOMAIN shown[l] :
              /\ shown[k][i].number = shown[l][j].number => k = l /\ i = j
              /\ k < l \/ (k = l /\ i < j) => Sooner(shown[k][i], shown[l][j])
         /\ \A k \in Nat : pages[k].hasMore <=> shown[k + 1] # <<>>
<1> DEFINE listed == LatestOf(own)
           all == Newest(listed)
           full == Clamp(limit, most)
<1>1. own \in SUBSET builds
  OBVIOUS
<1>2. /\ BuildTable(listed) /\ listed \subseteq own
      /\ \A b \in own : \E c \in listed :
           c.project = b.project /\ c.number = b.number /\ c.id >= b.id
      /\ \A b, c \in listed : b.project = c.project /\ b.number = c.number => b = c
  BY <1>1, LatestIsThere
<1>3. /\ all \in Seq(listed) /\ \A b \in listed : \E i \in DOMAIN all : all[i] = b
      /\ \A i, j \in DOMAIN all : i < j => Sooner(all[i], all[j])
  <2> HIDE DEF listed
  <2> QED
    BY <1>2, NewestHoldsAll
<1>4. ASSUME NEW k \in Nat
      PROVE  /\ full \in Nat /\ full # 0 /\ k * full \in Nat
             /\ Len(shown[k]) \in Nat /\ DOMAIN shown[k] = 1 .. Len(shown[k])
             /\ shown[k] = <<>> <=> Len(shown[k]) = 0
             /\ \A j \in Nat : j \in DOMAIN shown[k]
                                 <=> j >= 1 /\ j <= full /\ k * full + j <= Len(all)
             /\ \A j \in DOMAIN shown[k] : shown[k][j] = all[k * full + j]
             /\ pages[k].hasMore <=> k * full + full < Len(all)
  <2> DEFINE page == PageAt(builds, project, limit, most, k)
  <2>1. all = Newest(LatestOf({b \in builds : b.project = project}))
    OBVIOUS
  <2>2. pages[k] = page /\ shown[k] = page.builds
    OBVIOUS
  <2> HIDE DEF all, listed
  <2>3. IsPage(page, all, full, k)
    BY <2>1, PageShape, ZenonT(30)
  <2> HIDE DEF page, full
  <2> QED
    BY <2>2, <2>3 DEF IsPage
<1> HIDE DEF listed, all, full
<1>5. Len(all) \in Nat /\ DOMAIN all = 1 .. Len(all) /\ \A i \in DOMAIN all : all[i] \in listed
  BY <1>3
<1>6. full \in Nat /\ full # 0
  BY <1>4
<1>7. ASSUME NEW k \in Nat, NEW j \in DOMAIN shown[k]
      PROVE  /\ j \in Nat /\ j \in 1 .. full /\ k * full \in Nat
             /\ k * full + j \in DOMAIN all /\ shown[k][j] = all[k * full + j]
             /\ shown[k][j] \in listed
  <2>1. j \in Nat /\ j >= 1 /\ j <= full /\ k * full + j <= Len(all) /\ k * full \in Nat
    <3>1. j \in 1 .. Len(shown[k]) /\ Len(shown[k]) \in Nat
      BY <1>4
    <3>2. j \in Nat
      BY <3>1
    <3> QED
      BY <1>4, <3>2
  <2>2. k * full + j \in DOMAIN all
    BY <1>5, <2>1
  <2>3. shown[k][j] = all[k * full + j]
    BY <1>4
  <2> QED
    BY <1>5, <1>6, <2>1, <2>2, <2>3
<1>8. ASSUME NEW c \in listed
      PROVE  \E k \in Nat : \E j \in DOMAIN shown[k] : shown[k][j] = c
  <2>1. PICK i \in DOMAIN all : all[i] = c
    BY <1>3
  <2>2. i - 1 \in Nat /\ i <= Len(all)
    BY <1>5
  <2> DEFINE k == (i - 1) \div full
             j == ((i - 1) % full) + 1
  <2>3. k \in Nat /\ j \in Nat /\ j - 1 \in Nat /\ j - 1 < full /\ i - 1 = k * full + (j - 1)
    <3> DEFINE m == i - 1
               rest == m % full
               over == m \div full
    <3>1. over \in Nat /\ rest \in Nat /\ rest < full /\ m = over * full + rest
      BY <1>6, <2>2, Quotient
    <3>2. k = over /\ j = rest + 1
      OBVIOUS
    <3> HIDE DEF m, rest, over, k, j
    <3>3. j - 1 = rest /\ j \in Nat
      BY <3>1, <3>2
    <3> QED
      BY <3>1, <3>2, <3>3 DEF m
  <2> HIDE DEF k, j
  <2>4. k * full \in Nat
    BY <1>4, <2>3
  <2>5. j \in Nat /\ j >= 1 /\ j <= full /\ i = k * full + j
    <3> DEFINE start == k * full
    <3>1. start \in Nat /\ i - 1 = start + (j - 1)
      BY <2>3, <2>4
    <3>2. j - 1 \in Nat /\ j - 1 < full /\ i - 1 \in Nat
      BY <2>2, <2>3
    <3>3. j \in Int /\ i \in Int
      BY <1>5, <2>1, <2>3
    <3> HIDE DEF start
    <3>4. j \in Nat /\ j >= 1 /\ j <= full /\ i = start + j
      BY <1>6, <3>1, <3>2, <3>3
    <3> QED
      BY <3>4 DEF start
  <2>6. j \in DOMAIN shown[k]
    BY <1>4, <2>2, <2>3, <2>5
  <2>7. shown[k][j] = c
    BY <1>7, <2>1, <2>3, <2>5, <2>6
  <2> QED
    BY <2>3, <2>6, <2>7
<1>9. ASSUME NEW k \in Nat, NEW l \in Nat, NEW i \in DOMAIN shown[k], NEW j \in DOMAIN shown[l],
             k < l \/ (k = l /\ i < j)
      PROVE  Sooner(shown[k][i], shown[l][j])
  <2>1. /\ i \in Nat /\ i \in 1 .. full /\ k * full + i \in DOMAIN all
        /\ shown[k][i] = all[k * full + i]
    BY <1>7
  <2>2. /\ j \in Nat /\ j \in 1 .. full /\ l * full + j \in DOMAIN all
        /\ shown[l][j] = all[l * full + j]
    BY <1>7
  <2>3. k * full + i < l * full + j
    <3>1. CASE k < l
      <4>1. k + 1 \in Nat /\ l + 1 \in Nat /\ k + 1 < l + 1
        BY <3>1
      <4>2. Place(k + 1, i, full) < Place(l + 1, j, full)
        BY <1>6, <2>1, <2>2, <4>1, PlacesGrow
      <4>3. (k + 1) - 1 = k /\ (l + 1) - 1 = l
        OBVIOUS
      <4> QED
        BY <4>2, <4>3 DEF Place
    <3>2. CASE k = l /\ i < j
      <4>1. k * full \in Nat
        BY <1>4
      <4> QED
        BY <2>1, <2>2, <3>2, <4>1
    <3> QED
      BY <1>9, <3>1, <3>2
  <2> QED
    BY <1>3, <2>1, <2>2, <2>3
<1>10. ASSUME NEW k \in Nat, NEW l \in Nat, NEW i \in DOMAIN shown[k], NEW j \in DOMAIN shown[l],
              shown[k][i].number = shown[l][j].number
       PROVE  k = l /\ i = j
  <2>1. shown[k][i] \in listed /\ shown[l][j] \in listed /\ i \in Nat /\ j \in Nat
    BY <1>7
  <2>2. shown[k][i] = shown[l][j]
    BY <1>2, <1>10, <2>1
  <2>3. \A b \in listed : ~Sooner(b, b)
    BY <1>2 DEF BuildTable, Sooner
  <2>4. ~(k < l \/ (k = l /\ i < j))
    BY <1>9, <2>1, <2>2, <2>3
  <2>5. ~(l < k \/ (l = k /\ j < i))
    BY <1>9, <2>1, <2>2, <2>3
  <2> QED
    BY <2>1, <2>4, <2>5
<1>11. ASSUME NEW k \in Nat
       PROVE  pages[k].hasMore <=> shown[k + 1] # <<>>
  <2> DEFINE start == k * full
  <2>1. k + 1 \in Nat /\ start \in Nat
    BY <1>4
  <2>2. (k + 1) * full = start + full
    BY <1>6
  <2>3. 1 \in DOMAIN shown[k + 1] <=> start + full + 1 <= Len(all)
    <3>1. \A j \in Nat : j \in DOMAIN shown[k + 1]
                           <=> j >= 1 /\ j <= full /\ (k + 1) * full + j <= Len(all)
      BY <1>4, <2>1
    <3>2. 1 \in Nat /\ 1 >= 1
      OBVIOUS
    <3>3. 1 \in DOMAIN shown[k + 1] <=> 1 <= full /\ (k + 1) * full + 1 <= Len(all)
      BY <3>1, <3>2, Zenon
    <3> QED
      BY <1>6, <2>2, <3>3
  <2>4. pages[k].hasMore <=> start + full < Len(all)
    BY <1>4
  <2> HIDE DEF start
  <2>5. start + full < Len(all) <=> start + full + 1 <= Len(all)
    BY <1>5, <1>6, <2>1
  <2>6. 1 \in DOMAIN shown[k + 1] <=> shown[k + 1] # <<>>
    <3>1. /\ Len(shown[k + 1]) \in Nat /\ DOMAIN shown[k + 1] = 1 .. Len(shown[k + 1])
          /\ shown[k + 1] = <<>> <=> Len(shown[k + 1]) = 0
      BY <1>4, <2>1
    <3> QED
      BY <3>1
  <2> QED
    BY <2>3, <2>4, <2>5, <2>6
<1>12. \A b \in own : \E k \in Nat : \E j \in DOMAIN shown[k] :
         shown[k][j].number = b.number /\ shown[k][j].id >= b.id
  BY <1>2, <1>8
<1>13. \A k \in Nat : \A j \in DOMAIN shown[k] : shown[k][j] \in own
  BY <1>2, <1>7
<1>14. \A k, l \in Nat : \A i \in DOMAIN shown[k], j \in DOMAIN shown[l] :
          /\ shown[k][i].number = shown[l][j].number => k = l /\ i = j
          /\ k < l \/ (k = l /\ i < j) => Sooner(shown[k][i], shown[l][j])
  <2>1. ASSUME NEW k \in Nat, NEW l \in Nat,
               NEW i \in DOMAIN shown[k], NEW j \in DOMAIN shown[l]
        PROVE  /\ shown[k][i].number = shown[l][j].number => k = l /\ i = j
               /\ k < l \/ (k = l /\ i < j) => Sooner(shown[k][i], shown[l][j])
    <3>1. ASSUME shown[k][i].number = shown[l][j].number PROVE k = l /\ i = j
      BY <1>10, <3>1
    <3>2. ASSUME k < l \/ (k = l /\ i < j) PROVE Sooner(shown[k][i], shown[l][j])
      BY <1>9, <3>2
    <3> QED
      BY <3>1, <3>2
  <2> QED
    BY <2>1, Zenon
<1>15. \A k \in Nat : pages[k].hasMore <=> shown[k + 1] # <<>>
  BY <1>11
<1> QED
  BY <1>12, <1>13, <1>14, <1>15, Zenon

=============================================================================
