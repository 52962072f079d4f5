------------------------------- MODULE ApiProofs -------------------------------
(***************************************************************************)
(* Proofs about what requests to the API leave behind.  An upload          *)
(* (Uploads): for any number of uploads and of projects, any number of     *)
(* attempts at a build number and any faults.  A verdict on a build        *)
(* (BuildReview): for any number of requests, any number of attempts at    *)
(* the build's task and any number of statements, posts and workers that   *)
(* fail.                                                                   *)
(***************************************************************************)
EXTENDS Uploads, BuildReview, FiniteSetTheorems, WellFoundedInduction, TLAPS

----------------------------------------------------------------------------
(***************************************************************************)
(* Uploads, and its inductive invariant.  PendingIsOwned and               *)
(* TaskIsServable relate what one upload has written to the step it is at; *)
(* the parts below say which of it can be there at each step, and what a   *)
(* project's deletion, with its cascade, its late purge and its accidental *)
(* return, does to it.                                                     *)
(***************************************************************************)

\* The steps before the row is there, and those after which its task may be.
Before  == {"idle", "token", "find", "owner", "insert", "refetch", "store", "number", "write",
            "refused"}
RowSettled == {"row", "object", "done", "failed", "gone"}
\* The steps that need a project, and those that need the tarball.
Placed  == {"token", "store", "number", "write"} \cup Inserted
Stored  == {"number", "write", "post", "save", "enqueue"}

\* Row and task come in this order and go together; an upload that ends in failure has
\* deleted its row, or something kept it from that.
RowInv(r) ==
  /\ at[r] \in Before => build[r] = 0
  /\ task[r] # "none" => build[r] # 0 /\ at[r] \in RowSettled
  /\ at[r] \in {"object", "failed"} /\ r \notin scarred => build[r] = 0

\* An upload writes to a project that was there, and has no row once it is gone.
PlaceInv(r) ==
  /\ at[r] \in Placed \/ build[r] # 0 => target[r] # 0
  /\ target[r] # 0 => /\ project[target[r]] # "none"
                      /\ project[target[r]] = "gone" => build[r] = 0

\* The tarball is there from its step on, unless its project has been deleted; the id of the
\* status is noted before the task is queued.
TarballInv(r) ==
  /\ at[r] \in Stored => r \in tarballs \/ project[target[r]] \in {"gone", "revived"}
  /\ at[r] = "enqueue" => (r \in checks => r \in noted)

OwnedInv(r) == r \notin scarred /\ build[r] # 0 => task[r] # "none" \/ at[r] \in Inserted
ServedInv(r) ==
  r \notin scarred /\ task[r] # "none" /\ project[target[r]] # "revived" =>
    build[r] # 0 /\ r \in tarballs /\ (r \in checks => r \in noted)

Sound(r) == RowInv(r) /\ PlaceInv(r) /\ TarballInv(r) /\ OwnedInv(r) /\ ServedInv(r)

\* What is being deleted was a project, and the objects go after the rows.
DeletionInv ==
  /\ removal # 0 => project[removal] # "none"
  /\ \A p \in closing : project[p] # "none"
  /\ \A p \in purging : project[p] \in {"gone", "revived"}

\* Each attempt that failed on a number let another row by; a number that was free when it was
\* read is taken only by one more.
TryInv ==
  \A r \in Requests :
    /\ at[r] \in Before => passed[r] >= tries[r] - 1
    /\ at[r] = "write" => number[r] > 0 /\ (Taken(r) => passed[r] >= tries[r])

\* No number is higher than the uploads that are past the insertion of their row, that of a row
\* which may be inserted again included.
Past == {r \in Requests : at[r] \notin Before}
Counted == {"post", "save"}
NumberInv ==
  \A r \in Requests : /\ build[r] <= Cardinality(Past)
                      /\ at[r] = "write" => number[r] <= Cardinality(Past) + 1
                      /\ at[r] \in Counted => number[r] <= Cardinality(Past)

UploadInv == /\ UploadTypeOK /\ (\A r \in Requests : Sound(r))
        /\ DeletionInv /\ TryInv /\ NumberInv /\ GivesUpLast

----------------------------------------------------------------------------
(* The greatest of some numbers, and the type of what a step assigns.      *)

\* The natural numbers have no infinite descent.
LEMMA NaturalOrder == IsWellFoundedOn({ss \in Nat \X Nat : ss[1] < ss[2]}, Nat)
BY NatLessThanWellFounded DEF OpToRel

\* A set of numbers that has a bound, and a number, has a greatest one.
LEMMA MaxOf ==
  ASSUME NEW N \in Nat, NEW S, S \subseteq 0 .. N, S # {}
  PROVE  Max(S) \in S /\ \A y \in S : Max(S) >= y
<1> DEFINE T == {n \in Nat : \E x \in S : n = N - x}
           R == {ss \in Nat \X Nat : ss[1] < ss[2]}
<1>1. IsWellFoundedOn(R, Nat)  BY NaturalOrder
<1>2. T \subseteq Nat /\ T # {}
  <2>1. PICK x \in S : TRUE  OBVIOUS
  <2>2. N - x \in Nat  BY <2>1
  <2> QED  BY <2>1, <2>2
<1>3. \E n \in T : \A m \in T : <<m, n>> \notin R
  <2> HIDE DEF T, R
  <2> QED  BY <1>1, <1>2, WFMin
<1>4. PICK n \in T : \A m \in T : ~(m < n)  BY <1>2, <1>3
<1>5. PICK x \in S : n = N - x  BY <1>4
<1>6. \A y \in S : x >= y
  <2>1. TAKE y \in S
  <2>2. N - y \in T  OBVIOUS
  <2>3. ~(N - y < n)  BY <1>4, <2>2
  <2> QED  BY <1>5, <2>3
<1> QED  BY <1>5, <1>6 DEF Max

\* The steps an upload may be at.
UploadSteps == {"idle", "token", "find", "owner", "insert", "refetch", "store", "number", "write",
          "object"} \cup Inserted \cup Ended

\* An upload goes to its next step, and the others stay at theirs.
LEMMA AtTyped ==
  ASSUME UploadTypeOK, NEW r \in Requests, NEW to \in UploadSteps, Moves(r, to)
  PROVE  /\ at' \in [Requests -> UploadSteps] /\ at'[r] = to
         /\ \A q \in Requests \ {r} : at'[q] = at[q]
BY DEF UploadTypeOK, UploadSteps, Moves

\* It may take a project with it.
LEMMA UsesTyped ==
  ASSUME UploadTypeOK, NEW r \in Requests, NEW p \in Ids, NEW to \in UploadSteps, Uses(r, p, to)
  PROVE  /\ at' \in [Requests -> UploadSteps] /\ at'[r] = to
         /\ target' \in [Requests -> Ids \cup {0}] /\ target'[r] = p
         /\ \A q \in Requests \ {r} : at'[q] = at[q] /\ target'[q] = target[q]
BY DEF UploadTypeOK, UploadSteps, Moves, Uses

\* A fault keeps the count within the bound of the behaviour.
LEMMA FaultTyped ==
  ASSUME UploadAssumption, UploadTypeOK, Fault
  PROVE  faults' \in 0 .. scenario.faults
<1>1. scenario.faults \in Nat  BY DEF UploadAssumption, UploadTypeOK
<1> QED  BY <1>1 DEF Fault, UploadTypeOK

\* How many uploads there are is a number, and so is how many are past their row.
LEMMA PastCounted ==
  ASSUME UploadAssumption
  PROVE  /\ Cardinality(Requests) \in Nat /\ IsFiniteSet(Past) /\ Cardinality(Past) \in Nat
         /\ Cardinality(Past) <= Cardinality(Requests)
<1>1. IsFiniteSet(Requests)  BY DEF UploadAssumption
<1>2. Past \subseteq Requests  BY DEF Past
<1> QED  BY <1>1, <1>2, FS_Subset, FS_CardinalityType

\* More uploads past their row are counted higher.
LEMMA PastGrows ==
  ASSUME UploadAssumption,
         \A q \in Requests : at'[q] \in Before => at[q] \in Before
  PROVE  /\ Cardinality(Past) \in Nat /\ Cardinality(Past') \in Nat
         /\ Cardinality(Past) <= Cardinality(Past')
<1>1. IsFiniteSet(Requests)  BY DEF UploadAssumption
<1>2. Past \subseteq Past' /\ Past' \subseteq Requests  BY DEF Past
<1>3. IsFiniteSet(Past')  BY <1>1, <1>2, FS_Subset
<1> QED  BY <1>2, <1>3, FS_Subset, FS_CardinalityType

----------------------------------------------------------------------------
(* What a step leaves alone.                                               *)

\* A project that has been created is as it was.
ProjectsStay == \A p \in Ids : project[p] # "none" => project'[p] = project[p]

\* Nothing of an upload is touched.
Stays(q) ==
  /\ at'[q] = at[q] /\ target'[q] = target[q] /\ build'[q] = build[q] /\ task'[q] = task[q]
  /\ q \in tarballs' <=> q \in tarballs
  /\ q \in checks' <=> q \in checks
  /\ q \in noted' <=> q \in noted
  /\ q \in scarred' <=> q \in scarred

\* What nobody touches stays sound.
LEMMA SoundStays ==
  ASSUME UploadTypeOK, NEW q \in Requests, Sound(q), Stays(q), ProjectsStay
  PROVE  Sound(q)'
<1>1. target[q] # 0 => project'[target[q]] = project[target[q]]
  BY DEF UploadTypeOK, Sound, PlaceInv, ProjectsStay
<1>2. RowInv(q)'  BY DEF Sound, RowInv, Stays
<1>3. PlaceInv(q)'  BY <1>1 DEF Sound, PlaceInv, Stays
<1>4. TarballInv(q)'
  BY <1>1 DEF Sound, TarballInv, PlaceInv, Stays, Stored, Placed, Inserted
<1>5. OwnedInv(q)'  BY DEF Sound, OwnedInv, Stays
<1>6. ServedInv(q)'  BY <1>1 DEF Sound, ServedInv, RowInv, PlaceInv, Stays
<1> QED  BY <1>2, <1>3, <1>4, <1>5, <1>6 DEF Sound

\* A step that reads no number and writes no row keeps the attempts and the numbers as they are:
\* rows only go, and a project is taken by an upload that has none.
LEMMA NumbersStay ==
  ASSUME UploadAssumption, UploadTypeOK, UploadTypeOK', TryInv, NumberInv, GivesUpLast,
         UNCHANGED <<number, tries, passed, gaveUp>>,
         \A q \in Requests : /\ build'[q] = 0 \/ build'[q] = build[q]
                             /\ target'[q] = target[q] \/ build'[q] = 0
                             /\ at'[q] \in Before => at[q] \in Before
                             /\ at'[q] = "write" => at[q] = "write" /\ target'[q] = target[q]
                             /\ at'[q] \in Counted => at[q] \in Counted
  PROVE  TryInv' /\ NumberInv' /\ GivesUpLast'
<1>1. ASSUME NEW r \in Requests, at'[r] = "write", Taken(r)' PROVE Taken(r)
  <2>1. number[r] > 0 /\ number'[r] = number[r] /\ target'[r] = target[r]
    BY <1>1 DEF TryInv
  <2>2. PICK q \in Requests : target'[q] = target'[r] /\ number'[r] = build'[q]
    BY <1>1 DEF Taken, Numbers
  <2>3. number[r] = build[q] /\ target[q] = target[r]  BY <2>1, <2>2
  <2> QED  BY <2>3 DEF Taken, Numbers
<1>2. TryInv'  BY <1>1 DEF TryInv
<1>3. NumberInv'
  <2> SUFFICES ASSUME NEW r \in Requests
               PROVE  /\ build'[r] <= Cardinality(Past')
                      /\ at'[r] = "write" => number'[r] <= Cardinality(Past') + 1
                      /\ at'[r] \in Counted => number'[r] <= Cardinality(Past')
    BY DEF NumberInv
  <2>1. /\ build[r] \in Nat /\ number[r] \in Nat /\ number'[r] = number[r]
        /\ build'[r] = 0 \/ build'[r] = build[r]
    BY DEF UploadTypeOK
  <2>2. /\ build[r] <= Cardinality(Past)
        /\ at'[r] = "write" => number[r] <= Cardinality(Past) + 1
        /\ at'[r] \in Counted => number[r] <= Cardinality(Past)
    BY DEF NumberInv
  <2> QED  BY <2>1, <2>2, PastGrows
<1>4. GivesUpLast'  BY DEF GivesUpLast
<1> QED  BY <1>2, <1>3, <1>4

\* A step of one upload, that reads no number and writes no row, keeps the invariant if it leaves
\* its own upload sound.
LEMMA UploadMoves ==
  ASSUME UploadAssumption, UploadInv, UploadTypeOK', NEW r \in Requests, Sound(r)',
         \A q \in Requests \ {r} : Stays(q),
         ProjectsStay, UNCHANGED <<number, tries, passed, gaveUp, removal, closing, purging>>,
         build'[r] = 0 \/ build'[r] = build[r],
         target'[r] = target[r] \/ build'[r] = 0,
         at'[r] \in Before => at[r] \in Before,
         at'[r] # "write", at'[r] \in Counted => at[r] \in Counted
  PROVE  UploadInv'
<1>1. \A q \in Requests : Sound(q)'
  <2>1. TAKE q \in Requests
  <2>2. CASE q = r  BY <2>2
  <2>3. CASE q # r  BY <2>3, SoundStays DEF UploadInv
  <2> QED  BY <2>2, <2>3
<1>2. DeletionInv'
  BY DEF UploadInv, DeletionInv, ProjectsStay, UploadTypeOK
<1>3. TryInv' /\ NumberInv' /\ GivesUpLast'
  BY NumbersStay DEF UploadInv, Stays
<1> QED  BY <1>1, <1>2, <1>3 DEF UploadInv

\* A step of nobody's upload, that leaves every upload sound, keeps the invariant too.
LEMMA ProjectMoves ==
  ASSUME UploadAssumption, UploadInv, UploadTypeOK', \A q \in Requests : Sound(q)', DeletionInv',
         UNCHANGED <<target, number, tries, passed, gaveUp>>,
         \A q \in Requests : /\ build'[q] = 0 \/ build'[q] = build[q]
                             /\ at'[q] = at[q] \/ at'[q] = "gone"
  PROVE  UploadInv'
<1>1. TryInv' /\ NumberInv' /\ GivesUpLast'
  BY NumbersStay DEF UploadInv, Before, Counted
<1> QED  BY <1>1 DEF UploadInv

----------------------------------------------------------------------------
(* The first state.                                                        *)

\* Nobody has begun, and there is a project.
LEMMA UploadInitInv == ASSUME UploadAssumption, UploadInit PROVE UploadInv
<1>1. /\ Cardinality(Requests) \in Nat /\ Cardinality(Past) \in Nat
      /\ 1 \in 1 .. MaxTries /\ 0 \in 0 .. Cardinality(Requests)
  BY PastCounted DEF UploadAssumption
<1>2. scenario \in Scenarios /\ 0 \in 0 .. scenario.faults
  BY DEF UploadInit, UploadAssumption
<1>3. /\ at \in [Requests -> UploadSteps] /\ target \in [Requests -> Ids \cup {0}]
      /\ carried \in [Requests -> Nat] /\ passed \in [Requests -> Nat]
  BY DEF UploadInit, UploadSteps
<1>4. /\ number \in [Requests -> 0 .. Cardinality(Requests)]
      /\ build \in [Requests -> 0 .. Cardinality(Requests)]
      /\ tries \in [Requests -> 1 .. MaxTries]
      /\ task \in [Requests -> {"none", "queued", "taken"}]
  BY <1>1 DEF UploadInit
<1>5. project \in [Ids -> {"none", "live", "gone", "revived"}] /\ secret \in [Ids -> Nat]
  BY DEF UploadInit
<1>6. UploadTypeOK  BY <1>2, <1>3, <1>4, <1>5 DEF UploadInit, UploadTypeOK, UploadSteps
<1>7. \A r \in Requests : Sound(r)
  BY DEF UploadInit, Sound, RowInv, PlaceInv, TarballInv, OwnedInv, ServedInv, Placed, Stored,
         Inserted
<1>8. DeletionInv  BY DEF UploadInit, DeletionInv
<1>9. TryInv  BY DEF UploadInit, TryInv
<1>10. NumberInv  BY <1>1 DEF UploadInit, NumberInv, Counted
<1>11. GivesUpLast  BY DEF UploadInit, GivesUpLast
<1> QED  BY <1>6, <1>7, <1>8, <1>9, <1>10, <1>11 DEF UploadInv

----------------------------------------------------------------------------
(* The steps of an upload up to its tarball.                               *)

\* What the steps below leave alone.
Unwritten ==
  /\ UNCHANGED <<scenario, provider, account, secret, build, task, noted>>
  /\ UNCHANGED <<number, tries, passed, gaveUp>>
  /\ UNCHANGED <<removal, resetting, closing, purging, tarballs, checks, scarred, faults>>

\* Before anything is written a step only says where the upload is and which project it is for.
LEMMA EarlyMoves ==
  ASSUME UploadAssumption, UploadInv, NEW r \in Requests, at[r] \in Before, Unwritten,
         at' \in [Requests -> UploadSteps], target' \in [Requests -> Ids \cup {0}],
         \A q \in Requests \ {r} : at'[q] = at[q] /\ target'[q] = target[q],
         at'[r] \in {"token", "find", "owner", "insert", "refetch", "store", "refused", "failed"},
         target'[r] # 0 => project'[target'[r]] # "none",
         at'[r] \in {"token", "store"} => target'[r] # 0,
         carried' \in [Requests -> Nat],
         project' \in [Ids -> {"none", "live", "gone", "revived"}], ProjectsStay
  PROVE  UploadInv'
<1>1. UploadTypeOK'  BY DEF UploadInv, UploadTypeOK, Unwritten, UploadSteps
<1>2. build[r] = 0 /\ task[r] = "none" /\ build'[r] = 0 /\ task'[r] = "none"
  BY DEF UploadInv, Sound, RowInv, Unwritten
<1>3. Sound(r)'
  <2>1. RowInv(r)'  BY <1>2 DEF RowInv
  <2>2. PlaceInv(r)'  BY <1>2 DEF PlaceInv, Placed, Inserted
  <2>3. TarballInv(r)'  BY DEF TarballInv, Stored
  <2>4. OwnedInv(r)' /\ ServedInv(r)'  BY <1>2 DEF OwnedInv, ServedInv
  <2> QED  BY <2>1, <2>2, <2>3, <2>4 DEF Sound
<1>4. \A q \in Requests \ {r} : Stays(q)  BY DEF Stays, Unwritten
<1>5. UNCHANGED <<number, tries, passed, gaveUp, removal, closing, purging>>  BY DEF Unwritten
<1>6. at'[r] \notin Counted  BY DEF Counted
<1> QED  BY <1>1, <1>2, <1>3, <1>4, <1>5, <1>6, UploadMoves

\* A project that is there, in the sense of Live, is one that has been created.
LEMMA LiveIs == Live \subseteq Ids /\ \A p \in Live : project[p] # "none" /\ project[p] # "gone"
BY DEF Live

\* An upload comes, with a token or with an ID token.
LEMMA ReceivesInv ==
  ASSUME UploadAssumption, UploadInv, NEW r \in Requests, Receives(r)
  PROVE  UploadInv'
<1>1. at[r] = "idle" /\ at[r] \in Before /\ Unwritten /\ UNCHANGED project
  BY DEF Receives, rowVars, adminVars, numbering, fixed, Unwritten, Before
<1>2. ProjectsStay /\ project' \in [Ids -> {"none", "live", "gone", "revived"}]
  BY <1>1 DEF ProjectsStay, UploadInv, UploadTypeOK
<1>3. CASE \E p \in Ids : /\ project[p] # "none" /\ Uses(r, p, "token")
                          /\ \E k \in 0 .. secret[p] : carried' = [carried EXCEPT ![r] = k]
  <2>1. PICK p \in Ids : /\ project[p] # "none" /\ Uses(r, p, "token")
                         /\ \E k \in 0 .. secret[p] : carried' = [carried EXCEPT ![r] = k]
    BY <1>3
  <2>2. secret[p] \in Nat  BY DEF UploadInv, UploadTypeOK
  <2>3. carried' \in [Requests -> Nat]  BY <2>1, <2>2 DEF UploadInv, UploadTypeOK
  <2>4. p # 0  BY DEF Ids
  <2>5. "token" \in UploadSteps  BY DEF UploadSteps
  <2>6. /\ at' \in [Requests -> UploadSteps] /\ at'[r] = "token"
        /\ target' \in [Requests -> Ids \cup {0}] /\ target'[r] = p
        /\ \A q \in Requests \ {r} : at'[q] = at[q] /\ target'[q] = target[q]
    BY <2>1, <2>5, UsesTyped DEF UploadInv
  <2> QED  BY <1>1, <1>2, <2>1, <2>3, <2>4, <2>6, EarlyMoves
<1>4. CASE Moves(r, "find") /\ UNCHANGED <<target, carried>>
  <2>1. "find" \in UploadSteps  BY DEF UploadSteps
  <2>2. /\ at' \in [Requests -> UploadSteps] /\ at'[r] = "find"
        /\ \A q \in Requests \ {r} : at'[q] = at[q]
    BY <1>4, <2>1, AtTyped DEF UploadInv
  <2>3. target'[r] # 0 => project'[target'[r]] # "none"
    BY <1>1, <1>4 DEF UploadInv, Sound, PlaceInv
  <2>4. target' \in [Requests -> Ids \cup {0}] /\ carried' \in [Requests -> Nat]
    BY <1>4 DEF UploadInv, UploadTypeOK
  <2> QED  BY <1>1, <1>2, <1>4, <2>2, <2>3, <2>4, EarlyMoves
<1> QED  BY <1>3, <1>4 DEF Receives

\* A step before anything is written that goes on with the project it has.
LEMMA EarlyGoes ==
  ASSUME UploadAssumption, UploadInv, NEW r \in Requests, at[r] \in Before, Unwritten,
         NEW to \in {"token", "find", "owner", "insert", "refetch", "store", "refused", "failed"},
         Moves(r, to), to \in {"token", "store"} => target[r] # 0,
         UNCHANGED <<target, carried>>,
         project' \in [Ids -> {"none", "live", "gone", "revived"}], ProjectsStay
  PROVE  UploadInv'
<1>1. to \in UploadSteps  BY DEF UploadSteps, Ended
<1>2. /\ at' \in [Requests -> UploadSteps] /\ at'[r] = to
      /\ \A q \in Requests \ {r} : at'[q] = at[q]
  BY <1>1, AtTyped DEF UploadInv
<1>3. target'[r] # 0 => project'[target'[r]] # "none"
  BY DEF UploadInv, Sound, PlaceInv, ProjectsStay, UploadTypeOK
<1>4. target' \in [Requests -> Ids \cup {0}] /\ carried' \in [Requests -> Nat]
  BY DEF UploadInv, UploadTypeOK
<1> QED  BY <1>2, <1>3, <1>4, EarlyMoves

\* A step before anything is written that takes a project it has found.
LEMMA EarlyUses ==
  ASSUME UploadAssumption, UploadInv, NEW r \in Requests, at[r] \in Before, Unwritten,
         NEW p \in Live, Uses(r, p, "store"), UNCHANGED <<carried, project>>
  PROVE  UploadInv'
<1>1. "store" \in UploadSteps /\ p \in Ids /\ p # 0  BY LiveIs DEF UploadSteps, Ids
<1>2. /\ at' \in [Requests -> UploadSteps] /\ at'[r] = "store"
      /\ target' \in [Requests -> Ids \cup {0}] /\ target'[r] = p
      /\ \A q \in Requests \ {r} : at'[q] = at[q] /\ target'[q] = target[q]
  BY <1>1, UsesTyped DEF UploadInv
<1>3. /\ carried' \in [Requests -> Nat] /\ ProjectsStay
      /\ project' \in [Ids -> {"none", "live", "gone", "revived"}]
  BY DEF UploadInv, UploadTypeOK, ProjectsStay
<1>4. project'[p] # "none"  BY LiveIs
<1> QED  BY <1>1, <1>2, <1>3, <1>4, EarlyMoves

\* The refusals, the credential, and the project that is found or made for it.
LEMMA ResolvesInv ==
  ASSUME UploadAssumption, UploadInv, NEW r \in Requests,
         \/ Refuses(r) \/ GetProjectByToken(r) \/ FindsProject(r) \/ FindsOwner(r)
         \/ InsertsProject(r) \/ RefetchesProject(r)
  PROVE  UploadInv'
<1>1. project \in [Ids -> {"none", "live", "gone", "revived"}]  BY DEF UploadInv, UploadTypeOK
<1>2. ASSUME UNCHANGED project
      PROVE  ProjectsStay /\ project' \in [Ids -> {"none", "live", "gone", "revived"}]
  BY <1>1, <1>2 DEF ProjectsStay
<1> USE DEF rowVars, adminVars, numbering, fixed, Unwritten, Before
<1>3. CASE Refuses(r)
  <2>1. at[r] \in Before /\ Unwritten /\ UNCHANGED <<project, target, carried>>
        /\ Moves(r, "refused")
    BY <1>3 DEF Refuses
  <2> QED  BY <1>2, <2>1, EarlyGoes
<1>4. CASE GetProjectByToken(r)
  <2>1. at[r] = "token" /\ Unwritten /\ UNCHANGED <<project, target, carried>>
    BY <1>4 DEF GetProjectByToken
  <2>2. target[r] # 0  BY <2>1 DEF UploadInv, Sound, PlaceInv, Placed
  <2>3. Moves(r, "store") \/ Moves(r, "refused")  BY <1>4 DEF GetProjectByToken
  <2> QED  BY <1>2, <2>1, <2>2, <2>3, EarlyGoes
<1>5. CASE FindsProject(r)
  <2>1. at[r] = "find" /\ Unwritten /\ UNCHANGED <<project, carried>>
    BY <1>5 DEF FindsProject
  <2>2. (\E p \in Live : Uses(r, p, "store")) \/ (Moves(r, "owner") /\ UNCHANGED target)
    BY <1>5 DEF FindsProject
  <2> QED  BY <1>2, <2>1, <2>2, EarlyGoes, EarlyUses
<1>6. CASE FindsOwner(r)
  <2>1. at[r] = "owner" /\ Unwritten /\ UNCHANGED <<project, target, carried>>
        /\ (Moves(r, "insert") \/ Moves(r, "refused"))
    BY <1>6 DEF FindsOwner
  <2> QED  BY <1>2, <2>1, EarlyGoes
<1>7. CASE InsertsProject(r)
  <2>1. at[r] = "insert" /\ Unwritten /\ UNCHANGED <<target, carried>>
    BY <1>7 DEF InsertsProject
  <2>2. Moves(r, "failed") \/ Moves(r, "refetch")  BY <1>7 DEF InsertsProject
  <2>3. ProjectsStay /\ project' \in [Ids -> {"none", "live", "gone", "revived"}]
    <3>1. CASE UNCHANGED project  BY <1>2, <3>1
    <3>2. ASSUME NEW p \in Ids, Fresh(p), project' = [project EXCEPT ![p] = "live"]
          PROVE  ProjectsStay /\ project' \in [Ids -> {"none", "live", "gone", "revived"}]
      BY <1>1, <3>2 DEF Fresh, ProjectsStay
    <3> QED  BY <1>7, <3>1, <3>2 DEF InsertsProject
  <2> QED  BY <2>1, <2>2, <2>3, EarlyGoes
<1>8. CASE RefetchesProject(r)
  <2>1. at[r] = "refetch" /\ Unwritten /\ UNCHANGED <<project, carried>>
    BY <1>8 DEF RefetchesProject
  <2>2. (\E p \in Live : Uses(r, p, "store")) \/ (Moves(r, "failed") /\ UNCHANGED target)
    BY <1>8 DEF RefetchesProject
  <2> QED  BY <1>2, <2>1, <2>2, EarlyGoes, EarlyUses
<1> QED  BY <1>3, <1>4, <1>5, <1>6, <1>7, <1>8

\* The tarball is stored before a number is asked for.
LEMMA StoresInv ==
  ASSUME UploadAssumption, UploadInv, NEW r \in Requests, Stores(r)
  PROVE  UploadInv'
<1>1. /\ at[r] = "store"
      /\ UNCHANGED <<scenario, provider, account, project, secret, build, task, noted>>
      /\ UNCHANGED <<target, carried, number, tries, passed, gaveUp>>
      /\ UNCHANGED <<removal, resetting, closing, purging, checks, scarred>>
  BY DEF Stores, rowVars, adminVars, numbering, fixed
<1>2. PICK to \in {"number", "failed"} : Moves(r, to) /\ (to = "number" => r \in tarballs')
  BY DEF Stores
<1>3. tarballs' = tarballs \cup {r} \/ tarballs' = tarballs  BY DEF Stores
<1>4. faults' \in 0 .. scenario.faults  BY FaultTyped DEF Stores, UploadInv, UploadTypeOK
<1>5. /\ at' \in [Requests -> UploadSteps] /\ at'[r] = to
      /\ \A q \in Requests \ {r} : at'[q] = at[q]
  <2>1. to \in UploadSteps  BY DEF UploadSteps, Ended
  <2> QED  BY <1>2, <2>1, AtTyped DEF UploadInv
<1>6. UploadTypeOK'  BY <1>1, <1>3, <1>4, <1>5 DEF UploadInv, UploadTypeOK, UploadSteps
<1>7. build[r] = 0 /\ task[r] = "none" /\ target[r] # 0
  BY <1>1 DEF UploadInv, Sound, RowInv, PlaceInv, Placed, Before
<1>8. Sound(r)'
  <2>1. RowInv(r)' /\ OwnedInv(r)' /\ ServedInv(r)'
    BY <1>1, <1>7 DEF RowInv, OwnedInv, ServedInv
  <2>2. PlaceInv(r)'  BY <1>1, <1>7 DEF UploadInv, Sound, PlaceInv
  <2>3. TarballInv(r)'  BY <1>2, <1>5 DEF TarballInv, Stored
  <2> QED  BY <2>1, <2>2, <2>3 DEF Sound
<1>9. \A q \in Requests \ {r} : Stays(q)  BY <1>1, <1>3, <1>5 DEF Stays
<1>10. ProjectsStay  BY <1>1 DEF ProjectsStay
<1>11. at[r] \in Before /\ at'[r] \notin Counted \cup {"write"}
  BY <1>1, <1>5 DEF Before, Counted
<1> QED  BY <1>1, <1>6, <1>8, <1>9, <1>10, <1>11, UploadMoves

----------------------------------------------------------------------------
(* The number and the row.                                                 *)

\* The number read is free, and no higher than the uploads past their row, and one.
LEMMA NumberRead ==
  ASSUME UploadAssumption, UploadTypeOK, NumberInv, NEW p
  PROVE  LET n == Max(Numbers(p) \cup {0}) + 1 IN
         /\ n \in 1 .. Cardinality(Past) + 1
         /\ n \notin Numbers(p)
<1> DEFINE S == Numbers(p) \cup {0}
<1>1. Cardinality(Past) \in Nat  BY PastCounted
<1>2. S \subseteq 0 .. Cardinality(Past)
  <2>1. SUFFICES ASSUME NEW q \in Requests PROVE build[q] \in 0 .. Cardinality(Past)
    BY <1>1 DEF Numbers
  <2>2. build[q] \in Nat /\ build[q] <= Cardinality(Past)  BY DEF UploadTypeOK, NumberInv
  <2> QED  BY <1>1, <2>2
<1>3. S # {}  OBVIOUS
<1>4. Max(S) \in S /\ \A y \in S : Max(S) >= y
  <2> HIDE DEF S
  <2> QED  BY <1>1, <1>2, <1>3, MaxOf
<1>5. Max(S) \in 0 .. Cardinality(Past)  BY <1>2, <1>4
<1> HIDE DEF S
<1>6. Max(S) + 1 \in 1 .. Cardinality(Past) + 1  BY <1>1, <1>5
<1>7. Max(S) + 1 \notin S  BY <1>4, <1>5
<1> QED  BY <1>6, <1>7 DEF S

\* An upload that is not past its row leaves room for its number.
LEMMA RoomForOne ==
  ASSUME UploadAssumption, NEW r \in Requests, at[r] \in Before
  PROVE  Cardinality(Past) + 1 <= Cardinality(Requests)
<1>1. IsFiniteSet(Requests)  BY DEF UploadAssumption
<1>2. Past \subseteq Requests \ {r}  BY DEF Past
<1>3. IsFiniteSet(Requests \ {r}) /\ Cardinality(Requests \ {r}) = Cardinality(Requests) - 1
  BY <1>1, FS_RemoveElement
<1>4. Cardinality(Past) <= Cardinality(Requests \ {r})  BY <1>2, <1>3, FS_Subset
<1> QED  BY <1>3, <1>4, PastCounted, <1>1, FS_CardinalityType

\* The next number is computed from the rows that are there.
LEMMA ReadsMaxInv ==
  ASSUME UploadAssumption, UploadInv, NEW r \in Requests, ReadsMax(r)
  PROVE  UploadInv'
<1>1. /\ at[r] = "number" /\ Moves(r, "write")
      /\ number' = [number EXCEPT ![r] = Max(Numbers(target[r]) \cup {0}) + 1]
      /\ UNCHANGED <<scenario, provider, account, project, secret, build, task, noted>>
      /\ UNCHANGED <<target, carried, tries, passed, gaveUp, faults>>
      /\ UNCHANGED <<removal, resetting, closing, purging, tarballs, checks, scarred>>
  BY DEF ReadsMax, rowVars, adminVars, numbering, fixed
<1>2. /\ at' \in [Requests -> UploadSteps] /\ at'[r] = "write"
      /\ \A q \in Requests \ {r} : at'[q] = at[q]
  <2>1. "write" \in UploadSteps  BY DEF UploadSteps
  <2> QED  BY <1>1, <2>1, AtTyped DEF UploadInv
<1> DEFINE n == Max(Numbers(target[r]) \cup {0}) + 1
<1>3. n \in 1 .. Cardinality(Past) + 1 /\ n \notin Numbers(target[r])
  BY NumberRead DEF UploadInv
<1>4. number' = [number EXCEPT ![r] = n]  BY <1>1
<1> HIDE DEF n
<1>5. Cardinality(Past) \in Nat /\ Cardinality(Requests) \in Nat
      /\ Cardinality(Past) + 1 <= Cardinality(Requests)
  BY <1>1, RoomForOne, PastCounted DEF Before
<1>6. number' \in [Requests -> 0 .. Cardinality(Requests)]
  BY <1>3, <1>4, <1>5 DEF UploadInv, UploadTypeOK
<1>7. number'[r] = n /\ \A q \in Requests \ {r} : number'[q] = number[q]
  BY <1>4 DEF UploadInv, UploadTypeOK
<1>8. UploadTypeOK'  BY <1>1, <1>2, <1>6 DEF UploadInv, UploadTypeOK, UploadSteps
<1>9. build[r] = 0 /\ task[r] = "none"
  BY <1>1 DEF UploadInv, Sound, RowInv, Before
<1>10. Sound(r)'
  <2>1. RowInv(r)' /\ OwnedInv(r)' /\ ServedInv(r)'
    BY <1>1, <1>9 DEF RowInv, OwnedInv, ServedInv
  <2>2. PlaceInv(r)' /\ TarballInv(r)'
    BY <1>1, <1>2 DEF UploadInv, Sound, PlaceInv, TarballInv, Stored, Placed
  <2> QED  BY <2>1, <2>2 DEF Sound
<1>11. \A q \in Requests : Sound(q)'
  <2>1. ASSUME NEW q \in Requests, q # r PROVE Sound(q)'
    <3>1. Stays(q) /\ ProjectsStay  BY <1>1, <1>2, <2>1 DEF Stays, ProjectsStay
    <3> QED  BY <3>1, SoundStays DEF UploadInv
  <2> QED  BY <1>10, <2>1
<1>12. DeletionInv'  BY <1>1 DEF UploadInv, DeletionInv
<1>13. TryInv'
  <2> SUFFICES ASSUME NEW q \in Requests
               PROVE  /\ at'[q] \in Before => passed'[q] >= tries'[q] - 1
                      /\ at'[q] = "write" => /\ number'[q] > 0
                                             /\ (Taken(q)' => passed'[q] >= tries'[q])
    BY DEF TryInv
  <2>1. at'[q] \in Before => passed'[q] >= tries'[q] - 1
    BY <1>1, <1>2 DEF UploadInv, TryInv, Before
  <2>2. CASE q = r
    <3>1. ~Taken(q)'  BY <1>1, <1>3, <1>7, <2>2 DEF Taken, Numbers
    <3> QED  BY <1>3, <1>7, <2>1, <2>2, <3>1
  <2>3. CASE q # r
    <3>1. number'[q] = number[q] /\ Taken(q)' = Taken(q)
      BY <1>1, <1>7, <2>3 DEF Taken, Numbers
    <3> QED  BY <1>1, <1>2, <2>1, <2>3, <3>1 DEF UploadInv, TryInv
  <2> QED  BY <2>2, <2>3
<1>14. NumberInv'
  <2>1. Past' = Past  BY <1>1, <1>2 DEF Past, Before
  <2> SUFFICES ASSUME NEW q \in Requests
               PROVE  /\ build'[q] <= Cardinality(Past)
                      /\ at'[q] = "write" => number'[q] <= Cardinality(Past) + 1
                      /\ at'[q] \in Counted => number'[q] <= Cardinality(Past)
    BY <2>1 DEF NumberInv
  <2> QED  BY <1>1, <1>2, <1>3, <1>5, <1>7 DEF UploadInv, NumberInv, Counted
<1>15. GivesUpLast'  BY <1>1 DEF UploadInv, GivesUpLast
<1> QED  BY <1>8, <1>11, <1>12, <1>13, <1>14, <1>15 DEF UploadInv

\* A number that is taken: the upload gives up or reads again.
LEMMA ConflictsInv ==
  ASSUME UploadAssumption, UploadInv, NEW r \in Requests, at[r] = "write", Taken(r), Conflicts(r),
         UNCHANGED <<scenario, provider, account, project, secret, build, task, noted>>,
         UNCHANGED <<target, carried, number, passed, faults>>,
         UNCHANGED <<removal, resetting, closing, purging, tarballs, checks, scarred>>
  PROVE  UploadInv'
<1>1. /\ tries[r] \in 1 .. MaxTries /\ MaxTries \in Nat \ {0} /\ passed[r] \in Nat
      /\ passed[r] >= tries[r]
  BY DEF UploadInv, UploadTypeOK, UploadAssumption, TryInv
<1>2. \/ Moves(r, "failed") /\ gaveUp' = gaveUp \cup {r} /\ passed[r] >= MaxTries /\ tries' = tries
      \/ Moves(r, "number") /\ tries' = [tries EXCEPT ![r] = @ + 1] /\ tries[r] + 1 <= MaxTries
         /\ gaveUp' = gaveUp
  BY <1>1 DEF Conflicts, GivesUp, Recomputes
<1>3. PICK to \in {"failed", "number"} : Moves(r, to)  BY <1>2
<1>4. /\ at' \in [Requests -> UploadSteps] /\ at'[r] = to
      /\ \A q \in Requests \ {r} : at'[q] = at[q]
  <2>1. to \in UploadSteps  BY DEF UploadSteps, Ended
  <2> QED  BY <1>3, <2>1, AtTyped DEF UploadInv
<1>5. /\ tries' \in [Requests -> 1 .. MaxTries] /\ gaveUp' \in SUBSET Requests
      /\ \A q \in Requests \ {r} : tries'[q] = tries[q]
      /\ tries'[r] = tries[r] \/ tries'[r] = tries[r] + 1
  BY <1>1, <1>2 DEF UploadInv, UploadTypeOK
<1>6. UploadTypeOK'  BY <1>4, <1>5 DEF UploadInv, UploadTypeOK, UploadSteps
<1>7. build[r] = 0 /\ task[r] = "none" /\ target[r] # 0
  BY DEF UploadInv, Sound, RowInv, PlaceInv, Placed, Before
<1>8. Sound(r)'
  <2>1. RowInv(r)' /\ OwnedInv(r)' /\ ServedInv(r)'  BY <1>7 DEF RowInv, OwnedInv, ServedInv
  <2>2. PlaceInv(r)'  BY <1>7 DEF UploadInv, Sound, PlaceInv
  <2>3. TarballInv(r)'  BY <1>4 DEF UploadInv, Sound, TarballInv, Stored
  <2> QED  BY <2>1, <2>2, <2>3 DEF Sound
<1>9. \A q \in Requests : Sound(q)'
  <2>1. ASSUME NEW q \in Requests, q # r PROVE Sound(q)'
    <3>1. Stays(q) /\ ProjectsStay  BY <1>4, <2>1 DEF Stays, ProjectsStay
    <3> QED  BY <3>1, SoundStays DEF UploadInv
  <2> QED  BY <1>8, <2>1
<1>10. DeletionInv'  BY DEF UploadInv, DeletionInv
<1>11. TryInv'
  <2> SUFFICES ASSUME NEW q \in Requests
               PROVE  /\ at'[q] \in Before => passed'[q] >= tries'[q] - 1
                      /\ at'[q] = "write" => /\ number'[q] > 0
                                             /\ (Taken(q)' => passed'[q] >= tries'[q])
    BY DEF TryInv
  <2>1. CASE q = r  BY <1>1, <1>4, <1>5, <2>1
  <2>2. CASE q # r
    <3>1. Taken(q)' = Taken(q)  BY DEF Taken, Numbers
    <3> QED  BY <1>4, <1>5, <2>2, <3>1 DEF UploadInv, TryInv
  <2> QED  BY <2>1, <2>2
<1>12. NumberInv'
  <2>1. Cardinality(Past) \in Nat /\ Cardinality(Past') \in Nat
        /\ Cardinality(Past) <= Cardinality(Past')
    <3>1. \A q \in Requests : at'[q] \in Before => at[q] \in Before  BY <1>4 DEF Before
    <3> QED  BY <3>1, PastGrows
  <2> SUFFICES ASSUME NEW q \in Requests
               PROVE  /\ build'[q] <= Cardinality(Past')
                      /\ at'[q] = "write" => number'[q] <= Cardinality(Past') + 1
                      /\ at'[q] \in Counted => number'[q] <= Cardinality(Past')
    BY DEF NumberInv
  <2>2. /\ build[q] \in Nat /\ number[q] \in Nat /\ build[q] <= Cardinality(Past)
        /\ at[q] = "write" => number[q] <= Cardinality(Past) + 1
        /\ at[q] \in Counted => number[q] <= Cardinality(Past)
    BY DEF UploadInv, UploadTypeOK, NumberInv
  <2>3. /\ at'[q] = "write" => at[q] = "write"
        /\ at'[q] \in Counted => at[q] \in Counted
    BY <1>4 DEF Counted
  <2> QED  BY <2>1, <2>2, <2>3
<1>13. GivesUpLast'  BY <1>1, <1>2 DEF UploadInv, GivesUpLast
<1> QED  BY <1>6, <1>9, <1>10, <1>11, <1>12, <1>13 DEF UploadInv

\* A row is written, for the first time or again: every upload of the project that is looking
\* for a number lets one by.
LEMMA RowIsCounted ==
  ASSUME UploadAssumption, UploadInv, NEW r \in Requests, at[r] \in {"write", "save"},
         WritesRow(r), at'[r] \notin Before, \A q \in Requests \ {r} : at'[q] = at[q],
         UNCHANGED <<target, number, tries, gaveUp>>
  PROVE  /\ build' \in [Requests -> 0 .. Cardinality(Requests)] /\ build'[r] = number[r]
         /\ \A q \in Requests \ {r} : build'[q] = build[q]
         /\ passed' \in [Requests -> Nat] /\ TryInv' /\ NumberInv' /\ GivesUpLast'
<1>1. /\ build' \in [Requests -> 0 .. Cardinality(Requests)] /\ build'[r] = number[r]
      /\ \A q \in Requests \ {r} : build'[q] = build[q]
  BY DEF WritesRow, UploadInv, UploadTypeOK
<1>2. /\ passed' \in [Requests -> Nat]
      /\ \A q \in Requests : /\ passed'[q] \in Nat /\ passed[q] \in Nat
                             /\ passed'[q] >= passed[q]
                             /\ Looking(q, r) => passed'[q] = passed[q] + 1
  <2>1. passed \in [Requests -> Nat]  BY DEF UploadInv, UploadTypeOK
  <2>2. \A q \in Requests : passed'[q] = passed[q] + IF Looking(q, r) THEN 1 ELSE 0
    BY DEF WritesRow
  <2>3. DOMAIN passed' = Requests /\ passed' = [q \in Requests |-> passed'[q]]
    BY DEF WritesRow
  <2> QED  BY <2>1, <2>2, <2>3
<1>3. TryInv'
  <2> SUFFICES ASSUME NEW q \in Requests
               PROVE  /\ at'[q] \in Before => passed'[q] >= tries'[q] - 1
                      /\ at'[q] = "write" => /\ number'[q] > 0
                                             /\ (Taken(q)' => passed'[q] >= tries'[q])
    BY DEF TryInv
  <2>1. /\ tries[q] \in Nat
        /\ at[q] \in Before => passed[q] >= tries[q] - 1
        /\ at[q] = "write" => number[q] > 0 /\ (Taken(q) => passed[q] >= tries[q])
    BY DEF UploadInv, UploadTypeOK, TryInv, UploadAssumption
  <2>2. at'[q] \in Before => q # r /\ at[q] \in Before  OBVIOUS
  <2>3. at'[q] = "write" => q # r /\ at[q] = "write"  BY DEF Before
  <2> DEFINE new == passed'[q]
             old == passed[q]
             n == tries[q]
  <2>6. new \in Nat /\ old \in Nat /\ n \in Nat /\ new >= old /\ tries'[q] = n
        /\ (Looking(q, r) => new = old + 1)
    BY <1>2, <2>1
  <2>7. at[q] \in Before => old >= n - 1  BY <2>1
  <2>8. at[q] = "write" => (Taken(q) => old >= n)  BY <2>1
  <2> HIDE DEF new, old, n
  <2>4. at'[q] \in Before => new >= n - 1  BY <2>2, <2>6, <2>7
  <2>5. ASSUME at'[q] = "write", Taken(q)' PROVE new >= n
    <3>1. PICK x \in Requests : target[x] = target[q] /\ number[q] = build'[x]
      BY <2>5 DEF Taken, Numbers
    <3>2. CASE x = r
      <4>1. Looking(q, r)  BY <2>3, <2>5, <3>1, <3>2 DEF Looking
      <4> QED  BY <2>3, <2>5, <2>6, <2>7, <4>1 DEF Before
    <3>3. CASE x # r
      <4>1. Taken(q)  BY <1>1, <3>1, <3>3 DEF Taken, Numbers
      <4> QED  BY <2>3, <2>5, <2>6, <2>8, <4>1
    <3> QED  BY <3>2, <3>3
  <2> QED  BY <2>1, <2>3, <2>4, <2>5, <2>6 DEF new, n
<1>4. NumberInv'
  <2>1. IsFiniteSet(Past) /\ Cardinality(Past) \in Nat  BY PastCounted
  <2>2. /\ Cardinality(Past') \in Nat /\ Cardinality(Past) <= Cardinality(Past')
        /\ number[r] \in Nat /\ number[r] <= Cardinality(Past')
    <3>1. CASE at[r] = "write"
      <4>1. Past' = Past \cup {r} /\ r \notin Past  BY <3>1 DEF Past, Before
      <4>2. Cardinality(Past') = Cardinality(Past) + 1  BY <2>1, <4>1, FS_AddElement
      <4> QED  BY <2>1, <3>1, <4>2 DEF UploadInv, UploadTypeOK, NumberInv
    <3>2. CASE at[r] = "save"
      <4>1. Past' = Past  BY <3>2 DEF Past, Before
      <4> QED  BY <2>1, <3>2, <4>1 DEF UploadInv, UploadTypeOK, NumberInv, Counted
    <3> QED  BY <3>1, <3>2
  <2> SUFFICES ASSUME NEW q \in Requests
               PROVE  /\ build'[q] <= Cardinality(Past')
                      /\ at'[q] = "write" => number'[q] <= Cardinality(Past') + 1
                      /\ at'[q] \in Counted => number'[q] <= Cardinality(Past')
    BY DEF NumberInv
  <2>3. /\ build[q] \in Nat /\ number[q] \in Nat /\ build[q] <= Cardinality(Past)
        /\ at[q] = "write" => number[q] <= Cardinality(Past) + 1
        /\ at[q] \in Counted => number[q] <= Cardinality(Past)
    BY DEF UploadInv, UploadTypeOK, NumberInv
  <2>4. at'[q] = "write" => q # r  BY DEF Before
  <2> QED  BY <1>1, <2>1, <2>2, <2>3, <2>4
<1>5. GivesUpLast'
  <2> SUFFICES ASSUME NEW q \in gaveUp PROVE passed'[q] >= MaxTries
    BY DEF GivesUpLast
  <2>1. q \in Requests /\ passed[q] >= MaxTries /\ MaxTries \in Nat
    BY DEF UploadInv, UploadTypeOK, GivesUpLast, UploadAssumption
  <2> QED  BY <1>2, <2>1
<1> QED  BY <1>1, <1>2, <1>3, <1>4, <1>5

\* The row is written.
LEMMA WritesRowInv ==
  ASSUME UploadAssumption, UploadInv, NEW r \in Requests, at[r] = "write", target[r] \in Live,
         WritesRow(r), NEW to \in {"post", "failed"}, Moves(r, to),
         to = "failed" => scarred' = scarred \cup {r}, to = "post" => scarred' = scarred,
         faults' \in 0 .. scenario.faults,
         UNCHANGED <<scenario, provider, account, project, secret, task, noted>>,
         UNCHANGED <<target, carried, number, tries, gaveUp>>,
         UNCHANGED <<removal, resetting, closing, purging, tarballs, checks>>
  PROVE  UploadInv'
<1>1. /\ at' \in [Requests -> UploadSteps] /\ at'[r] = to
      /\ \A q \in Requests \ {r} : at'[q] = at[q]
  <2>1. to \in UploadSteps  BY DEF UploadSteps, Ended, Inserted
  <2> QED  BY <2>1, AtTyped DEF UploadInv
<1>2. /\ build' \in [Requests -> 0 .. Cardinality(Requests)] /\ build'[r] = number[r]
      /\ \A q \in Requests \ {r} : build'[q] = build[q]
      /\ passed' \in [Requests -> Nat] /\ TryInv' /\ NumberInv' /\ GivesUpLast'
  <2>1. at'[r] \notin Before  BY <1>1 DEF Before
  <2> QED  BY <1>1, <2>1, RowIsCounted
<1>3. scarred' \in SUBSET Requests /\ \A q \in Requests \ {r} : q \in scarred' <=> q \in scarred
  BY DEF UploadInv, UploadTypeOK
<1>4. UploadTypeOK'  BY <1>1, <1>2, <1>3 DEF UploadInv, UploadTypeOK, UploadSteps
<1>5. task[r] = "none" /\ target[r] # 0 /\ target[r] \in Ids
      /\ project[target[r]] \notin {"none", "gone"}
  BY DEF UploadInv, Sound, RowInv, Before, Live, Ids
<1>6. Sound(r)'
  <2>1. RowInv(r)' /\ OwnedInv(r)' /\ ServedInv(r)'
    BY <1>1, <1>5 DEF RowInv, OwnedInv, ServedInv, Before, Inserted
  <2>2. PlaceInv(r)'  BY <1>5 DEF PlaceInv
  <2>3. TarballInv(r)'  BY <1>1 DEF UploadInv, Sound, TarballInv, Stored
  <2> QED  BY <2>1, <2>2, <2>3 DEF Sound
<1>7. \A q \in Requests : Sound(q)'
  <2>1. ASSUME NEW q \in Requests, q # r PROVE Sound(q)'
    <3>1. Stays(q) /\ ProjectsStay  BY <1>1, <1>2, <1>3, <2>1 DEF Stays, ProjectsStay
    <3> QED  BY <3>1, SoundStays DEF UploadInv
  <2> QED  BY <1>6, <2>1
<1>8. DeletionInv'  BY DEF UploadInv, DeletionInv
<1> QED  BY <1>2, <1>4, <1>7, <1>8 DEF UploadInv

\* The insert, in all the ways it ends.
LEMMA CreateScreenshotTestInv ==
  ASSUME UploadAssumption, UploadInv, NEW r \in Requests, CreateScreenshotTest(r)
  PROVE  UploadInv'
<1>1. /\ at[r] = "write"
      /\ UNCHANGED <<scenario, provider, account, project, secret, task, noted>>
      /\ UNCHANGED <<target, carried, number>>
      /\ UNCHANGED <<removal, resetting, closing, purging, tarballs, checks>>
  BY DEF CreateScreenshotTest, adminVars, fixed
<1>2. ASSUME Moves(r, "failed"), UNCHANGED <<tries, gaveUp, passed, build>>,
             scarred' = scarred \/ scarred' = scarred \cup {r},
             faults' \in 0 .. scenario.faults
      PROVE  UploadInv'
  <2>1. /\ at' \in [Requests -> UploadSteps] /\ at'[r] = "failed"
        /\ \A q \in Requests \ {r} : at'[q] = at[q]
    <3>1. "failed" \in UploadSteps  BY DEF UploadSteps, Ended
    <3> QED  BY <1>2, <3>1, AtTyped DEF UploadInv
  <2>2. scarred' \in SUBSET Requests /\ \A q \in Requests \ {r} : q \in scarred' <=> q \in scarred
    BY <1>2 DEF UploadInv, UploadTypeOK
  <2>3. UploadTypeOK'  BY <1>1, <1>2, <2>1, <2>2 DEF UploadInv, UploadTypeOK, UploadSteps
  <2>4. build[r] = 0 /\ task[r] = "none"  BY <1>1 DEF UploadInv, Sound, RowInv, Before
  <2>5. Sound(r)'
    <3>1. RowInv(r)' /\ OwnedInv(r)' /\ ServedInv(r)'
      BY <1>1, <1>2, <2>4 DEF RowInv, OwnedInv, ServedInv
    <3>2. PlaceInv(r)'
      BY <1>1, <1>2, <2>1, <2>4 DEF UploadInv, Sound, PlaceInv, Placed, Inserted
    <3>3. TarballInv(r)'  BY <2>1 DEF TarballInv, Stored
    <3> QED  BY <3>1, <3>2, <3>3 DEF Sound
  <2>6. \A q \in Requests \ {r} : Stays(q)  BY <1>1, <1>2, <2>1, <2>2 DEF Stays
  <2>7. ProjectsStay  BY <1>1 DEF ProjectsStay
  <2>8. at'[r] \notin Before \cup Counted \cup {"write"}  BY <2>1 DEF Before, Counted
  <2> QED  BY <1>1, <1>2, <2>3, <2>5, <2>6, <2>7, <2>8, UploadMoves
<1>3. CASE /\ target[r] \notin Live /\ Moves(r, "failed")
           /\ UNCHANGED <<tries, gaveUp, passed, build, scarred, faults>>
  <2>1. faults' \in 0 .. scenario.faults  BY <1>3 DEF UploadInv, UploadTypeOK
  <2> QED  BY <1>2, <1>3, <2>1
<1>4. CASE /\ target[r] \in Live /\ Taken(r) /\ Conflicts(r)
           /\ UNCHANGED <<passed, build, scarred, faults>>
  BY <1>1, <1>4, ConflictsInv
<1>5. CASE /\ target[r] \in Live /\ ~Taken(r) /\ WritesRow(r) /\ Moves(r, "post")
           /\ UNCHANGED <<tries, gaveUp, scarred, faults>>
  <2>1. faults' \in 0 .. scenario.faults  BY <1>5 DEF UploadInv, UploadTypeOK
  <2> QED  BY <1>1, <1>5, <2>1, WritesRowInv
<1>6. CASE /\ target[r] \in Live /\ ~Taken(r) /\ Fault /\ Moves(r, "failed")
           /\ (UNCHANGED <<build, passed>> \/ WritesRow(r))
           /\ scarred' = scarred \cup {r} /\ UNCHANGED <<tries, gaveUp>>
  <2>1. faults' \in 0 .. scenario.faults  BY <1>6, FaultTyped DEF UploadInv
  <2>2. CASE UNCHANGED <<build, passed>>  BY <1>2, <1>6, <2>1, <2>2
  <2>3. CASE WritesRow(r)  BY <1>1, <1>6, <2>1, <2>3, WritesRowInv
  <2> QED  BY <1>6, <2>2, <2>3
<1> QED  BY <1>3, <1>4, <1>5, <1>6 DEF CreateScreenshotTest

----------------------------------------------------------------------------
(* The steps of an upload that has its row, and its cleanup.               *)

\* What these steps leave alone.
Numbered ==
  /\ UNCHANGED <<scenario, provider, account, project, secret, target, carried>>
  /\ UNCHANGED <<number, tries, passed, gaveUp, removal, resetting, closing, purging>>

\* Of an upload past its row the others do not hear, and no number changes.
LEMMA LateMoves ==
  ASSUME UploadAssumption, UploadInv, NEW r \in Requests, Numbered,
         at' \in [Requests -> UploadSteps], \A q \in Requests \ {r} : at'[q] = at[q],
         at'[r] \notin Before, at'[r] \in Counted => at[r] \in Counted,
         build' \in [Requests -> 0 .. Cardinality(Requests)],
         task' \in [Requests -> {"none", "queued", "taken"}],
         \A q \in Requests \ {r} : build'[q] = build[q] /\ task'[q] = task[q],
         build'[r] = 0 \/ build'[r] = build[r],
         tarballs' \in {tarballs, tarballs \ {r}}, checks' \in {checks, checks \cup {r}},
         noted' \in {noted, noted \cup {r}}, scarred' \in {scarred, scarred \cup {r}},
         faults' \in 0 .. scenario.faults,
         RowInv(r)', at[r] \in Placed \/ UNCHANGED at,
         TarballInv(r)', OwnedInv(r)', ServedInv(r)'
  PROVE  UploadInv'
<1>1. /\ tarballs' \in SUBSET Requests /\ checks' \in SUBSET Requests
      /\ noted' \in SUBSET Requests /\ scarred' \in SUBSET Requests
  BY DEF UploadInv, UploadTypeOK
<1>2. UploadTypeOK'  BY <1>1 DEF UploadInv, UploadTypeOK, UploadSteps, Numbered
<1>3. PlaceInv(r)'  BY DEF UploadInv, Sound, PlaceInv, Numbered
<1>4. Sound(r)'  BY <1>3 DEF Sound
<1>5. \A q \in Requests \ {r} : Stays(q)  BY DEF Stays, Numbered
<1>6. ProjectsStay  BY DEF ProjectsStay, Numbered
<1>7. UNCHANGED <<number, tries, passed, gaveUp, removal, closing, purging, target>>
  BY DEF Numbered
<1>8. at'[r] # "write"  BY DEF Before
<1> QED  BY <1>2, <1>4, <1>5, <1>6, <1>7, <1>8, UploadMoves

\* What an upload with its row has where its step says so.
LEMMA LateIs ==
  ASSUME UploadInv, NEW r \in Requests
  PROVE  /\ build[r] \in 0 .. Cardinality(Requests)
         /\ task[r] \in {"none", "queued", "taken"}
         /\ build \in [Requests -> 0 .. Cardinality(Requests)]
         /\ task \in [Requests -> {"none", "queued", "taken"}]
         /\ faults \in 0 .. scenario.faults
         /\ at \in [Requests -> UploadSteps]
         /\ RowInv(r) /\ PlaceInv(r) /\ TarballInv(r) /\ OwnedInv(r) /\ ServedInv(r)
BY DEF UploadInv, UploadTypeOK, UploadSteps, Sound

\* Where an upload goes.
LEMMA LateGoes ==
  ASSUME UploadInv, NEW r \in Requests,
         NEW to \in {"save", "row", "enqueue", "done", "object", "failed"}, Moves(r, to)
  PROVE  /\ at' \in [Requests -> UploadSteps] /\ at'[r] = to /\ at'[r] \notin Before
         /\ \A q \in Requests \ {r} : at'[q] = at[q]
<1>1. to \in UploadSteps /\ to \notin Before  BY DEF UploadSteps, Ended, Inserted, Before
<1> QED  BY <1>1, AtTyped DEF UploadInv

\* The status is posted, or not.
LEMMA PostsInv ==
  ASSUME UploadAssumption, UploadInv, NEW r \in Requests, Posts(r)
  PROVE  UploadInv'
<1>1. at[r] = "post" /\ Numbered /\ UNCHANGED <<build, task, noted, tarballs, scarred>>
  BY DEF Posts, rowVars, adminVars, numbering, fixed, Numbered
<1>2. PICK to \in {"save", "row"} : Moves(r, to)  BY DEF Posts
<1>3. checks' \in {checks, checks \cup {r}} /\ faults' \in 0 .. scenario.faults
  BY FaultTyped, LateIs DEF Posts, UploadInv
<1>4. task[r] = "none"  BY <1>1, LateIs DEF RowInv, RowSettled
<1>5. at'[r] = to  BY <1>2, LateGoes
<1>6. RowInv(r)' /\ OwnedInv(r)' /\ ServedInv(r)'
  BY <1>1, <1>4, <1>5 DEF RowInv, OwnedInv, ServedInv, Before, Inserted
<1>7. TarballInv(r)'
  BY <1>1, <1>5, LateIs DEF TarballInv, Stored, Numbered
<1>8. at[r] \in Placed  BY <1>1 DEF Placed, Inserted
<1>9. tarballs' \in {tarballs, tarballs \ {r}} /\ noted' \in {noted, noted \cup {r}}
      /\ scarred' \in {scarred, scarred \cup {r}} /\ build' = build /\ task' = task
  BY <1>1
<1>10. at[r] \in Counted  BY <1>1 DEF Counted
<1> QED  BY <1>1, <1>2, <1>3, <1>6, <1>7, <1>8, <1>9, <1>10, LateGoes, LateIs, LateMoves

\* Its id is noted in the row, if the row is still there.
LEMMA SavesStatusIdInv ==
  ASSUME UploadAssumption, UploadInv, NEW r \in Requests, SavesStatusId(r),
         UNCHANGED <<build, passed>>
  PROVE  UploadInv'
<1>1. at[r] = "save" /\ Numbered /\ UNCHANGED <<build, task, checks, tarballs, scarred>>
  BY DEF SavesStatusId, adminVars, fixed, Numbered
<1>2. PICK to \in {"enqueue", "row"} :
        Moves(r, to) /\ (to = "enqueue" => noted' = noted \cup (checks \cap {r}))
  BY DEF SavesStatusId
<1>3. noted' \in {noted, noted \cup {r}}
  <2>1. checks \cap {r} = {} \/ checks \cap {r} = {r}  OBVIOUS
  <2>2. noted' = noted \/ noted' = noted \cup (checks \cap {r})  BY DEF SavesStatusId
  <2> QED  BY <2>1, <2>2
<1>4. faults' \in 0 .. scenario.faults  BY FaultTyped, LateIs DEF SavesStatusId, UploadInv
<1>5. task[r] = "none"  BY <1>1, LateIs DEF RowInv, RowSettled
<1>6. at'[r] = to  BY <1>2, LateGoes
<1>7. RowInv(r)' /\ OwnedInv(r)' /\ ServedInv(r)'
  BY <1>1, <1>5, <1>6 DEF RowInv, OwnedInv, ServedInv, Before, Inserted
<1>8. TarballInv(r)'
  BY <1>1, <1>2, <1>6, LateIs DEF TarballInv, Stored, Numbered
<1>9. at[r] \in Placed  BY <1>1 DEF Placed, Inserted
<1>10. tarballs' \in {tarballs, tarballs \ {r}} /\ checks' \in {checks, checks \cup {r}}
       /\ scarred' \in {scarred, scarred \cup {r}} /\ build' = build /\ task' = task
  BY <1>1
<1>11. at[r] \in Counted  BY <1>1 DEF Counted
<1> QED  BY <1>1, <1>2, <1>3, <1>4, <1>7, <1>8, <1>9, <1>10, <1>11, LateGoes, LateIs, LateMoves

\* The row was deleted, and its project came back: it is inserted again, under its number.
LEMMA ReinsertsInv ==
  ASSUME UploadAssumption, UploadInv, NEW r \in Requests, SavesStatusId(r), Reinsertable(r),
         Moves(r, "enqueue"), WritesRow(r), noted' = noted \cup (checks \cap {r}),
         UNCHANGED faults
  PROVE  UploadInv'
<1>1. /\ at[r] = "save" /\ target[r] \in Live
      /\ UNCHANGED <<scenario, provider, account, project, secret, task>>
      /\ UNCHANGED <<target, carried, number, tries, gaveUp>>
      /\ UNCHANGED <<removal, resetting, closing, purging, tarballs, checks, scarred>>
  BY DEF SavesStatusId, Reinsertable, adminVars, fixed
<1>2. /\ at' \in [Requests -> UploadSteps] /\ at'[r] = "enqueue"
      /\ \A q \in Requests \ {r} : at'[q] = at[q]
  BY LateGoes
<1>3. /\ build' \in [Requests -> 0 .. Cardinality(Requests)]
      /\ \A q \in Requests \ {r} : build'[q] = build[q]
      /\ passed' \in [Requests -> Nat] /\ TryInv' /\ NumberInv' /\ GivesUpLast'
  <2>1. at'[r] \notin Before  BY <1>2 DEF Before
  <2> QED  BY <1>1, <1>2, <2>1, RowIsCounted
<1>4. noted' \in SUBSET Requests /\ \A q \in Requests \ {r} : q \in noted' <=> q \in noted
  BY DEF UploadInv, UploadTypeOK
<1>5. UploadTypeOK'
  BY <1>1, <1>2, <1>3, <1>4 DEF UploadInv, UploadTypeOK, UploadSteps
<1>6. task[r] = "none" /\ target[r] # 0 /\ project[target[r]] \notin {"none", "gone"}
  <2>1. task[r] = "none"  BY <1>1, LateIs DEF RowInv, RowSettled
  <2>2. target[r] # 0  BY <1>1 DEF Live, Ids
  <2> QED  BY <1>1, <2>1, <2>2 DEF Live
<1>7. Sound(r)'
  <2>1. RowInv(r)' /\ OwnedInv(r)' /\ ServedInv(r)'
    BY <1>1, <1>2, <1>6 DEF RowInv, OwnedInv, ServedInv, Before, Inserted
  <2>2. PlaceInv(r)'  BY <1>1, <1>6 DEF PlaceInv
  <2>3. TarballInv(r)'  BY <1>1, <1>2, LateIs DEF TarballInv, Stored
  <2> QED  BY <2>1, <2>2, <2>3 DEF Sound
<1>8. \A q \in Requests : Sound(q)'
  <2>1. ASSUME NEW q \in Requests, q # r PROVE Sound(q)'
    <3>1. Stays(q) /\ ProjectsStay  BY <1>1, <1>2, <1>3, <1>4, <2>1 DEF Stays, ProjectsStay
    <3> QED  BY <3>1, SoundStays DEF UploadInv
  <2> QED  BY <1>7, <2>1
<1>9. DeletionInv'  BY <1>1 DEF UploadInv, DeletionInv
<1> QED  BY <1>3, <1>5, <1>8, <1>9 DEF UploadInv

\* The task is queued, with everything its worker will ask for; or it may have been.
LEMMA EnqueuesInv ==
  ASSUME UploadAssumption, UploadInv, NEW r \in Requests, Enqueues(r)
  PROVE  UploadInv'
<1>1. at[r] = "enqueue" /\ Numbered /\ UNCHANGED <<build, noted, checks, tarballs, scarred>>
  BY DEF Enqueues, adminVars, numbering, fixed, Numbered
<1>2. PICK to \in {"done", "row"} :
        /\ Moves(r, to) /\ (to = "done" => build[r] # 0 /\ task' = [task EXCEPT ![r] = "queued"])
        /\ task' = task \/ (build[r] # 0 /\ task' = [task EXCEPT ![r] = "queued"])
  BY DEF Enqueues
<1>3. faults' \in 0 .. scenario.faults  BY FaultTyped, LateIs DEF Enqueues, UploadInv
<1>4. task[r] = "none"  BY <1>1, LateIs DEF RowInv, RowSettled
<1>5. /\ task' \in [Requests -> {"none", "queued", "taken"}]
      /\ \A q \in Requests \ {r} : task'[q] = task[q]
      /\ task'[r] # "none" => build[r] # 0
      /\ to = "done" => task'[r] # "none"
  BY <1>2, <1>4, LateIs
<1>6. at'[r] = to  BY <1>2, LateGoes
<1>7. RowInv(r)' /\ OwnedInv(r)'
  BY <1>1, <1>5, <1>6 DEF RowInv, OwnedInv, Before, Inserted, RowSettled
<1>8. TarballInv(r)'  BY <1>6 DEF TarballInv, Stored
<1>9. ServedInv(r)'
  <2>1. SUFFICES ASSUME task'[r] # "none", project'[target'[r]] # "revived"
                 PROVE  build'[r] # 0 /\ r \in tarballs' /\ (r \in checks' => r \in noted')
    BY DEF ServedInv
  <2>2. build[r] # 0  BY <1>5, <2>1
  <2>3. project[target[r]] # "gone"  BY <2>2, LateIs DEF PlaceInv
  <2>4. project[target[r]] # "revived"  BY <1>1, <2>1 DEF Numbered
  <2>5. r \in tarballs /\ (r \in checks => r \in noted)
    BY <1>1, <2>3, <2>4, LateIs DEF TarballInv, Stored
  <2> QED  BY <1>1, <2>2, <2>5
<1>10. at[r] \in Placed  BY <1>1 DEF Placed, Inserted
<1>11. /\ tarballs' \in {tarballs, tarballs \ {r}} /\ checks' \in {checks, checks \cup {r}}
       /\ scarred' \in {scarred, scarred \cup {r}} /\ noted' \in {noted, noted \cup {r}}
       /\ build' = build
  BY <1>1
<1>12. at'[r] \notin Counted  BY <1>6 DEF Counted
<1> QED
  BY <1>1, <1>2, <1>3, <1>5, <1>7, <1>8, <1>9, <1>10, <1>11, <1>12, LateGoes, LateIs, LateMoves

\* The cleanup deletes the row and its task, or is scarred.
LEMMA DeletesRowInv ==
  ASSUME UploadAssumption, UploadInv, NEW r \in Requests, DeletesRow(r)
  PROVE  UploadInv'
<1>1. at[r] = "row" /\ Moves(r, "object") /\ Numbered /\ UNCHANGED <<noted, checks, tarballs>>
  BY DEF DeletesRow, adminVars, numbering, fixed, Numbered
<1>2. \/ /\ build' = [build EXCEPT ![r] = 0] /\ task' = [task EXCEPT ![r] = "none"]
         /\ UNCHANGED <<scarred, faults>>
      \/ scarred' = scarred \cup {r} /\ UNCHANGED <<build, task>>
  BY DEF DeletesRow
<1>3. faults' \in 0 .. scenario.faults  BY FaultTyped, LateIs DEF DeletesRow, UploadInv
<1>4. /\ build' \in [Requests -> 0 .. Cardinality(Requests)]
      /\ task' \in [Requests -> {"none", "queued", "taken"}]
      /\ \A q \in Requests \ {r} : build'[q] = build[q] /\ task'[q] = task[q]
      /\ \/ build'[r] = 0 /\ task'[r] = "none"
         \/ r \in scarred' /\ build'[r] = build[r] /\ task'[r] = task[r]
  BY <1>2, LateIs, PastCounted
<1>5. at'[r] = "object"  BY <1>1, LateGoes
<1>6. RowInv(r)' /\ OwnedInv(r)' /\ ServedInv(r)'
  BY <1>4, <1>5, LateIs DEF RowInv, OwnedInv, ServedInv, Before, RowSettled
<1>7. TarballInv(r)'  BY <1>5 DEF TarballInv, Stored
<1>8. at[r] \in Placed  BY <1>1 DEF Placed, Inserted
<1>9. tarballs' \in {tarballs, tarballs \ {r}} /\ checks' \in {checks, checks \cup {r}}
      /\ scarred' \in {scarred, scarred \cup {r}} /\ noted' \in {noted, noted \cup {r}}
  BY <1>1, <1>2
<1>10. at'[r] \notin Counted  BY <1>5 DEF Counted
<1> QED  BY <1>1, <1>3, <1>4, <1>6, <1>7, <1>8, <1>9, <1>10, LateGoes, LateIs, LateMoves

\* The object goes last, when there is no row that names it.
LEMMA DeletesTarballInv ==
  ASSUME UploadAssumption, UploadInv, NEW r \in Requests, DeletesTarball(r)
  PROVE  UploadInv'
<1>1. at[r] = "object" /\ Moves(r, "failed") /\ Numbered
      /\ UNCHANGED <<build, task, noted, checks>>
  BY DEF DeletesTarball, rowVars, adminVars, numbering, fixed, Numbered
<1>2. /\ tarballs' \in {tarballs, tarballs \ {r}} /\ scarred' \in {scarred, scarred \cup {r}}
      /\ r \in scarred => r \in scarred'
  BY DEF DeletesTarball
<1>3. faults' \in 0 .. scenario.faults  BY FaultTyped, LateIs DEF DeletesTarball, UploadInv
<1>4. at'[r] = "failed" /\ at'[r] \notin Before  BY <1>1, LateGoes
<1>5. r \notin scarred' => build[r] = 0 /\ task[r] = "none"
  BY <1>1, <1>2, LateIs DEF RowInv
<1>6. RowInv(r)' /\ OwnedInv(r)' /\ ServedInv(r)'
  BY <1>1, <1>4, <1>5, LateIs DEF RowInv, OwnedInv, ServedInv, RowSettled
<1>7. TarballInv(r)'  BY <1>4 DEF TarballInv, Stored
<1>8. PlaceInv(r)'
  BY <1>1, <1>4, LateIs DEF PlaceInv, Placed, Inserted, Numbered
<1>9. UploadTypeOK'
  <2>1. at' \in [Requests -> UploadSteps]  BY <1>1, LateGoes
  <2>2. tarballs' \in SUBSET Requests /\ scarred' \in SUBSET Requests
    BY <1>2 DEF UploadInv, UploadTypeOK
  <2> QED  BY <1>1, <1>3, <2>1, <2>2 DEF UploadInv, UploadTypeOK, UploadSteps, Numbered
<1>10. \A q \in Requests \ {r} : Stays(q)
  <2>1. \A q \in Requests \ {r} : at'[q] = at[q]  BY <1>1, LateGoes
  <2> QED  BY <1>1, <1>2, <2>1 DEF Stays, Numbered
<1>11. /\ ProjectsStay
       /\ UNCHANGED <<number, tries, passed, gaveUp, removal, closing, purging, target>>
  BY <1>1 DEF ProjectsStay, Numbered
<1>12. at'[r] \notin Counted \cup {"write"}  BY <1>4 DEF Counted
<1> QED
  BY <1>1, <1>4, <1>6, <1>7, <1>8, <1>9, <1>10, <1>11, <1>12, UploadMoves DEF Sound

\* A worker takes the task over.
LEMMA IsClaimedInv ==
  ASSUME UploadAssumption, UploadInv, NEW r \in Requests, IsClaimed(r)
  PROVE  UploadInv'
<1>1. /\ task[r] = "queued" /\ task' = [task EXCEPT ![r] = "taken"] /\ Numbered
      /\ UNCHANGED <<at, build, noted, tarballs, checks, scarred, faults>>
  BY DEF IsClaimed, requestVars, adminVars, numbering, fixed, Numbered
<1>2. /\ task' \in [Requests -> {"none", "queued", "taken"}] /\ task'[r] = "taken"
      /\ \A q \in Requests \ {r} : task'[q] = task[q]
  BY <1>1, LateIs
<1>3. UploadTypeOK'  BY <1>1, <1>2 DEF UploadInv, UploadTypeOK, Numbered
<1>4. at[r] \in RowSettled /\ build[r] # 0  BY <1>1, LateIs DEF RowInv
<1>5. Sound(r)'
  <2>1. RowInv(r)' /\ OwnedInv(r)'
    BY <1>1, <1>2, <1>4, LateIs DEF RowInv, OwnedInv
  <2>2. PlaceInv(r)' /\ TarballInv(r)'
    BY <1>1, LateIs DEF PlaceInv, TarballInv, Numbered
  <2>3. ServedInv(r)'  BY <1>1, <1>2, LateIs DEF ServedInv, Numbered
  <2> QED  BY <2>1, <2>2, <2>3 DEF Sound
<1>6. \A q \in Requests \ {r} : Stays(q)  BY <1>1, <1>2 DEF Stays, Numbered
<1>7. ProjectsStay /\ UNCHANGED <<number, tries, passed, gaveUp, removal, closing, purging, target>>
  BY <1>1 DEF ProjectsStay, Numbered
<1>8. at'[r] # "write"  BY <1>1, <1>4 DEF RowSettled
<1> QED  BY <1>1, <1>3, <1>5, <1>6, <1>7, <1>8, UploadMoves

----------------------------------------------------------------------------
(* Projects come and go.                                                   *)

\* No request is at another step, and none has another project or number.
Untouched ==
  /\ UNCHANGED <<scenario, provider, at, target, carried, number, tries, gaveUp, passed>>
  /\ UNCHANGED <<noted, checks, scarred>>

\* A step that only changes which projects there are keeps every upload sound, as long as it
\* deletes none and brings back only what was deleted.
LEMMA ProjectsCome ==
  ASSUME UploadAssumption, UploadInv, Untouched, UNCHANGED <<build, task, tarballs, faults>>,
         account' \in BOOLEAN, secret' \in [Ids -> Nat],
         project' \in [Ids -> {"none", "live", "gone", "revived"}],
         \A p \in Ids : \/ project'[p] = project[p]
                        \/ project[p] = "none" /\ project'[p] # "gone"
                        \/ project'[p] = "revived",
         removal' \in Ids \cup {0}, resetting' \in Ids \cup {0}, closing' \in SUBSET Ids,
         purging' = purging, DeletionInv'
  PROVE  UploadInv'
<1>1. UploadTypeOK'  BY DEF UploadInv, UploadTypeOK, Untouched
<1>2. \A q \in Requests : Sound(q)'
  <2> SUFFICES ASSUME NEW q \in Requests PROVE Sound(q)'  OBVIOUS
  <2>1. RowInv(q) /\ PlaceInv(q) /\ TarballInv(q) /\ OwnedInv(q) /\ ServedInv(q)
    BY LateIs
  <2>2. target[q] # 0 => /\ target[q] \in Ids /\ project[target[q]] # "none"
                         /\ \/ project'[target[q]] = project[target[q]]
                            \/ project'[target[q]] = "revived"
    BY <2>1 DEF PlaceInv, UploadInv, UploadTypeOK
  <2>3. RowInv(q)' /\ OwnedInv(q)'  BY <2>1 DEF RowInv, OwnedInv, Untouched
  <2>4. PlaceInv(q)'  BY <2>1, <2>2 DEF PlaceInv, Untouched
  <2>5. at[q] \in Stored => target[q] # 0  BY <2>1 DEF PlaceInv, Placed, Stored, Inserted
  <2>6. TarballInv(q)'  BY <2>1, <2>2, <2>5 DEF TarballInv, Untouched
  <2>7. task[q] # "none" => target[q] # 0  BY <2>1 DEF RowInv, PlaceInv
  <2>8. ServedInv(q)'  BY <2>1, <2>2, <2>7 DEF ServedInv, Untouched
  <2> QED  BY <2>3, <2>4, <2>6, <2>8 DEF Sound
<1>3. /\ UNCHANGED <<target, number, tries, passed, gaveUp>>
      /\ \A q \in Requests : build'[q] = build[q] /\ at'[q] = at[q]
  BY DEF Untouched
<1> QED  BY <1>1, <1>2, <1>3, ProjectMoves

\* What a cascade takes with the projects it deletes.
LEMMA CascadeInv ==
  ASSUME UploadAssumption, UploadInv, Untouched, NEW ps, ps \subseteq Ids, Cascade(ps),
         \A p \in ps : project[p] # "none",
         UNCHANGED <<secret, resetting, tarballs>>, account' \in BOOLEAN,
         faults' \in 0 .. scenario.faults,
         removal' \in {0, removal}, closing' \in {{}, closing},
         \A p \in purging' \ purging : p \in Ids /\ project'[p] \in {"gone", "revived"}
  PROVE  UploadInv'
<1>1. /\ project' \in [Ids -> {"none", "live", "gone", "revived"}]
      /\ \A p \in Ids : project'[p] = IF p \in ps THEN "gone" ELSE project[p]
  BY DEF Cascade, UploadInv, UploadTypeOK
<1>2. /\ build' \in [Requests -> 0 .. Cardinality(Requests)]
      /\ \A q \in Requests : build'[q] = IF target[q] \in ps THEN 0 ELSE build[q]
  BY PastCounted DEF Cascade, UploadInv, UploadTypeOK
<1>3. /\ task' \in [Requests -> {"none", "queued", "taken"}]
      /\ \A q \in Requests : task'[q] = IF target[q] \in ps THEN "none" ELSE task[q]
  BY DEF Cascade, UploadInv, UploadTypeOK
<1>4. purging' \in SUBSET Ids /\ removal' \in Ids \cup {0} /\ closing' \in SUBSET Ids
  BY DEF UploadInv, UploadTypeOK
<1>5. UploadTypeOK'  BY <1>1, <1>2, <1>3, <1>4 DEF UploadInv, UploadTypeOK, Untouched
<1>6. \A q \in Requests : Sound(q)'
  <2> SUFFICES ASSUME NEW q \in Requests PROVE Sound(q)'  OBVIOUS
  <2>1. RowInv(q) /\ PlaceInv(q) /\ TarballInv(q) /\ OwnedInv(q) /\ ServedInv(q)
    BY LateIs
  <2>2. CASE target[q] \in ps
    <3>1. /\ target[q] \in Ids /\ target[q] # 0 /\ project'[target[q]] = "gone"
          /\ build'[q] = 0 /\ task'[q] = "none"
      BY <1>1, <1>2, <1>3, <2>2 DEF Ids
    <3>2. RowInv(q)' /\ OwnedInv(q)' /\ ServedInv(q)'
      BY <3>1 DEF RowInv, OwnedInv, ServedInv
    <3>3. PlaceInv(q)'  BY <3>1 DEF PlaceInv, Untouched
    <3>4. TarballInv(q)'  BY <2>1, <3>1 DEF TarballInv, Untouched
    <3> QED  BY <3>2, <3>3, <3>4 DEF Sound
  <2>3. CASE target[q] \notin ps
    <3>1. build'[q] = build[q] /\ task'[q] = task[q]  BY <1>2, <1>3, <2>3
    <3>2. target[q] # 0 => target[q] \in Ids /\ project'[target[q]] = project[target[q]]
      BY <1>1, <2>3 DEF UploadInv, UploadTypeOK
    <3>3. RowInv(q)' /\ OwnedInv(q)'  BY <2>1, <3>1 DEF RowInv, OwnedInv, Untouched
    <3>4. PlaceInv(q)'  BY <2>1, <3>1, <3>2 DEF PlaceInv, Untouched
    <3>5. at[q] \in Stored => target[q] # 0
      BY <2>1 DEF PlaceInv, Placed, Stored, Inserted
    <3>6. TarballInv(q)'  BY <2>1, <3>2, <3>5 DEF TarballInv, Untouched
    <3>7. task[q] # "none" => target[q] # 0  BY <2>1 DEF RowInv, PlaceInv
    <3>8. ServedInv(q)'  BY <2>1, <3>1, <3>2, <3>7 DEF ServedInv, Untouched
    <3> QED  BY <3>3, <3>4, <3>6, <3>8 DEF Sound
  <2> QED  BY <2>2, <2>3
<1>7. DeletionInv'
  <2>1. removal' # 0 => project'[removal'] # "none"
    BY <1>1 DEF UploadInv, UploadTypeOK, DeletionInv
  <2>2. \A p \in closing' : project'[p] # "none"
    BY <1>1 DEF UploadInv, UploadTypeOK, DeletionInv
  <2>3. \A p \in purging' : project'[p] \in {"gone", "revived"}
    <3>1. ASSUME NEW p \in purging PROVE project'[p] \in {"gone", "revived"}
      BY <1>1, <3>1 DEF UploadInv, UploadTypeOK, DeletionInv
    <3> QED  BY <3>1
  <2> QED  BY <2>1, <2>2, <2>3 DEF DeletionInv
<1>8. /\ UNCHANGED <<target, number, tries, passed, gaveUp>>
      /\ \A q \in Requests : /\ build'[q] = 0 \/ build'[q] = build[q]
                             /\ at'[q] = at[q]
  BY <1>2 DEF Untouched
<1> QED  BY <1>5, <1>6, <1>7, <1>8, ProjectMoves

\* What a step of the projects leaves of the requests.
LEMMA ProjectsLeave ==
  ASSUME \/ CreatesProject \/ RemovalFinds \/ RemovalDeletes \/ ResetFinds \/ ResetSaves
         \/ AccountFinds \/ AccountDeletes
  PROVE  Untouched
BY DEF CreatesProject, RemovalFinds, RemovalDeletes, ResetFinds, ResetSaves, AccountFinds,
       AccountDeletes, Untouched, requestVars, rowVars, adminVars, numbering, fixed

\* Projects are created, found for a removal or a reset, and saved after a reset.
LEMMA ProjectsComeInv ==
  ASSUME UploadAssumption, UploadInv,
         CreatesProject \/ RemovalFinds \/ ResetFinds \/ ResetSaves \/ AccountFinds
  PROVE  UploadInv'
<1>1. /\ project \in [Ids -> {"none", "live", "gone", "revived"}] /\ secret \in [Ids -> Nat]
      /\ account \in BOOLEAN /\ removal \in Ids \cup {0} /\ resetting \in Ids \cup {0}
      /\ closing \in SUBSET Ids /\ purging \in SUBSET Ids
  BY DEF UploadInv, UploadTypeOK
<1>2. Untouched  BY ProjectsLeave
<1>3. CASE CreatesProject
  <2>1. PICK p \in Ids : Fresh(p) /\ project' = [project EXCEPT ![p] = "live"]
    BY <1>3 DEF CreatesProject
  <2>2. /\ UNCHANGED <<account, secret, build, task, tarballs, faults>>
        /\ UNCHANGED <<removal, resetting, closing, purging>>
    BY <1>3 DEF CreatesProject, adminVars
  <2>3. project[p] = "none"  BY <2>1 DEF Fresh
  <2>4. /\ project' \in [Ids -> {"none", "live", "gone", "revived"}] /\ project'[p] = "live"
        /\ \A x \in Ids \ {p} : project'[x] = project[x]
    BY <1>1, <2>1
  <2>5. DeletionInv'  BY <1>1, <2>2, <2>3, <2>4 DEF UploadInv, DeletionInv
  <2> QED  BY <1>1, <1>2, <2>2, <2>3, <2>4, <2>5, ProjectsCome
<1>4. CASE RemovalFinds \/ ResetFinds \/ AccountFinds
  <2>1. UNCHANGED <<account, project, secret, build, task, tarballs, faults, purging>>
    BY <1>4 DEF RemovalFinds, ResetFinds, AccountFinds, rowVars
  <2>2. /\ removal' \in Live \cup {removal} /\ resetting' \in Live \cup {resetting}
        /\ closing' \in {Live, closing}
    BY <1>4 DEF RemovalFinds, ResetFinds, AccountFinds
  <2>3. removal' \in Ids \cup {0} /\ resetting' \in Ids \cup {0} /\ closing' \in SUBSET Ids
    BY <1>1, <2>2, LiveIs
  <2>4. DeletionInv'  BY <1>1, <2>1, <2>2, LiveIs DEF UploadInv, DeletionInv
  <2> QED  BY <1>1, <1>2, <2>1, <2>3, <2>4, ProjectsCome
<1>5. CASE ResetSaves
  <2>1. /\ resetting \in Ids /\ resetting' = 0
        /\ UNCHANGED <<account, build, task, tarballs, faults, removal, closing, purging>>
    BY <1>1, <1>5 DEF ResetSaves
  <2>2. secret' = secret \/ secret' = [secret EXCEPT ![resetting] = @ + 1]
    BY <1>5 DEF ResetSaves
  <2>3. secret' \in [Ids -> Nat]  BY <1>1, <2>1, <2>2
  <2>4. project' = project \/ project' = [project EXCEPT ![resetting] = "revived"]
    BY <1>5 DEF ResetSaves
  <2>5. /\ project' \in [Ids -> {"none", "live", "gone", "revived"}]
        /\ \A p \in Ids : project'[p] = project[p] \/ project'[p] = "revived"
    BY <1>1, <2>1, <2>4
  <2>6. DeletionInv'  BY <1>1, <2>1, <2>5 DEF UploadInv, DeletionInv
  <2> QED  BY <1>1, <1>2, <2>1, <2>3, <2>5, <2>6, ProjectsCome
<1> QED  BY <1>3, <1>4, <1>5

\* A project is deleted, alone or with its account, and its objects are to be purged.
LEMMA ProjectsGoInv ==
  ASSUME UploadAssumption, UploadInv, RemovalDeletes \/ AccountDeletes
  PROVE  UploadInv'
<1>1. /\ project \in [Ids -> {"none", "live", "gone", "revived"}] /\ account \in BOOLEAN
      /\ removal \in Ids \cup {0} /\ closing \in SUBSET Ids /\ faults \in 0 .. scenario.faults
  BY DEF UploadInv, UploadTypeOK
<1>2. Untouched  BY ProjectsLeave
<1>3. ASSUME NEW p \in Ids, p \notin Live, project[p] # "none" PROVE project[p] = "gone"
  BY <1>1, <1>3 DEF Live
<1>4. CASE RemovalDeletes
  <2>1. /\ removal \in Ids /\ Cascade({removal} \cap Live)
        /\ purging' = purging \cup {removal} /\ removal' = 0
        /\ UNCHANGED <<account, secret, resetting, closing, tarballs, faults>>
    BY <1>1, <1>4 DEF RemovalDeletes
  <2>2. project'[removal] = IF removal \in Live THEN "gone" ELSE project[removal]
    BY <2>1 DEF Cascade
  <2>3. project[removal] # "none"  BY <2>1 DEF UploadInv, DeletionInv, Ids
  <2>4. project'[removal] \in {"gone", "revived"}  BY <1>3, <2>1, <2>2, <2>3
  <2>5. {removal} \cap Live \subseteq Ids /\ \A p \in {removal} \cap Live : project[p] # "none"
    BY LiveIs
  <2>6. \A p \in purging' \ purging : p \in Ids /\ project'[p] \in {"gone", "revived"}
    BY <2>1, <2>4
  <2>7. removal' \in {0, removal} /\ closing' \in {{}, closing} /\ account' \in BOOLEAN
        /\ faults' \in 0 .. scenario.faults
    BY <1>1, <2>1
  <2> QED  BY <1>2, <2>1, <2>5, <2>6, <2>7, CascadeInv
<1>5. CASE AccountDeletes
  <2>1. closing' = {} /\ UNCHANGED <<secret, removal, resetting, tarballs>>
    BY <1>5 DEF AccountDeletes
  <2>2. CASE /\ account' = FALSE /\ Cascade(Live) /\ purging' = purging \cup closing
             /\ UNCHANGED faults
    <3>1. ASSUME NEW p \in closing PROVE p \in Ids /\ project'[p] \in {"gone", "revived"}
      <4>1. p \in Ids /\ project[p] # "none"  BY <1>1, <3>1 DEF UploadInv, DeletionInv
      <4>2. project'[p] = IF p \in Live THEN "gone" ELSE project[p]
        BY <2>2, <4>1 DEF Cascade
      <4> QED  BY <1>3, <4>1, <4>2
    <3>2. \A p \in purging' \ purging : p \in Ids /\ project'[p] \in {"gone", "revived"}
      BY <2>2, <3>1
    <3>3. Live \subseteq Ids /\ \A p \in Live : project[p] # "none"  BY LiveIs
    <3>4. removal' \in {0, removal} /\ closing' \in {{}, closing} /\ account' \in BOOLEAN
          /\ faults' \in 0 .. scenario.faults
      BY <1>1, <2>1, <2>2
    <3> QED  BY <1>2, <2>1, <2>2, <3>2, <3>3, <3>4, CascadeInv
  <2>3. CASE Fault /\ UNCHANGED <<account, project, build, task, purging>>
    <3>1. faults' \in 0 .. scenario.faults  BY <2>3, FaultTyped DEF UploadInv
    <3>2. UploadTypeOK'  BY <1>2, <2>1, <2>3, <3>1 DEF UploadInv, UploadTypeOK, Untouched
    <3>3. \A q \in Requests : Sound(q)'
      <4> SUFFICES ASSUME NEW q \in Requests PROVE Sound(q)'  OBVIOUS
      <4>1. Stays(q) /\ ProjectsStay  BY <1>2, <2>1, <2>3 DEF Stays, ProjectsStay, Untouched
      <4> QED  BY <4>1, SoundStays DEF UploadInv
    <3>4. DeletionInv'  BY <2>1, <2>3 DEF UploadInv, DeletionInv
    <3>5. /\ UNCHANGED <<target, number, tries, passed, gaveUp>>
          /\ \A q \in Requests : build'[q] = build[q] /\ at'[q] = at[q]
      BY <1>2, <2>3 DEF Untouched
    <3> QED  BY <3>2, <3>3, <3>4, <3>5, ProjectMoves
  <2> QED  BY <1>5, <2>2, <2>3 DEF AccountDeletes
<1> QED  BY <1>4, <1>5

\* The objects of a deleted project go: no task of it is left to ask for them.
LEMMA PurgesInv ==
  ASSUME UploadAssumption, UploadInv, NEW p \in Ids, Purges(p)
  PROVE  UploadInv'
<1>1. /\ p \in purging /\ purging' = purging \ {p}
      /\ UNCHANGED <<at, target, carried, number, tries, gaveUp, passed>>
      /\ UNCHANGED <<scenario, provider, account, project, secret, build, task, noted>>
      /\ UNCHANGED <<removal, resetting, closing, checks, scarred>>
  BY DEF Purges, requestVars, rowVars, numbering, fixed
<1>2. /\ faults' \in 0 .. scenario.faults /\ tarballs' \subseteq tarballs
      /\ \A q \in tarballs \ tarballs' : target[q] = p
  BY FaultTyped, LateIs DEF Purges, UploadInv, UploadTypeOK
<1>3. UploadTypeOK'
  <2>1. tarballs' \in SUBSET Requests /\ purging' \in SUBSET Ids
    BY <1>1, <1>2 DEF UploadInv, UploadTypeOK
  <2> QED  BY <1>1, <1>2, <2>1 DEF UploadInv, UploadTypeOK
<1>4. project[p] \in {"gone", "revived"} /\ p # 0  BY <1>1 DEF UploadInv, DeletionInv, Ids
<1>5. \A q \in Requests : Sound(q)'
  <2> SUFFICES ASSUME NEW q \in Requests PROVE Sound(q)'  OBVIOUS
  <2>1. RowInv(q) /\ PlaceInv(q) /\ TarballInv(q) /\ OwnedInv(q) /\ ServedInv(q)
    BY LateIs
  <2>2. RowInv(q)' /\ PlaceInv(q)' /\ OwnedInv(q)'
    BY <1>1, <2>1 DEF RowInv, PlaceInv, OwnedInv
  <2>3. q \in tarballs => q \in tarballs' \/ target[q] = p  BY <1>2
  <2>4. TarballInv(q)'  BY <1>1, <1>4, <2>1, <2>3 DEF TarballInv
  <2>5. ServedInv(q)'
    <3>1. target[q] = p /\ project[p] = "gone" => task[q] = "none"
      BY <1>4, <2>1 DEF PlaceInv, RowInv
    <3> QED  BY <1>1, <1>4, <2>1, <2>3, <3>1 DEF ServedInv
  <2> QED  BY <2>2, <2>4, <2>5 DEF Sound
<1>6. DeletionInv'  BY <1>1 DEF UploadInv, DeletionInv
<1>7. /\ UNCHANGED <<target, number, tries, passed, gaveUp>>
      /\ \A q \in Requests : build'[q] = build[q] /\ at'[q] = at[q]
  BY <1>1
<1> QED  BY <1>3, <1>5, <1>6, <1>7, ProjectMoves

\* The process dies: every upload it was at is left as it is.
LEMMA CrashInv ==
  ASSUME UploadAssumption, UploadInv, Crash
  PROVE  UploadInv'
<1>1. /\ at' = [r \in Requests |-> IF at[r] \in Ended \cup {"idle"} THEN at[r] ELSE "gone"]
      /\ scarred' = scarred \cup {r \in Requests : at[r] \notin Ended \cup {"idle"}}
      /\ removal' = 0 /\ resetting' = 0 /\ closing' = {} /\ purging' = {}
      /\ UNCHANGED <<target, carried, number, tries, gaveUp, passed, tarballs, checks>>
      /\ UNCHANGED <<scenario, provider, account, project, secret, build, task, noted>>
  BY DEF Crash, rowVars, numbering, fixed
<1>2. faults' \in 0 .. scenario.faults  BY FaultTyped DEF Crash, UploadInv
<1>3. at' \in [Requests -> UploadSteps]
  <2>1. at \in [Requests -> UploadSteps] /\ "gone" \in UploadSteps
    BY LateIs DEF UploadSteps, Ended, UploadInv, UploadTypeOK
  <2> QED  BY <1>1, <2>1
<1>4. UploadTypeOK'
  <2>1. scarred' \in SUBSET Requests  BY <1>1 DEF UploadInv, UploadTypeOK
  <2>2. /\ removal' \in Ids \cup {0} /\ resetting' \in Ids \cup {0}
        /\ closing' \in SUBSET Ids /\ purging' \in SUBSET Ids
    BY <1>1
  <2> QED  BY <1>1, <1>2, <1>3, <2>1, <2>2 DEF UploadInv, UploadTypeOK, UploadSteps
<1>5. \A q \in Requests : Sound(q)'
  <2> SUFFICES ASSUME NEW q \in Requests PROVE Sound(q)'  OBVIOUS
  <2>1. RowInv(q) /\ PlaceInv(q) /\ TarballInv(q) /\ OwnedInv(q) /\ ServedInv(q)
    BY LateIs
  <2>2. \/ at'[q] = at[q] /\ (q \in scarred' <=> q \in scarred) /\ at[q] \in Ended \cup {"idle"}
        \/ at'[q] = "gone" /\ q \in scarred'
    BY <1>1
  <2>3. RowInv(q)'  BY <1>1, <2>1, <2>2 DEF RowInv, Before, RowSettled
  <2>4. PlaceInv(q)'  BY <1>1, <2>1, <2>2 DEF PlaceInv, Placed, Inserted
  <2>5. TarballInv(q)'  BY <1>1, <2>1, <2>2 DEF TarballInv, Stored
  <2>6. OwnedInv(q)'  BY <1>1, <2>1, <2>2 DEF OwnedInv
  <2>7. ServedInv(q)'  BY <1>1, <2>1, <2>2 DEF ServedInv
  <2> QED  BY <2>3, <2>4, <2>5, <2>6, <2>7 DEF Sound
<1>6. DeletionInv'  BY <1>1 DEF DeletionInv
<1>7. /\ UNCHANGED <<target, number, tries, passed, gaveUp>>
      /\ \A q \in Requests : build'[q] = build[q] /\ (at'[q] = at[q] \/ at'[q] = "gone")
  BY <1>1
<1> QED  BY <1>4, <1>5, <1>6, <1>7, ProjectMoves

----------------------------------------------------------------------------
(* The theorems.                                                           *)

\* Every step keeps the invariant.
LEMMA NextInv == ASSUME UploadAssumption, UploadInv, UploadNext PROVE UploadInv'
<1>1. ASSUME NEW r \in Requests, Step(r) PROVE UploadInv'
  <2>1. CASE Receives(r)  BY <2>1, ReceivesInv
  <2>2. CASE \/ Refuses(r) \/ GetProjectByToken(r) \/ FindsProject(r) \/ FindsOwner(r)
             \/ InsertsProject(r) \/ RefetchesProject(r)
    BY <2>2, ResolvesInv
  <2>3. CASE Stores(r)  BY <2>3, StoresInv
  <2>4. CASE ReadsMax(r)  BY <2>4, ReadsMaxInv
  <2>5. CASE CreateScreenshotTest(r)  BY <2>5, CreateScreenshotTestInv
  <2>6. CASE Posts(r)  BY <2>6, PostsInv
  <2>7. CASE SavesStatusId(r)
    <3>1. \/ UNCHANGED <<build, passed>>
          \/ /\ Reinsertable(r) /\ Moves(r, "enqueue") /\ WritesRow(r)
             /\ noted' = noted \cup (checks \cap {r}) /\ UNCHANGED faults
      BY <2>7 DEF SavesStatusId
    <3> QED  BY <2>7, <3>1, SavesStatusIdInv, ReinsertsInv
  <2>8. CASE Enqueues(r)  BY <2>8, EnqueuesInv
  <2>9. CASE DeletesRow(r)  BY <2>9, DeletesRowInv
  <2>10. CASE DeletesTarball(r)  BY <2>10, DeletesTarballInv
  <2>11. CASE IsClaimed(r)  BY <2>11, IsClaimedInv
  <2> QED
    BY <1>1, <2>1, <2>2, <2>3, <2>4, <2>5, <2>6, <2>7, <2>8, <2>9, <2>10, <2>11 DEF Step
<1>2. CASE Projects
  <2>1. CASE CreatesProject \/ RemovalFinds \/ ResetFinds \/ ResetSaves \/ AccountFinds
    BY <2>1, ProjectsComeInv
  <2>2. CASE RemovalDeletes \/ AccountDeletes  BY <2>2, ProjectsGoInv
  <2>3. ASSUME NEW p \in Ids, Purges(p) PROVE UploadInv'  BY <2>3, PurgesInv
  <2> QED  BY <1>2, <2>1, <2>2, <2>3 DEF Projects
<1>3. CASE Crash  BY <1>3, CrashInv
<1> QED  BY <1>1, <1>2, <1>3 DEF UploadNext

\* The inductive invariant holds in every reachable state.
THEOREM UploadInvariance == ASSUME UploadAssumption PROVE UploadSpec => []UploadInv
<1>1. UploadInit => UploadInv  BY UploadInitInv
<1>2. UploadInv /\ [UploadNext]_uploadVars => UploadInv'
  <2> SUFFICES ASSUME UploadInv, [UploadNext]_uploadVars PROVE UploadInv'  OBVIOUS
  <2>1. CASE UNCHANGED uploadVars
    <3>1. Untouched /\ UNCHANGED <<account, project, secret, build, task, tarballs, faults>>
          /\ UNCHANGED <<removal, resetting, closing, purging>>
      BY <2>1 DEF uploadVars, requestVars, rowVars, adminVars, numbering, fixed, Untouched
    <3>2. DeletionInv'  BY <3>1 DEF UploadInv, DeletionInv
    <3>3. /\ account' \in BOOLEAN /\ secret' \in [Ids -> Nat]
          /\ project' \in [Ids -> {"none", "live", "gone", "revived"}]
          /\ removal' \in Ids \cup {0} /\ resetting' \in Ids \cup {0} /\ closing' \in SUBSET Ids
      BY <3>1 DEF UploadInv, UploadTypeOK
    <3> QED  BY <3>1, <3>2, <3>3, ProjectsCome
  <2>2. CASE UploadNext  BY <2>2, NextInv
  <2> QED  BY <2>1, <2>2
<1> QED  BY <1>1, <1>2, PTL DEF UploadSpec

\* Every variable stays of its type; in particular no number is higher than there are uploads.
THEOREM UploadTypeCorrect == ASSUME UploadAssumption PROVE UploadSpec => []UploadTypeOK
<1>1. UploadInv => UploadTypeOK  BY DEF UploadInv
<1> QED  BY <1>1, UploadInvariance, PTL

\* A pending build is never left without a task, or an upload that will give it one or delete
\* it, whatever fails and whoever deletes its project - unless the process dies, or a statement
\* fails that nobody is left to repeat.
THEOREM NoBuildForgotten == ASSUME UploadAssumption PROVE UploadSpec => []PendingIsOwned
<1>1. UploadInv => PendingIsOwned  BY DEF UploadInv, Sound, OwnedInv, PendingIsOwned
<1> QED  BY <1>1, UploadInvariance, PTL

\* What a worker claims is complete, and stays complete as long as the task is there: nothing,
\* not the late purge of a deleted project either, takes the row, the tarball or the status'
\* id away from it, unless a reset of its token has brought the project back.
THEOREM ClaimsAreServable == ASSUME UploadAssumption PROVE UploadSpec => []TaskIsServable
<1>1. UploadInv => TaskIsServable  BY DEF UploadInv, Sound, ServedInv, TaskIsServable
<1> QED  BY <1>1, UploadInvariance, PTL

\* An upload that gives up on its number has let MaxTries others by.
THEOREM NobodyStarves == ASSUME UploadAssumption PROVE UploadSpec => []GivesUpLast
<1>1. UploadInv => GivesUpLast  BY DEF UploadInv
<1> QED  BY <1>1, UploadInvariance, PTL

\* Both together: no upload leaves a build half done (upload.ts).
THEOREM UploadsLeaveWhole == ASSUME UploadAssumption PROVE UploadSpec => []UploadsAreWhole
<1>1. PendingIsOwned /\ TaskIsServable => UploadsAreWhole  BY DEF UploadsAreWhole
<1> QED  BY <1>1, NoBuildForgotten, ClaimsAreServable, PTL

----------------------------------------------------------------------------
(***************************************************************************)
(* BuildReview, and its inductive invariant.  Each writer works on a copy  *)
(* it loaded some steps ago; so what is said of the row must be said of    *)
(* the copies too, of the columns a save has found to differ, and of the   *)
(* step a verdict must have passed to be where it is.                      *)
(***************************************************************************)

\* The steps of each kind of writer.
WorkerSteps  == {"idle", "start", "select", "update", "render", "settle", "post", "over"}
SweeperSteps == {"idle", "guarded", "clear", "post", "over"}
HandlerSteps == {"idle", "asked", "select", "update", "post", "over"}
Saving       == {"select", "update"}
StepInv ==
  /\ stage["worker"] \in WorkerSteps /\ stage["sweeper"] \in SweeperSteps
  /\ \A h \in Handlers : /\ stage[h] \in HandlerSteps
                         /\ stage[h] = "post" => kind[h] # "merge"

\* What each writer's copy says at the steps where it is going to be written.
CopyInv ==
  /\ stage["worker"] \in Saving \cup {"post"} =>
       copy["worker"].status \in {"running", "failed"} \cup Results
  /\ stage["worker"] = "post" => copy["worker"].status # "running"
  /\ stage["sweeper"] = "guarded" => copy["sweeper"].status \in {"pending", "running"}
  /\ \A h \in Handlers :
       stage[h] \in Saving /\ kind[h] # "merge" => copy[h].status = given[h]

\* A verdict in the row was saved, and so was the one a handler is about to post, or does not
\* have to write because the row already had it.
SavedInv ==
  /\ row.status \in Verdicts => row.status \in saved
  /\ \A h \in Handlers :
       /\ stage[h] = "post" => given[h] \in saved
       /\ stage[h] = "update" /\ kind[h] # "merge" /\ "status" \notin patch[h] =>
            given[h] \in saved

\* Whoever could still write something that is no verdict over a verdict has a copy that is
\* older than it; but for the worker that is about to start the build.
StaleInv ==
  row.status \in Verdicts =>
    /\ \A h \in Handlers :
         stage[h] \in Saving /\ kind[h] = "merge" /\ copy[h].status \notin Verdicts => h \in stale
    /\ \/ stage["worker"] \in {"render", "settle"}
       \/ stage["worker"] \in Saving /\ copy["worker"].status # "running"
       \/ stage["worker"] = "update" /\ "status" \notin patch["worker"]
       => "worker" \in stale

\* A writer that has loaded the row and is not done.
Working(w) == stage[w] \notin {"idle", "asked", "over"}

\* One writer works at a time.
Alone == \A v, w \in Writers : Working(v) /\ Working(w) => v = w
\* The row and the commit, with the worker at each of its steps.
ResultInv ==
  /\ ~Written => check.verdict = "none" /\ row.status \notin Verdicts
  /\ Written => row.status \notin {"pending", "running"}
  /\ stage["worker"] \in Saving \cup {"render", "settle", "post"} => check.build = Waiting
  /\ stage["worker"] \in {"render", "settle"} => row.status = "running"
  /\ stage["worker"] = "post" => row.status = copy["worker"].status
  /\ stage["sweeper"] \in {"clear", "post"} => row.status = "failed" /\ check.verdict = "none"
  /\ Written /\ stage["sweeper"] # "post" /\ (\A h \in Handlers : stage[h] # "post") =>
       Fits(row.status)
\* The sweeper works on a build that the worker has yet to render, and a verdict is given on one
\* that it has rendered or that the sweeper has failed.
TurnInv ==
  /\ stage["sweeper"] \in {"guarded", "clear", "post"} => stage["worker"] # "over"
  /\ \A h \in Handlers :
       /\ stage[h] \in Saving /\ kind[h] = "merge" => copy[h].status = row.status
       /\ stage[h] \in Saving \cup {"post"} /\ kind[h] # "merge" => Written
       /\ stage[h] = "post" => row.status = given[h]
\* The patch is that of the row as it is.
PatchInv ==
  \A w \in Writers : stage[w] = "update" => ("status" \in patch[w] <=> copy[w].status # row.status)
\* All this as long as nobody has overlapped and nothing has failed.
CalmInv == ~muddled => Alone /\ ResultInv /\ TurnInv /\ PatchInv

ReviewInv == ReviewTypeOK /\ StepInv /\ CopyInv /\ SavedInv /\ StaleInv /\ ShownWasSaved /\ CalmInv

----------------------------------------------------------------------------
(* Types.                                                                  *)

\* What a save writes: a row, with the status of the copy where the SELECT found it to differ.
LEMMA PatchedIsRow ==
  ASSUME ReviewTypeOK, NEW w \in Writers
  PROVE  /\ Patched(w) \in Rows
         /\ Patched(w).status = IF "status" \in patch[w] THEN copy[w].status ELSE row.status
<1>1. copy[w] \in Rows /\ row \in Rows
  BY DEF ReviewTypeOK
<1> QED
  BY <1>1 DEF Patched, Rows

\* A step that a writer takes keeps the steps typed.
LEMMA GoesIsTyped ==
  ASSUME ReviewTypeOK, NEW w \in Writers, NEW to, Turns(w, to),
         to \in WorkerSteps \cup SweeperSteps \cup HandlerSteps
  PROVE  stage' \in [Writers -> {"idle", "start", "select", "update", "render", "settle", "post",
                                 "guarded", "clear", "asked", "over"}]
BY DEF ReviewTypeOK, Turns, WorkerSteps, SweeperSteps, HandlerSteps

\* A mishap keeps the count within its bound.
LEMMA MishapIsTyped ==
  ASSUME ReviewAssumption, ReviewTypeOK, Mishap, bound' = bound
  PROVE  mishaps' \in 0 .. bound'.mishaps /\ muddled' = TRUE
BY DEF ReviewAssumption, ReviewTypeOK, Mishap

\* What a write leaves in the row and in the two histories.
LEMMA WritesIsTyped ==
  ASSUME ReviewTypeOK, NEW w \in Writers, NEW new \in Rows, Writes(w, new)
  PROVE  row' \in Rows /\ stale' \in SUBSET Writers /\ saved' \in SUBSET Verdicts
BY DEF ReviewTypeOK, Writes, Busy

\* A post, or one that fails.
LEMMA TriesIsTyped ==
  ASSUME ReviewAssumption, ReviewTypeOK, NEW s \in {"queued", "running", "failed", "success"},
         Tries(s), bound' = bound
  PROVE  /\ check' \in [build : {"queued", "running", "failed", "success"},
                        verdict : Verdicts \cup {"none"}]
         /\ mishaps' \in 0 .. bound'.mishaps /\ muddled' \in BOOLEAN
<1>1. CASE Tells(s) /\ UNCHANGED <<mishaps, muddled>>
  BY <1>1 DEF ReviewTypeOK, Tells
<1>2. CASE Mishap /\ UNCHANGED check
  BY <1>2, MishapIsTyped DEF ReviewTypeOK
<1> QED
  BY <1>1, <1>2 DEF Tries

\* Starting, the worker and the sweeper load the row.
LEMMA LoadsIsTyped ==
  ASSUME ReviewTypeOK, NEW w \in Writers, Loads(w)
  PROVE  copy' \in [Writers -> Rows] /\ stale' \in SUBSET Writers /\ muddled' \in BOOLEAN
BY DEF ReviewTypeOK, Loads

\* What is forgotten is blank.
LEMMA ForgetIsTyped ==
  ASSUME ReviewTypeOK, NEW w \in Writers, Forget(w)
  PROVE  copy' \in [Writers -> Rows] /\ patch' \in [Writers -> SUBSET {"status", "mr"}]
<1>1. Blank \in Rows
  BY DEF Blank, Rows, Statuses
<1> QED
  BY <1>1 DEF ReviewTypeOK, Forget

\* The worker and the sweeper are writers, and no handler is one of them.
LEMMA TheWriters ==
  ASSUME ReviewAssumption
  PROVE  /\ "worker" \in Writers /\ "sweeper" \in Writers /\ Handlers \subseteq Writers
         /\ "worker" \notin Handlers /\ "sweeper" \notin Handlers
         /\ \A w \in Writers : w \in Handlers \/ w = "worker" \/ w = "sweeper"
BY DEF ReviewAssumption, Writers

\* A behaviour starts typed.
LEMMA InitType == ASSUME ReviewAssumption, ReviewInit PROVE ReviewTypeOK
<1>1. Blank \in Rows
  BY DEF Blank, Rows, Statuses
<1>2. stage \in [Writers -> {"idle", "over"}]
  BY DEF ReviewInit
<1>3. 0 \in 0 .. bound.starts /\ 0 \in 0 .. bound.mishaps
  BY DEF ReviewInit, ReviewAssumption
<1> QED
  BY <1>1, <1>2, <1>3 DEF ReviewInit, ReviewTypeOK

\* A writer's step is typed.
LEMMA SelectsType ==
  ASSUME ReviewAssumption, ReviewTypeOK, NEW w \in Writers, Selects(w)
  PROVE  ReviewTypeOK'
<1>1. patch' \in [Writers -> SUBSET {"status", "mr"}]
  BY DEF Selects, ReviewTypeOK
<1>2. Turns(w, "update")
  BY DEF Selects
<1> QED
  BY <1>1, <1>2, GoesIsTyped DEF Selects, ReviewTypeOK, setting, asked, HandlerSteps

\* Each step of the worker is typed.
LEMMA WorkerType ==
  ASSUME ReviewAssumption, ReviewTypeOK, Worker
  PROVE  ReviewTypeOK'
<1> USE TheWriters DEF setting, asked
<1>1. CASE WorkerStarts
  <2>1. starts' \in 0 .. bound'.starts
    BY <1>1 DEF WorkerStarts, ReviewTypeOK, ReviewAssumption
  <2> QED
    BY <1>1, <2>1, LoadsIsTyped, GoesIsTyped DEF WorkerStarts, ReviewTypeOK, WorkerSteps
<1>2. CASE WorkerTellsStart
  <2>1. copy' \in [Writers -> Rows]
    BY <1>2 DEF WorkerTellsStart, ReviewTypeOK, Rows, Statuses
  <2> QED
    BY <1>2, <2>1, TriesIsTyped, GoesIsTyped
       DEF WorkerTellsStart, ReviewTypeOK, WorkerSteps, Waiting
<1>3. CASE WorkerSaves
  <2>1. Turns("worker", "render") \/ Turns("worker", "post")
    BY <1>3 DEF WorkerSaves
  <2>2. stage' \in [Writers -> {"idle", "start", "select", "update", "render", "settle", "post",
                                "guarded", "clear", "asked", "over"}]
    BY <2>1, GoesIsTyped DEF WorkerSteps
  <2>3. patch' \in [Writers -> SUBSET {"status", "mr"}]
    BY <1>3 DEF WorkerSaves, ReviewTypeOK
  <2>4. row' \in Rows /\ stale' \in SUBSET Writers /\ saved' \in SUBSET Verdicts
    BY <1>3, PatchedIsRow, WritesIsTyped DEF WorkerSaves
  <2> QED
    BY <1>3, <2>2, <2>3, <2>4 DEF WorkerSaves, ReviewTypeOK
<1>4. CASE WorkerRenders
  <2>1. copy' \in [Writers -> Rows]
    BY <1>4 DEF WorkerRenders, ReviewTypeOK, Rows, Statuses, Results
  <2>2. Turns("worker", "select") \/ Turns("worker", "settle")
    BY <1>4 DEF WorkerRenders
  <2> QED
    BY <1>4, <2>1, <2>2, GoesIsTyped DEF WorkerRenders, ReviewTypeOK, WorkerSteps
<1>5. CASE Reconciles
  <2>1. copy' \in [Writers -> Rows] /\ row' \in Rows
        /\ stale' \in SUBSET Writers /\ saved' \in SUBSET Verdicts
    <3>1. CASE UNCHANGED <<row, copy, stale, saved>>
      BY <3>1 DEF ReviewTypeOK
    <3>2. ASSUME NEW s \in Results, copy' = [copy EXCEPT !["worker"].status = s],
                 Writes("worker", [row EXCEPT !.status = s])
          PROVE  copy' \in [Writers -> Rows] /\ row' \in Rows
                 /\ stale' \in SUBSET Writers /\ saved' \in SUBSET Verdicts
      <4>1. [row EXCEPT !.status = s] \in Rows /\ copy' \in [Writers -> Rows]
        BY <3>2 DEF ReviewTypeOK, Rows, Statuses
      <4> QED
        BY <3>2, <4>1, WritesIsTyped
    <3> QED
      BY <1>5, <3>1, <3>2 DEF Reconciles
  <2>2. Turns("worker", "post") \/ Turns("worker", "over")
    BY <1>5 DEF Reconciles
  <2> QED
    BY <1>5, <2>1, <2>2, GoesIsTyped DEF Reconciles, ReviewTypeOK, WorkerSteps
<1>6. CASE WorkerPosts
  <2>1. /\ check' \in [build : {"queued", "running", "failed", "success"},
                       verdict : Verdicts \cup {"none"}]
        /\ mishaps' \in 0 .. bound'.mishaps /\ muddled' \in BOOLEAN
    BY <1>6, TriesIsTyped DEF WorkerPosts, Concludes, ReviewTypeOK, Waiting
  <2>2. Turns("worker", "over") \/ Turns("worker", "idle")
    BY <1>6 DEF WorkerPosts
  <2> QED
    BY <1>6, <2>1, <2>2, ForgetIsTyped, GoesIsTyped DEF WorkerPosts, ReviewTypeOK, WorkerSteps
<1>7. CASE WorkerDies
  <2>1. Turns("worker", "over") \/ Turns("worker", "idle")
    BY <1>7 DEF WorkerDies
  <2>2. stage' \in [Writers -> {"idle", "start", "select", "update", "render", "settle", "post",
                                "guarded", "clear", "asked", "over"}]
    BY <2>1, GoesIsTyped DEF WorkerSteps
  <2>3. mishaps' \in 0 .. bound'.mishaps /\ muddled' \in BOOLEAN
    BY <1>7, MishapIsTyped DEF WorkerDies
  <2> QED
    BY <1>7, <2>2, <2>3, ForgetIsTyped DEF WorkerDies, ReviewTypeOK
<1> QED
  BY <1>1, <1>2, <1>3, <1>4, <1>5, <1>6, <1>7 DEF Worker

\* So is each of the sweeper ...
LEMMA SweeperType ==
  ASSUME ReviewAssumption, ReviewTypeOK, Sweeper
  PROVE  ReviewTypeOK'
<1> USE TheWriters DEF setting, asked, SweeperSteps
<1>1. CASE SweeperLooks
  BY <1>1, LoadsIsTyped, GoesIsTyped DEF SweeperLooks, ReviewTypeOK
<1>2. CASE SweeperFails
  <2>1. Turns("sweeper", "clear") \/ Turns("sweeper", "idle")
    BY <1>2 DEF SweeperFails
  <2>2. [row EXCEPT !.status = "failed"] \in Rows
    BY DEF ReviewTypeOK, Rows, Statuses
  <2>3. row' \in Rows /\ stale' \in SUBSET Writers /\ saved' \in SUBSET Verdicts
    BY <1>2, <2>2, WritesIsTyped DEF SweeperFails, ReviewTypeOK
  <2> QED
    BY <1>2, <2>1, <2>3, ForgetIsTyped, GoesIsTyped DEF SweeperFails, ReviewTypeOK
<1>3. CASE SweeperClears
  BY <1>3, GoesIsTyped DEF SweeperClears, ReviewTypeOK
<1>4. CASE SweeperPosts
  BY <1>4, GoesIsTyped, TriesIsTyped DEF SweeperPosts, ReviewTypeOK
<1> QED
  BY <1>1, <1>2, <1>3, <1>4 DEF Sweeper

\* A handler that loads the row holds what it found, and its own column.
LEMMA AsksIsTyped ==
  ASSUME ReviewAssumption, ReviewTypeOK, NEW h \in Handlers, NEW found \in Rows,
         NEW early \in BOOLEAN, Asks(h, found, early)
  PROVE  ReviewTypeOK'
<1>1. copy' \in [Writers -> Rows] /\ stale' \in SUBSET Writers /\ muddled' \in BOOLEAN
  BY TheWriters DEF ReviewTypeOK, Asks
<1> QED
  BY <1>1, TheWriters, GoesIsTyped DEF Asks, ReviewTypeOK, setting, asked, HandlerSteps

\* ... and each of a handler.
LEMMA HandlerType ==
  ASSUME ReviewAssumption, ReviewTypeOK, NEW h \in Handlers, Handler(h)
  PROVE  ReviewTypeOK'
<1> USE TheWriters DEF setting, asked, HandlerSteps
<1>1. Judged(h) \in Rows /\ [row EXCEPT !.mr = TRUE] \in Rows /\ Early \in BOOLEAN
  BY DEF ReviewTypeOK, Judged, Rows, Statuses, Early, Written, Swept
<1>2. CASE GithubWebhook(h) \/ GitlabWebhook(h)
  BY <1>2, GoesIsTyped DEF GithubWebhook, GitlabWebhook, Routed, ReviewTypeOK
<1>3. CASE Drops(h)
  BY <1>3, GoesIsTyped DEF Drops, ReviewTypeOK
<1>4. CASE ApproveOrDeny(h) \/ GithubCheckRunRequestedAction(h) \/ HandleGitLabMergeRequest(h)
  BY <1>1, <1>3, <1>4, AsksIsTyped
  DEF ApproveOrDeny, GithubCheckRunRequestedAction, HandleGitLabMergeRequest
<1>5. CASE HandlerSaves(h)
  <2>1. Turns(h, "over") \/ Turns(h, "post")
    BY <1>5 DEF HandlerSaves
  <2>2. /\ row' \in Rows /\ stale' \in SUBSET Writers /\ saved' \in SUBSET Verdicts
        /\ mishaps' \in 0 .. bound'.mishaps /\ muddled' \in BOOLEAN
    BY <1>5, PatchedIsRow, WritesIsTyped, MishapIsTyped DEF HandlerSaves, ReviewTypeOK
  <2> QED
    BY <1>5, <2>1, <2>2, ForgetIsTyped, GoesIsTyped DEF HandlerSaves, ReviewTypeOK
<1>6. CASE HandlerPosts(h)
  <2>1. /\ check' \in [build : {"queued", "running", "failed", "success"},
                       verdict : Verdicts \cup {"none"}]
        /\ mishaps' \in 0 .. bound'.mishaps /\ muddled' \in BOOLEAN
    BY <1>6, MishapIsTyped DEF HandlerPosts, ReviewTypeOK
  <2> QED
    BY <1>6, <2>1, GoesIsTyped DEF HandlerPosts, ReviewTypeOK
<1> QED
  BY <1>2, <1>4, <1>5, <1>6 DEF Handler

\* So every step is.
LEMMA NextType ==
  ASSUME ReviewAssumption, ReviewTypeOK, [ReviewNext]_reviewVars
  PROVE  ReviewTypeOK'
<1>1. CASE UNCHANGED reviewVars
  BY <1>1 DEF ReviewTypeOK, reviewVars
<1> QED
  BY <1>1, SelectsType, WorkerType, SweeperType, HandlerType DEF ReviewNext

----------------------------------------------------------------------------
(* Steps and copies.                                                       *)

\* What a writer's step changes of the steps.
LEMMA GoesTo ==
  ASSUME ReviewTypeOK, NEW w \in Writers, NEW to, Turns(w, to)
  PROVE  stage'[w] = to /\ \A v \in Writers : v # w => stage'[v] = stage[v]
BY DEF ReviewTypeOK, Turns

\* Which writer makes a step, and where to.
LEMMA SelectsGoes ==
  ASSUME ReviewTypeOK, NEW w \in Writers, Selects(w)
  PROVE  /\ stage[w] = "select" /\ stage'[w] = "update"
         /\ \A v \in Writers : v # w => stage'[v] = stage[v]
BY GoesTo DEF Selects

\* The worker moves itself alone, from one of its steps to another.
LEMMA WorkerGoes ==
  ASSUME ReviewAssumption, ReviewTypeOK, StepInv, Worker
  PROVE  /\ stage'["worker"] \in WorkerSteps
         /\ \A v \in Writers : v # "worker" => stage'[v] = stage[v]
         /\ UNCHANGED <<kind, given>>
<1>1. \E to \in WorkerSteps : Turns("worker", to)
  BY DEF Worker, WorkerStarts, WorkerTellsStart, WorkerSaves, WorkerRenders, Reconciles,
         WorkerPosts, WorkerDies, WorkerSteps
<1>2. UNCHANGED <<kind, given>>
  BY DEF Worker, WorkerStarts, WorkerTellsStart, WorkerSaves, WorkerRenders, Reconciles,
         WorkerPosts, WorkerDies, asked
<1> QED
  BY <1>1, <1>2, GoesTo, TheWriters

\* So does the sweeper ...
LEMMA SweeperGoes ==
  ASSUME ReviewAssumption, ReviewTypeOK, StepInv, Sweeper
  PROVE  /\ stage'["sweeper"] \in SweeperSteps
         /\ \A v \in Writers : v # "sweeper" => stage'[v] = stage[v]
         /\ UNCHANGED <<kind, given>>
<1>1. \E to \in SweeperSteps : Turns("sweeper", to)
  BY DEF Sweeper, SweeperLooks, SweeperFails, SweeperClears, SweeperPosts, SweeperSteps
<1>2. UNCHANGED <<kind, given>>
  BY DEF Sweeper, SweeperLooks, SweeperFails, SweeperClears, SweeperPosts, asked
<1> QED
  BY <1>1, <1>2, GoesTo, TheWriters

\* ... and a handler; one of a merge request posts nothing.
LEMMA HandlerGoes ==
  ASSUME ReviewAssumption, ReviewTypeOK, StepInv, NEW h \in Handlers, Handler(h)
  PROVE  /\ stage'[h] \in HandlerSteps /\ (stage'[h] = "post" => kind[h] # "merge")
         /\ \A v \in Writers : v # h => stage'[v] = stage[v]
         /\ UNCHANGED <<kind, given>>
<1>1. \E to \in HandlerSteps : Turns(h, to) /\ (to = "post" => kind[h] # "merge")
  BY DEF Handler, GithubWebhook, GitlabWebhook, Routed, ApproveOrDeny, Asks, Drops,
         GithubCheckRunRequestedAction, HandleGitLabMergeRequest, HandlerSaves, HandlerPosts,
         HandlerSteps
<1>2. UNCHANGED <<kind, given>>
  BY DEF Handler, GithubWebhook, GitlabWebhook, Routed, ApproveOrDeny, Asks, Drops,
         GithubCheckRunRequestedAction, HandleGitLabMergeRequest, HandlerSaves, HandlerPosts,
         asked
<1> QED
  BY <1>1, <1>2, GoesTo, TheWriters

\* Every writer stays at steps of its kind, and is asked what it was.
LEMMA NextSteps ==
  ASSUME ReviewAssumption, ReviewTypeOK, StepInv, [ReviewNext]_reviewVars
  PROVE  StepInv' /\ UNCHANGED <<kind, given>>
<1>1. CASE UNCHANGED reviewVars
  BY <1>1 DEF StepInv, reviewVars
<1>2. CASE Worker
  BY <1>2, WorkerGoes, TheWriters DEF StepInv
<1>3. CASE Sweeper
  BY <1>3, SweeperGoes, TheWriters DEF StepInv
<1>4. ASSUME NEW w \in Writers, Selects(w)
      PROVE  StepInv' /\ UNCHANGED <<kind, given>>
  <2>1. UNCHANGED <<kind, given>>
    BY <1>4 DEF Selects, asked
  <2>2. w # "sweeper"
    BY <1>4, SelectsGoes DEF StepInv, SweeperSteps
  <2> QED
    BY <1>4, <2>1, <2>2, SelectsGoes, TheWriters DEF StepInv, WorkerSteps, HandlerSteps
<1>5. ASSUME NEW h \in Handlers, Handler(h)
      PROVE  StepInv' /\ UNCHANGED <<kind, given>>
  BY <1>5, HandlerGoes, TheWriters DEF StepInv
<1> QED
  BY <1>1, <1>2, <1>3, <1>4, <1>5 DEF ReviewNext

\* A writer's step leaves the copies and patches of the others alone.
LEMMA WorkerCopies ==
  ASSUME ReviewAssumption, ReviewTypeOK, Worker
  PROVE  \A v \in Writers : v # "worker" => copy'[v] = copy[v] /\ patch'[v] = patch[v]
BY TheWriters
DEF ReviewTypeOK, Worker, WorkerStarts, WorkerTellsStart, WorkerSaves, WorkerRenders, Reconciles,
    WorkerPosts, WorkerDies, Loads, Forget

\* The sweeper changes its own copy alone.
LEMMA SweeperCopies ==
  ASSUME ReviewAssumption, ReviewTypeOK, Sweeper
  PROVE  \A v \in Writers : v # "sweeper" => copy'[v] = copy[v] /\ patch'[v] = patch[v]
BY TheWriters
DEF ReviewTypeOK, Sweeper, SweeperLooks, SweeperFails, SweeperClears, SweeperPosts, Loads, Forget

\* So does a handler.
LEMMA HandlerCopies ==
  ASSUME ReviewAssumption, ReviewTypeOK, NEW h \in Handlers, Handler(h)
  PROVE  \A v \in Writers : v # h => copy'[v] = copy[v] /\ patch'[v] = patch[v]
BY TheWriters
DEF ReviewTypeOK, Handler, GithubWebhook, GitlabWebhook, Routed, ApproveOrDeny, Asks, Drops,
    GithubCheckRunRequestedAction, HandleGitLabMergeRequest, HandlerSaves, HandlerPosts, Forget

\* A SELECT finds the columns that differ, and changes no copy.
LEMMA SelectsCopies ==
  ASSUME ReviewAssumption, ReviewTypeOK, NEW w \in Writers, Selects(w)
  PROVE  /\ \A v \in Writers : copy'[v] = copy[v] /\ (v # w => patch'[v] = patch[v])
         /\ "status" \in patch'[w] <=> copy[w].status # row.status
BY DEF ReviewTypeOK, Selects

\* What is in the copies that are about to be written.
LEMMA NextCopies ==
  ASSUME ReviewAssumption, ReviewTypeOK, StepInv, CopyInv, [ReviewNext]_reviewVars
  PROVE  CopyInv'
<1>1. CASE UNCHANGED reviewVars
  BY <1>1 DEF CopyInv, reviewVars
<1>2. CASE Worker
  <2>1. /\ copy'["sweeper"] = copy["sweeper"] /\ stage'["sweeper"] = stage["sweeper"]
        /\ \A h \in Handlers : copy'[h] = copy[h] /\ stage'[h] = stage[h]
        /\ UNCHANGED <<kind, given>>
    BY <1>2, WorkerCopies, WorkerGoes, TheWriters
  <2>2. /\ stage'["worker"] \in Saving \cup {"post"} =>
             copy'["worker"].status \in {"running", "failed"} \cup Results
        /\ stage'["worker"] = "post" => copy'["worker"].status # "running"
    <3> USE TheWriters, GoesTo
    <3>1. CASE WorkerStarts
      BY <3>1 DEF WorkerStarts, Saving
    <3>2. CASE WorkerTellsStart
      BY <3>2 DEF WorkerTellsStart, ReviewTypeOK, Rows
    <3>3. CASE WorkerSaves
      BY <3>3 DEF WorkerSaves, CopyInv, Saving
    <3>4. CASE WorkerRenders
      BY <3>4 DEF WorkerRenders, ReviewTypeOK, Rows, Saving
    <3>5. CASE Reconciles
      BY <3>5 DEF Reconciles, ReviewTypeOK, Rows, Saving, Results
    <3>6. CASE WorkerPosts \/ WorkerDies
      BY <3>6 DEF WorkerPosts, WorkerDies, Saving
    <3> QED
      BY <1>2, <3>1, <3>2, <3>3, <3>4, <3>5, <3>6 DEF Worker
  <2> QED
    BY <2>1, <2>2 DEF CopyInv
<1>3. CASE Sweeper
  <2>1. /\ copy'["worker"] = copy["worker"] /\ stage'["worker"] = stage["worker"]
        /\ \A h \in Handlers : copy'[h] = copy[h] /\ stage'[h] = stage[h]
        /\ UNCHANGED <<kind, given>>
    BY <1>3, SweeperCopies, SweeperGoes, TheWriters
  <2>2. stage'["sweeper"] = "guarded" => copy'["sweeper"].status \in {"pending", "running"}
    BY <1>3, TheWriters, GoesTo
    DEF Sweeper, SweeperLooks, SweeperFails, SweeperClears, SweeperPosts, Loads, ReviewTypeOK
  <2> QED
    BY <2>1, <2>2 DEF CopyInv
<1>4. ASSUME NEW w \in Writers, Selects(w)
      PROVE  CopyInv'
  <2>1. UNCHANGED <<kind, given, copy>>
    BY <1>4 DEF Selects, asked
  <2> QED
    BY <1>4, <2>1, SelectsGoes, TheWriters DEF CopyInv, Saving
<1>5. ASSUME NEW h \in Handlers, Handler(h)
      PROVE  CopyInv'
  <2>1. /\ \A v \in Writers : v # h => copy'[v] = copy[v] /\ stage'[v] = stage[v]
        /\ UNCHANGED <<kind, given>>
    BY <1>5, HandlerCopies, HandlerGoes
  <2>2. stage'[h] \in Saving /\ kind[h] # "merge" => copy'[h].status = given[h]
    <3>1. Judged(h).status = given[h]
      BY DEF Judged, ReviewTypeOK, Rows
    <3> QED
      BY <1>5, <3>1, TheWriters, GoesTo
      DEF Handler, GithubWebhook, GitlabWebhook, Routed, ApproveOrDeny, Asks, Drops, ReviewTypeOK,
          GithubCheckRunRequestedAction, HandleGitLabMergeRequest, HandlerSaves, HandlerPosts,
          Saving
  <2> QED
    BY <2>1, <2>2, TheWriters DEF CopyInv
<1> QED
  BY <1>1, <1>2, <1>3, <1>4, <1>5 DEF ReviewNext

----------------------------------------------------------------------------
(* What was saved, and whose copy is too old.                              *)

\* What a write leaves.
LEMMA WritesLeaves ==
  ASSUME ReviewTypeOK, NEW w \in Writers, NEW new \in Rows, Writes(w, new)
  PROVE  /\ row' = new /\ saved \subseteq saved' /\ stale \subseteq stale'
         /\ new.status \in Verdicts /\ new.status # row.status =>
              new.status \in saved' /\ Busy \ {w} \subseteq stale'
BY DEF Writes, ReviewTypeOK

\* A step in which w may write the row.
ReviewSteps(w) ==
  /\ saved \subseteq saved' /\ stale \ {w} \subseteq stale'
  /\ row'.status \in Verdicts /\ row'.status # row.status =>
       row'.status \in saved' /\ Busy \ {w} \subseteq stale'

\* The worker writes the row so.
LEMMA WorkerWrites ==
  ASSUME ReviewAssumption, ReviewTypeOK, Worker
  PROVE  ReviewSteps("worker")
<1> USE TheWriters
<1>1. CASE WorkerSaves
  BY <1>1, PatchedIsRow, WritesLeaves DEF WorkerSaves, ReviewSteps
<1>2. CASE Reconciles
  <2>1. ASSUME NEW s \in Results, Writes("worker", [row EXCEPT !.status = s])
        PROVE  ReviewSteps("worker")
    <3>1. [row EXCEPT !.status = s] \in Rows
      BY DEF ReviewTypeOK, Rows, Statuses
    <3> QED
      BY <2>1, <3>1, WritesLeaves DEF ReviewSteps
  <2> QED
    BY <1>2, <2>1 DEF Reconciles, ReviewSteps
<1>3. CASE WorkerStarts
  BY <1>3 DEF WorkerStarts, Loads, ReviewSteps
<1>4. CASE WorkerTellsStart \/ WorkerRenders \/ WorkerPosts \/ WorkerDies
  BY <1>4 DEF WorkerTellsStart, WorkerRenders, WorkerPosts, WorkerDies, ReviewSteps
<1> QED
  BY <1>1, <1>2, <1>3, <1>4 DEF Worker

\* The sweeper never writes a verdict.
LEMMA SweeperWrites ==
  ASSUME ReviewAssumption, ReviewTypeOK, Sweeper
  PROVE  ReviewSteps("sweeper") /\ (row'.status \in Verdicts => row' = row)
<1>1. /\ [row EXCEPT !.status = "failed"] \in Rows
      /\ [row EXCEPT !.status = "failed"].status = "failed"
  BY DEF ReviewTypeOK, Rows, Statuses
<1>2. CASE SweeperFails
  BY <1>1, <1>2, WritesLeaves, TheWriters DEF SweeperFails, ReviewSteps, Verdicts
<1>3. CASE SweeperLooks \/ SweeperClears \/ SweeperPosts
  BY <1>3 DEF SweeperLooks, SweeperClears, SweeperPosts, Loads, ReviewSteps
<1> QED
  BY <1>2, <1>3 DEF Sweeper

\* A handler writes the row so, too.
LEMMA HandlerWrites ==
  ASSUME ReviewAssumption, ReviewTypeOK, NEW h \in Handlers, Handler(h)
  PROVE  ReviewSteps(h)
<1>1. CASE HandlerSaves(h)
  BY <1>1, PatchedIsRow, WritesLeaves, TheWriters DEF HandlerSaves, ReviewSteps
<1>2. CASE ~HandlerSaves(h)
  BY <1>2
  DEF Handler, GithubWebhook, GitlabWebhook, Routed, ApproveOrDeny, Asks, Drops, ReviewSteps,
      GithubCheckRunRequestedAction, HandleGitLabMergeRequest, HandlerPosts
<1> QED
  BY <1>1, <1>2

\* What a write by h leaves: the verdict that was asked for, or the status as it was found.
LEMMA SavedByHandler ==
  ASSUME ReviewAssumption, ReviewTypeOK, CopyInv, SavedInv, NEW h \in Handlers, HandlerSaves(h),
         stage'[h] = "post"
  PROVE  given[h] \in saved' /\ kind[h] # "merge"
<1> USE TheWriters
<1>1. kind[h] # "merge" /\ Writes(h, Patched(h)) /\ given[h] \in Verdicts /\ stage[h] = "update"
  BY GoesTo DEF HandlerSaves, ReviewTypeOK
<1>2. copy[h].status = given[h]
  BY <1>1 DEF CopyInv, Saving
<1>3. CASE "status" \in patch[h]
  BY <1>1, <1>2, <1>3, PatchedIsRow, WritesLeaves DEF SavedInv
<1>4. CASE "status" \notin patch[h]
  BY <1>1, <1>4, PatchedIsRow, WritesLeaves DEF SavedInv
<1> QED
  BY <1>1, <1>3, <1>4

\* Verdicts on the commit come from handlers that saved them.
LEMMA NextChecks ==
  ASSUME ReviewAssumption, ReviewTypeOK, [ReviewNext]_reviewVars
  PROVE  \/ check'.verdict \in {check.verdict, "none"}
         \/ \E h \in Handlers : stage[h] = "post" /\ check'.verdict = given[h]
<1>1. CASE UNCHANGED reviewVars
  BY <1>1 DEF reviewVars
<1>2. CASE Worker
  BY <1>2
  DEF Worker, WorkerStarts, WorkerTellsStart, WorkerSaves, WorkerRenders, Reconciles,
      WorkerPosts, WorkerDies, Concludes, Tries, Tells
<1>3. CASE Sweeper
  BY <1>3 DEF Sweeper, SweeperLooks, SweeperFails, SweeperClears, SweeperPosts, Tries, Tells
<1>4. ASSUME NEW w \in Writers, Selects(w)
      PROVE  check' = check
  BY <1>4 DEF Selects
<1>5. ASSUME NEW h \in Handlers, Handler(h)
      PROVE  check' = check \/ (stage[h] = "post" /\ check'.verdict = given[h])
  BY <1>5
  DEF Handler, GithubWebhook, GitlabWebhook, Routed, ApproveOrDeny, Asks, Drops, ReviewTypeOK,
      GithubCheckRunRequestedAction, HandleGitLabMergeRequest, HandlerSaves, HandlerPosts
<1> QED
  BY <1>1, <1>2, <1>3, <1>4, <1>5 DEF ReviewNext

\* Saved verdicts stay known, and the commit shows no other.
LEMMA NextSaved ==
  ASSUME ReviewAssumption, ReviewTypeOK, StepInv, CopyInv, SavedInv, ShownWasSaved,
         [ReviewNext]_reviewVars
  PROVE  SavedInv' /\ ShownWasSaved'
<1>1. UNCHANGED <<kind, given>>
  BY NextSteps
<1>2. saved \subseteq saved' /\ (row'.status \in Verdicts => row'.status \in saved')
  <2>1. ASSUME NEW w, ReviewSteps(w)
        PROVE  saved \subseteq saved' /\ (row'.status \in Verdicts => row'.status \in saved')
    BY <2>1 DEF ReviewSteps, SavedInv
  <2>2. CASE UNCHANGED <<row, saved>>
    BY <2>2 DEF SavedInv
  <2> QED
    BY <2>1, <2>2, WorkerWrites, SweeperWrites, HandlerWrites DEF ReviewNext, reviewVars, Selects
<1>3. ShownWasSaved'
  BY <1>1, <1>2, NextChecks DEF ShownWasSaved, SavedInv
<1>4. ASSUME NEW h \in Handlers
      PROVE  /\ stage'[h] = "post" => given[h] \in saved'
             /\ stage'[h] = "update" /\ kind[h] # "merge" /\ "status" \notin patch'[h] =>
                  given[h] \in saved'
  <2>1. CASE stage'[h] = stage[h] /\ patch'[h] = patch[h]
    BY <1>2, <2>1 DEF SavedInv
  <2>2. CASE Selects(h)
    <3>1. stage[h] = "select" /\ stage'[h] = "update"
          /\ ("status" \notin patch'[h] => copy[h].status = row.status)
      BY <2>2, SelectsGoes, SelectsCopies, TheWriters
    <3> QED
      BY <1>2, <3>1 DEF SavedInv, CopyInv, Saving, ReviewTypeOK
  <2>3. CASE Handler(h)
    <3>1. stage'[h] # "update"
      BY <2>3, GoesTo, TheWriters
      DEF Handler, GithubWebhook, GitlabWebhook, Routed, ApproveOrDeny, Asks, Drops, ReviewTypeOK,
          GithubCheckRunRequestedAction, HandleGitLabMergeRequest, HandlerSaves, HandlerPosts
    <3>2. stage'[h] = "post" => HandlerSaves(h)
      BY <2>3, GoesTo, TheWriters
      DEF Handler, GithubWebhook, GitlabWebhook, Routed, ApproveOrDeny, Asks, Drops, ReviewTypeOK,
          GithubCheckRunRequestedAction, HandleGitLabMergeRequest, HandlerPosts
    <3> QED
      BY <3>1, <3>2, SavedByHandler
  <2>4. CASE UNCHANGED reviewVars
    BY <2>1, <2>4 DEF reviewVars
  <2> QED
    BY <2>1, <2>2, <2>3, <2>4, WorkerGoes, WorkerCopies, SweeperGoes, SweeperCopies, SelectsGoes,
       SelectsCopies, HandlerGoes, HandlerCopies, TheWriters DEF ReviewNext
<1> QED
  BY <1>1, <1>2, <1>3, <1>4 DEF SavedInv

\* The writers that could still put something that is no verdict in the row, whatever is there.
MergeDanger(h) == stage[h] \in Saving /\ kind[h] = "merge" /\ copy[h].status \notin Verdicts
WorkerDanger ==
  \/ stage["worker"] \in {"render", "settle"}
  \/ stage["worker"] \in Saving /\ copy["worker"].status # "running"
  \/ stage["worker"] = "update" /\ "status" \notin patch["worker"]

\* The invariant, in these words.
LEMMA StaleInvIs ==
  StaleInv <=> (row.status \in Verdicts =>
                  /\ \A h \in Handlers : MergeDanger(h) => h \in stale
                  /\ WorkerDanger => "worker" \in stale)
BY DEF StaleInv, MergeDanger, WorkerDanger

\* A writer that stands still while w makes a step is told of a verdict by the history.
LEMMA StandsStill ==
  ASSUME ReviewTypeOK, NEW w \in Writers, ReviewSteps(w), NEW v \in Writers, v # w,
         stage[v] \notin Resting, row.status \in Verdicts => v \in stale
  PROVE  row'.status \in Verdicts => v \in stale'
BY DEF ReviewSteps, Busy, ReviewTypeOK

\* The handlers while another writer makes a step.
LEMMA MergesStand ==
  ASSUME ReviewAssumption, ReviewTypeOK, StaleInv, NEW w \in Writers, ReviewSteps(w),
         NEW h \in Handlers, h # w, stage'[h] = stage[h], copy'[h] = copy[h],
         UNCHANGED kind, row'.status \in Verdicts, MergeDanger(h)'
  PROVE  h \in stale'
<1>1. MergeDanger(h) /\ stage[h] \notin Resting
  BY DEF MergeDanger, Saving, Resting
<1> QED
  BY <1>1, StandsStill, StaleInvIs, TheWriters

\* The worker while another writer makes a step.
LEMMA WorkerStands ==
  ASSUME ReviewAssumption, ReviewTypeOK, StaleInv, NEW w \in Writers, ReviewSteps(w), w # "worker",
         stage'["worker"] = stage["worker"], copy'["worker"] = copy["worker"],
         patch'["worker"] = patch["worker"], row'.status \in Verdicts, WorkerDanger'
  PROVE  "worker" \in stale'
<1>1. WorkerDanger /\ stage["worker"] \notin Resting
  BY DEF WorkerDanger, Saving, Resting
<1> QED
  BY <1>1, StandsStill, StaleInvIs, TheWriters

\* Nobody becomes dangerous by a step of its own, but with a copy that was too old before.
LEMMA WorkerNotSelf ==
  ASSUME ReviewAssumption, ReviewTypeOK, CopyInv, StaleInv, Worker,
         row'.status \in Verdicts, WorkerDanger'
  PROVE  "worker" \in stale'
<1> USE TheWriters, GoesTo DEF WorkerDanger, Saving
<1>1. CASE WorkerStarts
  BY <1>1 DEF WorkerStarts
<1>2. CASE WorkerTellsStart
  BY <1>2 DEF WorkerTellsStart, ReviewTypeOK, Rows
<1>3. CASE WorkerSaves
  <2>1. stage["worker"] = "update" /\ row' = Patched("worker") /\ stale \subseteq stale'
    BY <1>3, PatchedIsRow, WritesLeaves DEF WorkerSaves
  <2>2. "status" \notin patch["worker"]
    BY <2>1, PatchedIsRow DEF CopyInv, Verdicts, Results
  <2>3. row.status \in Verdicts
    BY <2>1, <2>2, PatchedIsRow
  <2> QED
    BY <2>1, <2>2, <2>3, StaleInvIs
<1>4. CASE WorkerRenders
  BY <1>4, StaleInvIs DEF WorkerRenders
<1>5. CASE Reconciles \/ WorkerPosts \/ WorkerDies
  BY <1>5 DEF Reconciles, WorkerPosts, WorkerDies
<1> QED
  BY <1>1, <1>2, <1>3, <1>4, <1>5 DEF Worker

\* A handler that loads a verdict holds a verdict.
LEMMA HandlerNotSelf ==
  ASSUME ReviewAssumption, ReviewTypeOK, NEW h \in Handlers, Handler(h), row'.status \in Verdicts
  PROVE  ~MergeDanger(h)'
<1> USE TheWriters, GoesTo DEF MergeDanger, Saving
<1>1. CASE GithubWebhook(h) \/ GitlabWebhook(h)
  BY <1>1 DEF GithubWebhook, GitlabWebhook, Routed
<1>2. CASE ApproveOrDeny(h) \/ GithubCheckRunRequestedAction(h)
  BY <1>2 DEF ApproveOrDeny, GithubCheckRunRequestedAction, Asks, Drops, asked
<1>3. CASE HandleGitLabMergeRequest(h)
  <2>1. [row EXCEPT !.mr = TRUE].status = row.status
    BY DEF ReviewTypeOK, Rows
  <2>2. CASE Asks(h, [row EXCEPT !.mr = TRUE], FALSE)
    <3>1. copy'[h] = [row EXCEPT !.mr = TRUE] /\ row' = row
      BY <2>2 DEF Asks, ReviewTypeOK
    <3> QED
      BY <2>1, <3>1
  <2>3. CASE Drops(h)
    BY <2>3 DEF Drops
  <2> QED
    BY <1>3, <2>2, <2>3 DEF HandleGitLabMergeRequest
<1>4. CASE HandlerSaves(h) \/ HandlerPosts(h)
  BY <1>4 DEF HandlerSaves, HandlerPosts
<1> QED
  BY <1>1, <1>2, <1>3, <1>4 DEF Handler

\* Copies that could undo a verdict are too old, after every step.
LEMMA NextStale ==
  ASSUME ReviewAssumption, ReviewTypeOK, StepInv, CopyInv, StaleInv, [ReviewNext]_reviewVars
  PROVE  StaleInv'
<1> SUFFICES ASSUME row'.status \in Verdicts
             PROVE  /\ \A h \in Handlers : MergeDanger(h)' => h \in stale'
                    /\ WorkerDanger' => "worker" \in stale'
  BY DEF StaleInv, MergeDanger, WorkerDanger
<1>0. UNCHANGED <<kind, given>>
  BY NextSteps
<1>1. CASE UNCHANGED reviewVars
  BY <1>1 DEF reviewVars, StaleInv, MergeDanger, WorkerDanger
<1>2. CASE Worker
  BY <1>0, <1>2, WorkerNotSelf, MergesStand, WorkerWrites, WorkerGoes, WorkerCopies, TheWriters
<1>3. CASE Sweeper
  BY <1>0, <1>3, WorkerStands, MergesStand, SweeperWrites, SweeperGoes, SweeperCopies, TheWriters
<1>4. ASSUME NEW w \in Writers, Selects(w)
      PROVE  /\ \A h \in Handlers : MergeDanger(h)' => h \in stale'
             /\ WorkerDanger' => "worker" \in stale'
  <2>1. row' = row /\ stale' = stale /\ copy' = copy
    BY <1>4 DEF Selects
  <2>2. ASSUME NEW h \in Handlers, MergeDanger(h)'
        PROVE  h \in stale'
    BY <1>0, <1>4, <2>1, <2>2, SelectsGoes, StaleInvIs, TheWriters DEF MergeDanger, Saving
  <2>3. ASSUME WorkerDanger'
        PROVE  "worker" \in stale'
    <3>1. CASE w # "worker"
      BY <1>4, <2>1, <2>3, <3>1, SelectsGoes, SelectsCopies, StaleInvIs, TheWriters
      DEF WorkerDanger
    <3>2. CASE w = "worker"
      <4>1. stage["worker"] = "select" /\ stage'["worker"] = "update"
            /\ ("status" \notin patch'["worker"] => copy["worker"].status = row.status)
        BY <1>4, <3>2, SelectsGoes, SelectsCopies
      <4>2. copy["worker"].status \notin Verdicts
        BY <4>1 DEF CopyInv, Saving, Verdicts, Results
      <4> QED
        BY <2>1, <2>3, <4>1, <4>2, StaleInvIs DEF WorkerDanger, Saving
    <3> QED
      BY <3>1, <3>2
  <2> QED
    BY <2>2, <2>3
<1>5. ASSUME NEW h \in Handlers, Handler(h)
      PROVE  /\ \A g \in Handlers : MergeDanger(g)' => g \in stale'
             /\ WorkerDanger' => "worker" \in stale'
  BY <1>0, <1>5, HandlerNotSelf, WorkerStands, MergesStand, HandlerWrites, HandlerGoes,
     HandlerCopies, TheWriters
<1> QED
  BY <1>1, <1>2, <1>3, <1>4, <1>5 DEF ReviewNext

\* A verdict is undone by a copy that was too old, or by a worker that starts the build again.
LEMMA NextUndoes ==
  ASSUME ReviewAssumption, ReviewTypeOK, StepInv, CopyInv, StaleInv, [ReviewNext]_reviewVars,
         row.status \in Verdicts, row'.status \notin Verdicts
  PROVE  \/ \E w \in stale : Undoes(w)
         \/ Undoes("worker") /\ row'.status = "running"
<1> USE TheWriters
<1>1. CASE Worker
  <2>1. CASE WorkerSaves
    <3>1. Undoes("worker") /\ row' = Patched("worker")
      BY <2>1, GoesTo, PatchedIsRow, WritesLeaves DEF WorkerSaves, Undoes
    <3>2. row'.status = copy["worker"].status
      BY <3>1, PatchedIsRow
    <3>3. CASE copy["worker"].status # "running"
      BY <2>1, <3>1, <3>3, StaleInvIs DEF WorkerDanger, WorkerSaves, Saving
    <3> QED
      BY <3>1, <3>2, <3>3
  <2>2. CASE ~WorkerSaves
    BY <1>1, <2>2
    DEF Worker, WorkerStarts, WorkerTellsStart, WorkerRenders, Reconciles, WorkerPosts,
        WorkerDies, Verdicts
  <2> QED
    BY <2>1, <2>2
<1>2. CASE Sweeper
  BY <1>2 DEF Sweeper, SweeperLooks, SweeperFails, SweeperClears, SweeperPosts, CopyInv, Verdicts
<1>3. ASSUME NEW h \in Handlers, Handler(h)
      PROVE  \E w \in stale : Undoes(w)
  <2>1. HandlerSaves(h) /\ row' # row
    BY <1>3
    DEF Handler, GithubWebhook, GitlabWebhook, Routed, ApproveOrDeny, Asks, Drops,
        GithubCheckRunRequestedAction, HandleGitLabMergeRequest, HandlerPosts
  <2>2. Undoes(h) /\ stage[h] = "update"
    BY <2>1, GoesTo DEF HandlerSaves, Undoes
  <2>3. row' = Patched(h)
    BY <2>1, PatchedIsRow, WritesLeaves DEF HandlerSaves
  <2>4. row'.status = copy[h].status
    BY <2>3, PatchedIsRow
  <2>5. MergeDanger(h)
    BY <2>2, <2>4 DEF MergeDanger, CopyInv, Saving, ReviewTypeOK
  <2> QED
    BY <2>2, <2>5, StaleInvIs
<1> QED
  BY <1>1, <1>2, <1>3 DEF ReviewNext, Selects, reviewVars

----------------------------------------------------------------------------
(* One after another.                                                      *)

\* Who works, works alone.
LEMMA OthersRest ==
  ASSUME Alone, NEW w \in Writers, Working(w)
  PROVE  \A v \in Writers : v # w => ~Working(v)
BY DEF Alone

\* Who loads the row without a muddle, loads it when all others rest.
LEMMA LoadsAlone ==
  ASSUME NEW w \in Writers, ~(muddled \/ Busy \ {w} # {})
  PROVE  \A v \in Writers : v # w => ~Working(v)
BY DEF Busy, Resting, Working

\* When only the worker may be working, its own part is what matters.
LEMMA WorkerAlone ==
  ASSUME ReviewAssumption, \A v \in Writers : v # "worker" => ~Working(v), ResultInv,
         stage["worker"] = "update" =>
           ("status" \in patch["worker"] <=> copy["worker"].status # row.status)
  PROVE  Alone /\ ResultInv /\ TurnInv /\ PatchInv
BY TheWriters DEF Alone, TurnInv, PatchInv, Working, Saving

\* A step of the worker that muddles nothing.
LEMMA WorkerCalm ==
  ASSUME ReviewAssumption, ReviewTypeOK, StepInv, CopyInv, CalmInv, Worker, ~muddled'
  PROVE  Alone' /\ ResultInv' /\ TurnInv' /\ PatchInv'
<1> USE TheWriters, GoesTo DEF Saving
<1>1. ~muddled
  BY DEF Worker, WorkerStarts, WorkerTellsStart, WorkerSaves, WorkerRenders, Reconciles,
         WorkerPosts, WorkerDies, Concludes, Tries, Loads, Mishap, ReviewTypeOK
<1>2. Alone /\ ResultInv /\ TurnInv /\ PatchInv
  BY <1>1 DEF CalmInv
<1>3. \A v \in Writers : v # "worker" => ~Working(v)
  <2>1. CASE WorkerStarts
    BY <2>1, LoadsAlone DEF WorkerStarts, Loads
  <2>2. CASE Working("worker")
    BY <1>2, <2>2, OthersRest
  <2> QED
    BY <2>1, <2>2
    DEF Worker, WorkerTellsStart, WorkerSaves, WorkerRenders, Reconciles, WorkerPosts,
        WorkerDies, Working, Mishap
<1>4. \A v \in Writers : v # "worker" => ~Working(v)'
  BY <1>3, WorkerGoes DEF Working
<1>5. \A h \in Handlers : stage[h] # "post"
  BY <1>3 DEF Working
<1>6. Waiting' = Waiting
  BY DEF Worker, WorkerStarts, WorkerTellsStart, WorkerSaves, WorkerRenders, Reconciles,
         WorkerPosts, WorkerDies, Waiting, setting
<1>14. stage'["sweeper"] \notin {"clear", "post"}
  BY <1>4 DEF Working
<1>15. ~Written
  BY DEF Worker, WorkerStarts, WorkerTellsStart, WorkerSaves, WorkerRenders, Reconciles,
         WorkerPosts, WorkerDies, Mishap, Written
<1>16. Written' => stage'["worker"] \in {"over", "idle"}
  BY DEF Written
<1> SUFFICES /\ ResultInv'
             /\ stage'["worker"] = "update" =>
                  ("status" \in patch'["worker"] <=> copy'["worker"].status # row'.status)
  BY <1>4, WorkerAlone DEF Alone, TurnInv, PatchInv, Working
<1>7. CASE WorkerStarts
  BY <1>2, <1>7, <1>14, <1>15, <1>16 DEF WorkerStarts, ResultInv
<1>8. CASE WorkerTellsStart
  <2>1. Tells(Waiting)
    BY <1>8 DEF WorkerTellsStart, Tries, Mishap
  <2> QED
    BY <1>2, <1>6, <1>8, <1>14, <1>15, <1>16, <2>1 DEF WorkerTellsStart, Tells, ResultInv
<1>9. CASE WorkerSaves
  <2>1. row' = Patched("worker")
    BY <1>9, PatchedIsRow, WritesLeaves DEF WorkerSaves
  <2>2. row'.status = copy["worker"].status
    BY <1>2, <1>9, <2>1, PatchedIsRow DEF PatchInv, WorkerSaves
  <2> QED
    BY <1>2, <1>6, <1>9, <1>14, <1>15, <1>16, <2>2
    DEF WorkerSaves, ResultInv, CopyInv, Results, Verdicts
<1>10. CASE WorkerRenders
  BY <1>2, <1>6, <1>10, <1>14, <1>15, <1>16 DEF WorkerRenders, ResultInv
<1>11. CASE Reconciles
  <2>1. PICK s \in Results : copy' = [copy EXCEPT !["worker"].status = s]
                             /\ Writes("worker", [row EXCEPT !.status = s])
    BY <1>2, <1>11 DEF Reconciles, ResultInv
  <2>2. row'.status = s /\ copy'["worker"].status = s
    BY <2>1 DEF Writes, ReviewTypeOK, Rows
  <2>3. stage'["worker"] = "post"
    BY <1>2, <1>11 DEF Reconciles, ResultInv
  <2> QED
    BY <1>2, <1>6, <1>11, <1>14, <1>15, <1>16, <2>2, <2>3
    DEF Reconciles, ResultInv, Results, Verdicts
<1>12. CASE WorkerPosts
  <2>1. row' = row /\ row.status \in {"failed"} \cup Results /\ row.status = copy["worker"].status
    BY <1>2, <1>12 DEF WorkerPosts, ResultInv, CopyInv
  <2>2. check'.verdict = "none"
    BY <1>2, <1>12, <1>15 DEF WorkerPosts, ResultInv, Concludes, Tries, Tells, Mishap
  <2>3. check'.build = CASE row.status = "no_changes" -> "success"
                         [] row.status = "failed" -> "failed" [] OTHER -> Waiting
    <3>1. check.build = Waiting
      BY <1>2, <1>12 DEF WorkerPosts, ResultInv
    <3>2. CASE row.status = "failed"
      BY <1>12, <2>1, <3>2 DEF WorkerPosts, Concludes, Tries, Tells, Mishap
    <3>3. CASE row.status = "no_changes"
      BY <1>12, <2>1, <3>3 DEF WorkerPosts, Concludes, Tries, Tells, Mishap
    <3>4. CASE row.status = "unapproved"
      BY <1>12, <2>1, <3>1, <3>4 DEF WorkerPosts, Concludes, Tries, Tells, Mishap
    <3> QED
      BY <2>1, <3>2, <3>3, <3>4 DEF Results
  <2>4. Fits(row.status)'
    BY <1>6, <2>1, <2>2, <2>3 DEF Fits, Results, Verdicts
  <2>5. stage'["worker"] \in {"over", "idle"}
    BY <1>12 DEF WorkerPosts
  <2> QED
    BY <1>14, <2>1, <2>2, <2>4, <2>5 DEF ResultInv, Results, Verdicts
<1>13. CASE WorkerDies
  BY <1>13 DEF WorkerDies, Mishap
<1> QED
  BY <1>7, <1>8, <1>9, <1>10, <1>11, <1>12, <1>13 DEF Worker

\* One of the sweeper: the worker is idle.
LEMMA SweeperCalm ==
  ASSUME ReviewAssumption, ReviewTypeOK, StepInv, CalmInv, Sweeper, ~muddled'
  PROVE  Alone' /\ ResultInv' /\ TurnInv' /\ PatchInv'
<1> USE TheWriters, GoesTo DEF Saving
<1>1. ~muddled
  BY DEF Sweeper, SweeperLooks, SweeperFails, SweeperClears, SweeperPosts, Tries, Loads, Mishap,
         ReviewTypeOK
<1>2. Alone /\ ResultInv /\ TurnInv /\ PatchInv
  BY <1>1 DEF CalmInv
<1>3. \A v \in Writers : v # "sweeper" => ~Working(v)
  <2>1. CASE SweeperLooks
    BY <2>1, LoadsAlone DEF SweeperLooks, Loads
  <2>2. CASE Working("sweeper")
    BY <1>2, <2>2, OthersRest
  <2> QED
    BY <2>1, <2>2 DEF Sweeper, SweeperFails, SweeperClears, SweeperPosts, Working
<1>4. \A v \in Writers : v # "sweeper" => ~Working(v)'
  BY <1>3, SweeperGoes DEF Working
<1>5. stage["worker"] = "idle" /\ stage'["worker"] = "idle"
  <2>1. stage["worker"] # "over"
    BY <1>2
    DEF Sweeper, SweeperLooks, SweeperFails, SweeperClears, SweeperPosts, ResultInv, TurnInv, Written
  <2> QED
    BY <1>3, <2>1, SweeperGoes DEF Working, StepInv, WorkerSteps
<1>6. stage'["sweeper"] # "update" /\ \A h \in Handlers : stage'[h] # "post"
  BY <1>4, SweeperGoes DEF SweeperSteps, Working
<1>7. ResultInv'
  <2>1. CASE SweeperLooks
    <3>1. ~Written /\ ~Written'
      BY <1>2, <1>5, <2>1 DEF SweeperLooks, ResultInv, Written, Swept
    <3> QED
      BY <1>2, <1>5, <2>1, <3>1 DEF SweeperLooks, ResultInv
  <2>2. CASE SweeperFails
    <3>1. ~Written /\ ~Written'
      BY <1>5, <2>2 DEF SweeperFails, Written, Swept
    <3>2. check' = check /\ check.verdict = "none" /\ row.status \notin Verdicts
      BY <1>2, <2>2, <3>1 DEF SweeperFails, ResultInv
    <3>3. \/ stage'["sweeper"] = "clear" /\ row'.status = "failed"
          \/ stage'["sweeper"] = "idle" /\ row' = row
      BY <2>2 DEF SweeperFails, Writes, ReviewTypeOK, Rows
    <3> QED
      BY <1>5, <3>1, <3>2, <3>3 DEF ResultInv, Verdicts
  <2>3. CASE SweeperClears
    <3>1. row' = row /\ check' = check /\ stage'["sweeper"] = "post"
          /\ row.status = "failed" /\ check.verdict = "none"
      BY <1>2, <2>3 DEF SweeperClears, ResultInv
    <3> QED
      BY <1>5, <3>1 DEF ResultInv, Verdicts
  <2>4. CASE SweeperPosts
    <3>1. row' = row /\ stage'["sweeper"] = "over" /\ row.status = "failed"
      BY <1>2, <2>4 DEF SweeperPosts, ResultInv
    <3>2. check'.build = "failed" /\ check'.verdict = "none"
      BY <1>2, <2>4 DEF SweeperPosts, ResultInv, Tries, Tells, Mishap
    <3> QED
      BY <1>5, <3>1, <3>2 DEF ResultInv, Verdicts, Fits
  <2> QED
    BY <2>1, <2>2, <2>3, <2>4 DEF Sweeper
<1> QED
  BY <1>4, <1>5, <1>6, <1>7 DEF Alone, TurnInv, PatchInv, Working

\* Whether the worker may still write depends on the worker and on the sweeper.
LEMMA WrittenStays ==
  ASSUME stage'["worker"] = stage["worker"], stage'["sweeper"] = stage["sweeper"], bound' = bound
  PROVE  Written' <=> Written
BY DEF Written, Swept, Coming

\* A SELECT: the patch is what it finds.
LEMMA SelectsCalm ==
  ASSUME ReviewAssumption, ReviewTypeOK, CalmInv, NEW w \in Writers, Selects(w), ~muddled'
  PROVE  Alone' /\ ResultInv' /\ TurnInv' /\ PatchInv'
<1>1. /\ UNCHANGED <<bound, row, copy, check, host, kind, given>>
      /\ Alone /\ ResultInv /\ TurnInv /\ PatchInv
  BY DEF Selects, CalmInv, setting, asked
<1>2. Alone'
  BY <1>1, SelectsGoes DEF Alone, Working
<1>6. Written' <=> Written
  BY <1>1, SelectsGoes, TheWriters DEF Written, Swept, Coming
<1>3. ResultInv'
  <2>1. stage["worker"] \in Saving <=> stage'["worker"] \in Saving
    BY SelectsGoes, TheWriters DEF Saving
  <2>2. \A s \in {"over", "render", "settle", "clear", "post"}, v \in Writers :
          stage'[v] = s <=> stage[v] = s
    BY SelectsGoes
  <2>3. Fits(row.status)' <=> Fits(row.status)
    BY <1>1 DEF Fits, Waiting
  <2> QED
    BY <1>1, <1>6, <2>1, <2>2, <2>3, TheWriters DEF ResultInv, Waiting
<1>4. TurnInv'
  BY <1>1, <1>6, SelectsGoes, TheWriters DEF TurnInv, Saving
<1>5. PatchInv'
  BY <1>1, SelectsGoes, SelectsCopies DEF PatchInv
<1> QED
  BY <1>2, <1>3, <1>4, <1>5

\* A request that is heard but loads nothing works on nothing.
LEMMA HeardCalm ==
  ASSUME ReviewAssumption, ReviewTypeOK, Alone, ResultInv, TurnInv, PatchInv, NEW h \in Handlers,
         stage[h] \in {"idle", "asked"}, stage'[h] \in {"asked", "over"},
         \A v \in Writers : v # h => stage'[v] = stage[v],
         UNCHANGED <<bound, host, row, copy, patch, kind, given, check>>
  PROVE  Alone' /\ ResultInv' /\ TurnInv' /\ PatchInv'
<1>1. Alone' /\ PatchInv'
  BY DEF Alone, PatchInv, Working
<1>6. Written' <=> Written
  BY TheWriters, WrittenStays
<1>2. TurnInv'
  BY <1>6, TheWriters DEF TurnInv, Saving
<1>3. (\A g \in Handlers : stage'[g] # "post") => (\A g \in Handlers : stage[g] # "post")
  BY TheWriters
<1>4. stage'["worker"] = stage["worker"] /\ stage'["sweeper"] = stage["sweeper"]
  BY TheWriters
<1>5. Fits(row.status)' <=> Fits(row.status)
  BY DEF Fits, Waiting
<1> QED
  BY <1>1, <1>2, <1>3, <1>4, <1>5, <1>6 DEF ResultInv, Waiting

\* One that loads the row holds it as it is.
LEMMA AsksCalm ==
  ASSUME ReviewAssumption, ReviewTypeOK, Alone, ResultInv, TurnInv, PatchInv, NEW h \in Handlers,
         NEW found \in Rows, NEW early \in BOOLEAN, Asks(h, found, early), ~muddled',
         stage[h] # "post",
         kind[h] = "merge" => found.status = row.status,
         kind[h] # "merge" /\ ~early => Written
  PROVE  Alone' /\ ResultInv' /\ TurnInv' /\ PatchInv'
<1> USE TheWriters
<1>1. /\ stage'[h] = "select" /\ \A v \in Writers : v # h => stage'[v] = stage[v]
      /\ copy'[h] = found
      /\ UNCHANGED <<bound, host, row, patch, kind, given, check>>
      /\ ~(muddled \/ Busy \ {h} # {} \/ early)
  <2>1. stage'[h] = "select" /\ \A v \in Writers : v # h => stage'[v] = stage[v]
    BY GoesTo DEF Asks
  <2>2. copy'[h] = found
    BY DEF Asks, ReviewTypeOK
  <2>3. UNCHANGED <<bound, host, row, patch, kind, given, check>>
    BY DEF Asks, setting, asked
  <2>4. ~(muddled \/ Busy \ {h} # {} \/ early)
    BY DEF Asks
  <2> QED
    BY <2>1, <2>2, <2>3, <2>4
<1>2. \A v \in Writers : v # h => ~Working(v) /\ ~Working(v)'
  BY <1>1, LoadsAlone DEF Working
<1>3. Alone' /\ PatchInv'
  BY <1>1, <1>2 DEF Alone, PatchInv, Working
<1>6. Written' <=> Written
  BY <1>1, WrittenStays
<1>4. TurnInv'
  <2>1. Written' \/ kind'[h] = "merge"
    BY <1>1, <1>6
  <2> QED
    BY <1>1, <1>2, <2>1 DEF TurnInv, Working, Saving
<1>5. ResultInv'
  <2>1. stage'["worker"] = stage["worker"] /\ stage["worker"] \in {"idle", "asked", "over"}
    BY <1>1, <1>2 DEF Working
  <2>2. \A g \in Handlers : stage[g] # "post"
    BY <1>2 DEF Working
  <2>3. Fits(row.status)' <=> Fits(row.status)
    BY <1>1 DEF Fits, Waiting
  <2>4. stage'["sweeper"] = stage["sweeper"] /\ stage["sweeper"] \notin {"clear", "post"}
    BY <1>1, <1>2 DEF Working
  <2> QED
    BY <1>1, <1>6, <2>1, <2>2, <2>3, <2>4 DEF ResultInv, Saving
<1> QED
  BY <1>3, <1>4, <1>5

\* A save, and a post, of a handler that is alone.
LEMMA SavesCalm ==
  ASSUME ReviewAssumption, ReviewTypeOK, CopyInv, Alone, ResultInv, TurnInv, PatchInv,
         NEW h \in Handlers, HandlerSaves(h), ~muddled'
  PROVE  Alone' /\ ResultInv' /\ TurnInv' /\ PatchInv'
<1> USE TheWriters
<1>1. /\ stage[h] = "update" /\ stage'[h] = IF kind[h] = "merge" THEN "over" ELSE "post"
      /\ \A v \in Writers : v # h => stage'[v] = stage[v]
      /\ row' = Patched(h) /\ UNCHANGED <<bound, host, kind, given, check>>
  BY GoesTo, PatchedIsRow, WritesLeaves DEF HandlerSaves, Mishap, setting, asked
<1>2. \A v \in Writers : v # h => ~Working(v) /\ ~Working(v)'
  BY <1>1, OthersRest DEF Working
<1>3. row'.status = IF kind[h] = "merge" THEN row.status ELSE given[h]
  BY <1>1, PatchedIsRow DEF PatchInv, TurnInv, CopyInv, Saving
<1>4. Alone' /\ PatchInv'
  BY <1>1, <1>2 DEF Alone, PatchInv, Working
<1>5. kind[h] # "merge" => Written
  BY <1>1 DEF TurnInv, Saving
<1>8. Written' <=> Written
  BY <1>1, WrittenStays
<1>6. TurnInv'
  BY <1>1, <1>2, <1>3, <1>5, <1>8 DEF TurnInv, Working, Saving
<1>7. ResultInv'
  <2>1. stage'["worker"] = stage["worker"] /\ stage["worker"] \in {"idle", "asked", "over"}
    BY <1>1, <1>2 DEF Working
  <2>2. \A g \in Handlers : stage[g] # "post"
    BY <1>1, <1>2 DEF Working
  <2>5. stage'["sweeper"] = stage["sweeper"] /\ stage["sweeper"] \notin {"clear", "post"}
    BY <1>1, <1>2 DEF Working
  <2>3. CASE kind[h] = "merge"
    <3>1. Fits(row.status)' <=> Fits(row.status)
      BY <1>1, <1>3, <2>3 DEF Fits, Waiting
    <3> QED
      BY <1>1, <1>3, <1>8, <2>1, <2>2, <2>3, <2>5, <3>1 DEF ResultInv, Saving
  <2>4. CASE kind[h] # "merge"
    BY <1>1, <1>3, <1>5, <1>8, <2>1, <2>4, <2>5 DEF ResultInv, Saving, ReviewTypeOK, Verdicts
  <2> QED
    BY <2>3, <2>4
<1> QED
  BY <1>4, <1>6, <1>7

\* After the post of a verdict the commit shows it.
LEMMA PostsCalm ==
  ASSUME ReviewAssumption, ReviewTypeOK, StepInv, Alone, ResultInv, TurnInv, PatchInv,
         NEW h \in Handlers, HandlerPosts(h), ~muddled'
  PROVE  Alone' /\ ResultInv' /\ TurnInv' /\ PatchInv'
<1> USE TheWriters
<1>1. /\ stage[h] = "post" /\ stage'[h] = "over"
      /\ \A v \in Writers : v # h => stage'[v] = stage[v]
      /\ check' = [check EXCEPT !.verdict = given[h]]
      /\ UNCHANGED <<bound, host, row, copy, patch, kind, given>>
  BY GoesTo DEF HandlerPosts, Mishap, setting, asked
<1>2. \A v \in Writers : v # h => ~Working(v) /\ ~Working(v)'
  BY <1>1, OthersRest DEF Working
<1>3. /\ Written' /\ Written
      /\ row.status = given[h] /\ check'.verdict = given[h] /\ given[h] \in Verdicts
  BY <1>1, WrittenStays DEF StepInv, TurnInv, ReviewTypeOK
<1>6. /\ stage'["worker"] \in {"idle", "asked", "over"}
      /\ stage'["sweeper"] \notin {"clear", "post"}
  BY <1>2 DEF Working
<1>4. Alone' /\ PatchInv' /\ TurnInv'
  BY <1>1, <1>2, <1>3 DEF Alone, PatchInv, TurnInv, Working, Saving
<1>5. Fits(row.status)'
  BY <1>1, <1>3 DEF Fits
<1> QED
  BY <1>1, <1>3, <1>4, <1>5, <1>6 DEF ResultInv, Saving, Verdicts

\* A step of a handler that muddles nothing.
LEMMA HandlerCalm ==
  ASSUME ReviewAssumption, ReviewTypeOK, StepInv, CopyInv, CalmInv, NEW h \in Handlers, Handler(h),
         ~muddled'
  PROVE  Alone' /\ ResultInv' /\ TurnInv' /\ PatchInv'
<1>1. ~muddled
  BY DEF Handler, GithubWebhook, GitlabWebhook, Routed, ApproveOrDeny, Asks, Drops, Mishap,
         ReviewTypeOK, GithubCheckRunRequestedAction, HandleGitLabMergeRequest, HandlerSaves, HandlerPosts
<1>2. Alone /\ ResultInv /\ TurnInv /\ PatchInv
  BY <1>1 DEF CalmInv
<1>3. CASE stage[h] \in {"idle", "asked"} /\ (Routed(h) \/ Drops(h))
  <2>1. stage'[h] \in {"asked", "over"} /\ \A v \in Writers : v # h => stage'[v] = stage[v]
    BY <1>3, GoesTo, TheWriters DEF Routed, Drops
  <2> QED
    BY <1>2, <1>3, <2>1, HeardCalm DEF Routed, Drops, setting, asked
<1>4. Judged(h) \in Rows /\ [row EXCEPT !.mr = TRUE] \in Rows /\ Early \in BOOLEAN
      /\ [row EXCEPT !.mr = TRUE].status = row.status
  BY DEF ReviewTypeOK, Judged, Rows, Statuses, Early, Written, Swept
<1>5. CASE GithubWebhook(h) \/ GitlabWebhook(h)
  BY <1>3, <1>5 DEF GithubWebhook, GitlabWebhook
<1>6. CASE ApproveOrDeny(h) \/ GithubCheckRunRequestedAction(h)
  <2>1. CASE Asks(h, Judged(h), Early)
    <3>1. kind[h] # "merge" /\ stage[h] # "post"
      BY <1>6 DEF ApproveOrDeny, GithubCheckRunRequestedAction
    <3> QED
      BY <1>2, <1>4, <2>1, <3>1, AsksCalm DEF Early
  <2> QED
    BY <1>3, <1>6, <2>1 DEF ApproveOrDeny, GithubCheckRunRequestedAction
<1>7. CASE HandleGitLabMergeRequest(h)
  <2>1. CASE Asks(h, [row EXCEPT !.mr = TRUE], FALSE)
    <3>1. kind[h] = "merge" /\ stage[h] # "post"
      BY <1>7 DEF HandleGitLabMergeRequest
    <3> QED
      BY <1>2, <1>4, <2>1, <3>1, AsksCalm
  <2> QED
    BY <1>3, <1>7, <2>1 DEF HandleGitLabMergeRequest
<1> QED
  BY <1>2, <1>5, <1>6, <1>7, SavesCalm, PostsCalm DEF Handler

\* Turns that do not overlap keep row and commit together.
LEMMA NextCalm ==
  ASSUME ReviewAssumption, ReviewTypeOK, StepInv, CopyInv, CalmInv, [ReviewNext]_reviewVars
  PROVE  CalmInv'
<1>1. CASE UNCHANGED reviewVars
  BY <1>1
  DEF reviewVars, setting, CalmInv, Alone, ResultInv, TurnInv, PatchInv, Working, Fits, Waiting,
      Written, Swept, Coming
<1> QED
  BY <1>1, WorkerCalm, SweeperCalm, SelectsCalm, HandlerCalm DEF ReviewNext, CalmInv

----------------------------------------------------------------------------
(* The theorems.                                                           *)

\* The invariant holds at the start.
LEMMA ReviewInitInv == ASSUME ReviewAssumption, ReviewInit PROVE ReviewInv
<1>1. ReviewTypeOK
  BY InitType
<1>2. \A w \in Writers : stage[w] \in {"idle", "over"}
  BY DEF ReviewInit
<1>3. stage["worker"] = "idle"
  BY TheWriters DEF ReviewInit, Coming
<1>4. StepInv
  BY <1>2, <1>3, TheWriters DEF StepInv, WorkerSteps, SweeperSteps, HandlerSteps
<1>5. CopyInv /\ Alone /\ TurnInv /\ PatchInv
  BY <1>2, TheWriters DEF CopyInv, Alone, TurnInv, PatchInv, Working, Saving
<1>6. row.status = "pending" /\ check.verdict = "none"
  BY DEF ReviewInit, Blank
<1> QED
  BY <1>1, <1>2, <1>3, <1>4, <1>5, <1>6, TheWriters
  DEF ReviewInv, SavedInv, StaleInv, ShownWasSaved, CalmInv, ResultInv, Saving, Verdicts, Written,
      Swept, Coming, ReviewInit

\* The invariant holds in every state, whoever writes and in whatever order.
THEOREM ReviewInvariance == ASSUME ReviewAssumption PROVE ReviewSpec => []ReviewInv
<1>1. ReviewInit => ReviewInv
  BY ReviewInitInv
<1>2. ReviewInv /\ [ReviewNext]_reviewVars => ReviewInv'
  BY NextType, NextSteps, NextCopies, NextSaved, NextStale, NextCalm DEF ReviewInv
<1> QED
  BY <1>1, <1>2, PTL DEF ReviewSpec

\* Every variable has its type.
THEOREM ReviewTypeCorrect == ASSUME ReviewAssumption PROVE ReviewSpec => []ReviewTypeOK
<1>1. ReviewInv => ReviewTypeOK
  BY DEF ReviewInv
<1> QED
  BY <1>1, ReviewInvariance, PTL

\* The commit shows only verdicts that were saved (approval.ts, webhooks.ts).
THEOREM ShownIsSaved == ASSUME ReviewAssumption PROVE ReviewSpec => []ShownWasSaved
<1>1. ReviewInv => ShownWasSaved
  BY DEF ReviewInv
<1> QED
  BY <1>1, ReviewInvariance, PTL

\* Writers that take turns leave the commit with the status of the row.
THEOREM ShownIsRow == ASSUME ReviewAssumption PROVE ReviewSpec => []ShownFollows
<1>1. ReviewInv => ShownFollows
  <2> SUFFICES ASSUME ReviewInv, ~muddled, Busy = {}, Written
               PROVE  Fits(row.status)
    BY DEF ShownFollows
  <2>1. stage["sweeper"] # "post" /\ \A h \in Handlers : stage[h] # "post"
    BY TheWriters DEF Busy, Resting, Writers
  <2> QED
    BY <2>1 DEF ReviewInv, CalmInv, ResultInv
<1> QED
  BY <1>1, ReviewInvariance, PTL

\* Both together: the commit shows what the row says (approval.ts, webhooks.ts, ingest.ts).
THEOREM CommitFollows == ASSUME ReviewAssumption PROVE ReviewSpec => []CommitShowsReview
<1>1. ShownWasSaved /\ ShownFollows => CommitShowsReview
  BY DEF CommitShowsReview
<1> QED
  BY <1>1, ShownIsSaved, ShownIsRow, PTL

\* A verdict gives way to something else only by a copy that is older than it, or where the
\* worker starts the build again (shard.ts, worker.ts).
THEOREM VerdictsLast == ASSUME ReviewAssumption PROVE ReviewSpec => UndoneOnlyByStaleCopy
<1>1. ReviewInv /\ [ReviewNext]_reviewVars =>
        [row.status \in Verdicts /\ row'.status \notin Verdicts =>
           \/ \E w \in stale : Undoes(w)
           \/ Undoes("worker") /\ row'.status = "running"]_reviewVars
  BY NextUndoes DEF ReviewInv
<1> QED
  BY <1>1, ReviewInvariance, PTL DEF ReviewSpec, UndoneOnlyByStaleCopy
================================================================================
