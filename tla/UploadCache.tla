----------------------------- MODULE UploadCache -----------------------------
(***************************************************************************)
(* The extracted uploads a worker keeps on its disk for the chunk tasks of *)
(* a build (worker/src/shard.ts, "Tarball download/extract + per-upload    *)
(* cache", extract.ts, download.ts).  A worker runs one chunk at a time;   *)
(* it may stop at any step and start again over the same disk.             *)
(***************************************************************************)
EXTENDS Naturals, Sequences, FiniteSets, SequencesExt

CONSTANTS
  UploadIds,
  ArchiveOf,      \* the entries of each upload's tarball, each with the class of its path,
                  \* its type and its size
  MaxFiles, MaxEntryBytes, MaxTotalBytes,   \* MAX_TARBALL_FILES and so on; 0 is no limit
  MaxDiskFaults   \* bound on failures and stops

Entries == [path : {"plain", "long", "outside"}, type : {"File", "Directory", "SymbolicLink"},
            link : {"plain", "outside"}, size : Nat]
\* What is assumed of the constants, where the module is instantiated.
ArchivesAssumption ==
  (\A u \in UploadIds : ArchiveOf[u] \in Seq(Entries)) /\ MaxDiskFaults \in Nat

VARIABLES
  stored,         \* uploads whose tarball is in S3
  disk,           \* what the cache directory of each upload holds
  chunk,          \* the upload of the chunk this worker runs, or none
  phase,          \* where ensureUploadExtracted is
  torn,           \* history: directories whose sweep did not finish
  diskFaults

cacheVars == <<stored, disk, chunk, phase, torn, diskFaults>>

NoUpload == "none"
Absent == [marker |-> FALSE, files |-> "none", stale |-> FALSE]
CacheTypeOK ==
  /\ stored \in SUBSET UploadIds
  /\ disk \in [UploadIds -> [marker : BOOLEAN, files : {"none", "some", "all"}, stale : BOOLEAN]]
  /\ chunk \in UploadIds \cup {NoUpload}
  /\ phase \in {"idle", "sweep", "look", "fetch", "unpack", "mark", "serve"}
  /\ torn \in SUBSET UploadIds /\ diskFaults \in 0 .. MaxDiskFaults

CacheInit ==
  /\ stored = UploadIds /\ disk = [u \in UploadIds |-> Absent] /\ chunk = NoUpload
  /\ phase = "idle" /\ torn = {} /\ diskFaults = 0

DiskFault == diskFaults < MaxDiskFaults /\ diskFaults' = diskFaults + 1

----------------------------------------------------------------------------
(* safeExtract: a filter over the entries that stops at the first it       *)
(* refuses.                                                                *)

FileLike(e) == e.type \in {"File", "SymbolicLink"}
RefusesPath(e) == e.path # "plain" \/ (e.type = "SymbolicLink" /\ e.link = "outside")
Over(n, limit) == limit > 0 /\ n > limit

Filter(acc, e) ==
  IF acc.violated THEN acc
  ELSE LET files == acc.files + 1
           bytes == acc.bytes + IF FileLike(e) THEN e.size ELSE 0 IN
       [files |-> files, bytes |-> bytes,
        violated |-> \/ RefusesPath(e) \/ Over(files, MaxFiles)
                     \/ FileLike(e) /\ (Over(e.size, MaxEntryBytes) \/ Over(bytes, MaxTotalBytes))]

SafeExtracts(entries) ==
  ~FoldLeft(Filter, [files |-> 0, bytes |-> 0, violated |-> FALSE], entries).violated

----------------------------------------------------------------------------
(* sweepStaleUploadCaches, at the start of every chunk.                    *)

ChunkStarts(u) ==
  /\ phase = "idle" /\ phase' = "sweep" /\ chunk' = u
  /\ UNCHANGED <<stored, disk, torn, diskFaults>>

\* A recursive removal; what fails is left for the next sweep, with or without its marker.  Its
\* directory was touched by the removal.
Sweeps(u) ==
  /\ phase = "sweep" /\ disk[u].stale
  /\ \/ disk' = [disk EXCEPT ![u] = Absent] /\ torn' = torn \ {u} /\ UNCHANGED diskFaults
     \/ /\ DiskFault /\ torn' = torn \cup {u}
        /\ \E m \in {FALSE, disk[u].marker} :
             disk' = [disk EXCEPT ![u] = [marker |-> m, files |-> "some", stale |-> FALSE]]
  /\ UNCHANGED <<stored, chunk, phase>>

SweepDone ==
  /\ phase = "sweep" /\ phase' = "look" /\ \A u \in UploadIds : ~disk[u].stale
  /\ UNCHANGED <<stored, disk, chunk, torn, diskFaults>>

----------------------------------------------------------------------------
(* ensureUploadExtracted.                                                  *)

\* A hit touches the marker; a miss removes what is there.
Looks ==
  /\ phase = "look"
  /\ IF disk[chunk].marker
     THEN phase' = "serve" /\ disk' = [disk EXCEPT ![chunk].stale = FALSE] /\ UNCHANGED torn
     ELSE phase' = "fetch" /\ disk' = [disk EXCEPT ![chunk] = Absent] /\ torn' = torn \ {chunk}
  /\ UNCHANGED <<stored, chunk, diskFaults>>

ChunkEnds == phase' = "idle" /\ chunk' = NoUpload

\* downloadAndExtractTarball: a tarball that is gone ends the task for good; a download that
\* times out, or breaks, ends this attempt.
Fetches ==
  /\ phase = "fetch" /\ chunk \in stored /\ phase' = "unpack"
  /\ UNCHANGED <<stored, disk, chunk, torn, diskFaults>>
FetchFails ==
  /\ phase = "fetch" /\ ChunkEnds
  /\ \/ chunk \notin stored /\ UNCHANGED diskFaults
     \/ DiskFault
  /\ UNCHANGED <<stored, disk, torn>>

\* Mistake: the marker is written when the extraction starts.
UnpacksMarked ==
  /\ phase = "unpack" /\ disk[chunk].files = "none"
  /\ disk' = [disk EXCEPT ![chunk].files = "some", ![chunk].marker = TRUE]
  /\ UNCHANGED <<stored, chunk, phase, torn, diskFaults>>
Unpacks ==
  /\ phase = "unpack" /\ disk[chunk].files = "none"
  /\ disk' = [disk EXCEPT ![chunk].files = "some"]
  /\ UNCHANGED <<stored, chunk, phase, torn, diskFaults>>

\* The whole upload is refused: what was written stays, and has no marker.
Unpacked ==
  /\ phase = "unpack" /\ disk[chunk].files = "some"
  /\ IF SafeExtracts(ArchiveOf[chunk])
     THEN phase' = "mark" /\ disk' = [disk EXCEPT ![chunk].files = "all"] /\ UNCHANGED chunk
     ELSE ChunkEnds /\ UNCHANGED disk
  /\ UNCHANGED <<stored, torn, diskFaults>>

Marks ==
  /\ phase = "mark" /\ phase' = "serve" /\ disk' = [disk EXCEPT ![chunk].marker = TRUE]
  /\ UNCHANGED <<stored, chunk, torn, diskFaults>>

ChunkOver ==
  /\ phase = "serve" /\ ChunkEnds /\ UNCHANGED <<stored, disk, torn, diskFaults>>

----------------------------------------------------------------------------

\* The process stops; a sweep it was in leaves a directory half removed (Sweeps).
Stops ==
  /\ phase # "idle" /\ DiskFault /\ ChunkEnds /\ UNCHANGED <<stored, disk, torn>>

\* UPLOAD_CACHE_TTL_MS without a touch.
GoesStale(u) ==
  /\ disk[u].files # "none" /\ ~disk[u].stale /\ disk' = [disk EXCEPT ![u].stale = TRUE]
  /\ UNCHANGED <<stored, chunk, phase, torn, diskFaults>>

\* Retention, or the deletion of the account.
TarballGoes(u) ==
  /\ u \in stored /\ DiskFault /\ stored' = stored \ {u}
  /\ UNCHANGED <<disk, chunk, phase, torn>>

CacheNext ==
  \/ \E u \in UploadIds : ChunkStarts(u) \/ Sweeps(u) \/ GoesStale(u) \/ TarballGoes(u)
  \/ SweepDone \/ Looks \/ Fetches \/ FetchFails \/ Unpacks \/ Unpacked \/ Marks \/ ChunkOver
  \/ Stops
CacheSpec == CacheInit /\ [][CacheNext]_cacheVars

----------------------------------------------------------------------------
(* Properties.                                                             *)

\* A chunk renders a whole Storybook: no failure or stop, at any step, leaves a directory that
\* a later chunk trusts (shard.ts:707-712) - except a sweep cut short after it has removed
\* files and before the marker.
ServesWhole == phase = "serve" => disk[chunk].files = "all" \/ chunk \in torn
=============================================================================
