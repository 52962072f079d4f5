--------------------------- MODULE MCShardedBuild ---------------------------
(* Instances of ShardedBuild for TLC.                                      *)
EXTENDS ShardedBuild, TLC

\* Workers are interchangeable in every safety run.
WorkerSymmetry == Permutations(Workers)
=============================================================================
