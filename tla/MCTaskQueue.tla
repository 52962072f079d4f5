---------------------------- MODULE MCTaskQueue ----------------------------
(* Instances of TaskQueue for TLC.                                         *)
EXTENDS TaskQueue, TLC

\* The older task 1 waits for the build of the younger task 2.
DepYounger == [t \in Tasks |-> IF t = 1 THEN 2 ELSE NoTask]

\* Two builds that name each other as baseline.
DepCycle == [t \in Tasks |-> IF t = 1 THEN 2 ELSE 1]

\* Workers are interchangeable in every safety run.
WorkerSymmetry == Permutations(Workers)

DepNone == [t \in Tasks |-> NoTask]
=============================================================================
