------------------------------ MODULE BuildLife -------------------------------
(***************************************************************************)
(* What a build promises to whoever watches it, without the queue, the     *)
(* copies and the workers behind it: results are collected, a running      *)
(* build becomes ready when all are in, and whoever makes it ready, and    *)
(* nobody else, owes one post of the final result (reconcileAndComplete in *)
(* worker/src/shard.ts).  ShardedBuild implements this for builds rendered *)
(* by chunks; the inline completion of a small build makes no such         *)
(* promise, as it saves a copy of the row.                                 *)
(***************************************************************************)
EXTENDS Naturals

CONSTANTS
  Stories,   \* each to have a result
  Posters    \* whoever may come to owe the post

VARIABLES
  status,
  done,      \* stories with a result
  owing,     \* posters that have made the build ready and not yet posted
  posted     \* final results posted

vars == <<status, done, owing, posted>>

Init == status = "pending" /\ done = {} /\ owing = {} /\ posted = 0

\* An ingest marks the build running; so may one that works on an old copy.
Runs ==
  /\ status' = "running"
  /\ UNCHANGED <<done, owing, posted>>

\* A shutdown or a startup reclaim hands a running build back to the queue.
Requeues ==
  /\ status = "running" /\ status' = "pending"
  /\ UNCHANGED <<done, owing, posted>>

Fails ==
  /\ status' = "failed"
  /\ UNCHANGED <<done, owing, posted>>

\* Results are only ever added.
Records ==
  /\ done' \in SUBSET Stories /\ done \subseteq done'
  /\ UNCHANGED <<status, owing, posted>>

Finishes(p) ==
  /\ status = "running" /\ done = Stories
  /\ p \notin owing
  /\ status' = "ready" /\ owing' = owing \cup {p}
  /\ UNCHANGED <<done, posted>>

Posts(p) ==
  /\ p \in owing
  /\ owing' = owing \ {p} /\ posted' = posted + 1
  /\ UNCHANGED <<status, done>>

\* It dies, or its post fails: nobody else will post.
Forgets(p) ==
  /\ p \in owing
  /\ owing' = owing \ {p}
  /\ UNCHANGED <<status, done, posted>>

Next ==
  \/ Runs \/ Requeues \/ Fails \/ Records
  \/ \E p \in Posters : Finishes(p) \/ Posts(p) \/ Forgets(p)

Spec == Init /\ [][Next]_vars
===============================================================================
