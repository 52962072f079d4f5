---------------------------- MODULE MCBuildReview ----------------------------
(* An instance of BuildReview for TLC.                                     *)
EXTENDS BuildReview

\* Two handlers, and a worker that renders once; nothing fails.
TwoHandlers == {[writers |-> Handlers, starts |-> 1, mishaps |-> 0]}
=============================================================================
