----------------------------- MODULE MCTaskRing -----------------------------
(* The instance of MCTaskman with the rings: up to three tasks on a queue, *)
(* so that a ring of one, of two and a link in the middle all occur.       *)
EXTENDS MCTaskman, TaskRing
=============================================================================
