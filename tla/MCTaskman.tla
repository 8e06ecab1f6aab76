----------------------------- MODULE MCTaskman -----------------------------
(* Three tasks on up to three levels with one private wait queue: enough   *)
(* for two peers and an outranked task, for a ring of two and of three,    *)
(* and for a raise to a level between two others.                          *)
EXTENDS Taskman, TLC

CONSTANTS t1, t2, t3, w
MCTask == {t1, t2, t3}
MCWaitQ == {w}
TaskSymmetry == Permutations(MCTask)
=============================================================================
