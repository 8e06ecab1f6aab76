------------------------------ MODULE MCMemman ------------------------------
(* Careful clients: of one size, and of several sizes who also resize; for *)
(* the finding, clients of one size without rules.                         *)
EXTENDS Memman

MCFixed(n, careful) == [sizes |-> {n}, careful |-> careful, resizes |-> FALSE]
MCProfile ==
  {MCFixed(1, TRUE), MCFixed(2, TRUE),
   [sizes |-> {0, 1, 3}, careful |-> TRUE, resizes |-> TRUE]}
MCAnyClient == {MCFixed(1, FALSE)}
=============================================================================
