--------------------------- MODULE MCBoxSessions ---------------------------
(* BoxSessions on small instances. *)
EXTENDS BoxSessions, TLC

Symmetric == Permutations(Conns)
=============================================================================
