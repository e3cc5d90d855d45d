----------------------------- MODULE MCHistory -----------------------------
(* History on small instances. *)
EXTENDS History, TLC

Symmetry == Permutations(Shells)
=============================================================================
