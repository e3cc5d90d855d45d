------------------------------ MODULE MCIoSave ------------------------------
(* IoSave on small instances. *)
EXTENDS IoSave, TLC

Symmetry == Permutations(Files)
=============================================================================
