---------------------------- MODULE MCJobNumbers ----------------------------
(* JobNumbers on small instances. *)
EXTENDS JobNumbers, TLC

\* Jobs are interchangeable.
Symmetry == Permutations(Jobs)
=============================================================================
