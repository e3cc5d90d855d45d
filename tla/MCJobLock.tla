------------------------------ MODULE MCJobLock ------------------------------
(* Instances of JobLock for TLC.                                           *)
EXTENDS JobLock, TLC

Symmetry == Permutations(Children)
=============================================================================
