----------------------------- MODULE MCJobTable -----------------------------
(* JobTable on small instances. *)
EXTENDS JobTable

\* Processes are interchangeable.
Symmetry == Permutations(Procs)
=============================================================================
