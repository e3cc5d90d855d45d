----------------------------- MODULE MCJobSave -----------------------------
(* JobSave on small instances.  Process IDs would be interchangeable, but      *)
(* symmetry is not sound for the liveness property of the run.                 *)
EXTENDS JobSave
=============================================================================
