---------------------------- MODULE MCSubshell ----------------------------
(* Subshell on small instances. *)
EXTENDS Subshell
=============================================================================
