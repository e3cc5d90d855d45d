----------------------------- MODULE MCTimers -----------------------------
(* Timers on small instances. *)
EXTENDS Timers

\* Ticks per user; the touch of the history file may miss several intervals.
MCDelay == [k \in Clients |-> IF k \in {"read", "grace"} THEN 2 ELSE 1]
=============================================================================
