--------------------------- MODULE TimerService ---------------------------
(***************************************************************************)
(* What the users of sh_timeradd() rely on: a timer that has been set goes *)
(* off once its time has come and never before, the oldest first; a timer  *)
(* with an interval is set again for its next multiple.                    *)
(***************************************************************************)
EXTENDS Integers

CONSTANT Ids

VARIABLES armed,  \* the timers that are set: identity -> when and interval
          fired,  \* how often each has gone off
          clock

Due(i) == armed[i].due

\* A timer goes off; one with an interval moves by as many intervals as have
\* passed when the list was last looked at, and at least by one.
Expire(i) ==
    /\ Due(i) <= clock
    /\ \A j \in DOMAIN armed : Due(i) <= Due(j)
    /\ \/ /\ armed[i].incr = 0
          /\ armed' = [j \in DOMAIN armed \ {i} |-> armed[j]]
       \/ /\ armed[i].incr > 0
          /\ \E k \in 1..(clock + 1) :
                /\ Due(i) + (k - 1) * armed[i].incr <= clock
                /\ armed' = [armed EXCEPT ![i].due = @ + k * armed[i].incr]
    /\ fired' = [fired EXCEPT ![i] = @ + 1]
    /\ clock' = clock

\* A new timer, under an identity that has not been used before.
Arm ==
    /\ \E i \in DOMAIN armed' \ DOMAIN armed :
          /\ DOMAIN armed' = DOMAIN armed \cup {i}
          /\ \A j \in DOMAIN armed : armed'[j] = armed[j]
          /\ armed'[i].due > clock
          /\ fired[i] = 0
    /\ UNCHANGED <<fired, clock>>

\* Timers are taken back.
Cancel ==
    /\ DOMAIN armed' \subseteq DOMAIN armed
    /\ \A j \in DOMAIN armed' : armed'[j] = armed[j]
    /\ UNCHANGED <<fired, clock>>

Tick == clock' = clock + 1 /\ UNCHANGED <<armed, fired>>

Init == DOMAIN armed = {} /\ fired = [i \in Ids |-> 0] /\ clock = 0

Next == Arm \/ Cancel \/ Tick \/ \E i \in DOMAIN armed : Expire(i)

Spec == Init /\ [][Next]_<<armed, fired, clock>>
=============================================================================
