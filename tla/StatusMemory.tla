---------------------------- MODULE StatusMemory ----------------------------
(***************************************************************************)
(* What the shell promises about the exit statuses of jobs that have ended *)
(* and have not been waited for: `wait pid' answers with the status that   *)
(* was recorded last for that process ID, once, and 127 if there is none;  *)
(* a status is lost only when its process ID is that of a new process, or  *)
(* when ChildMax others have been recorded since.                          *)
(*                                                                         *)
(* JobSave is the implementation (the lists of struct jobsave in jobs.c).  *)
(***************************************************************************)
EXTENDS Naturals, FiniteSets

CONSTANTS Pids,      \* process IDs
          Vals,      \* exit statuses
          ChildMax,  \* how many statuses are kept at least
          Unknown    \* the answer for a process ID that is not known

VARIABLES running,   \* the processes in the job table
          known,     \* the remembered statuses
          newer,     \* <<p, q>>: the status of p was recorded after that of q
          exitval    \* $?, as the last wait left it

vars == <<running, known, newer, exitval>>

Entry == [pid : Pids, val : Vals]

Without(K, F) == {e \in K : e.pid \notin F}
Among(N, F) == {x \in N : x[1] \notin F /\ x[2] \notin F}

Newer(N, p) == {x \in N : x[2] = p}

\* Of the statuses K, with the order N, some that have at least ChildMax newer
\* ones are forgotten.
Remembers(K, N) ==
    \E F \in SUBSET {e.pid : e \in {e \in K : Cardinality(Newer(N, e.pid)) >= ChildMax}} :
        known' = Without(K, F) /\ newer' = Among(N, F)

Init == running = {} /\ known = {} /\ newer = {} /\ exitval = 0

\* The status of p is taken out, and nothing else is lost.
TakeOut(p) == known' = Without(known, {p}) /\ newer' = Among(newer, {p})

\* The status v of p is kept; it replaces an older one of that ID.
Record(p, v) ==
    LET others == Without(known, {p}) IN
    Remembers(others \cup {[pid |-> p, val |-> v]},
              Among(newer, {p}) \cup {<<p, e.pid>> : e \in others})

\* A new process has the ID p: the old status means nothing any more.
Start(p) ==
    /\ p \notin running /\ running' = running \cup {p}
    /\ TakeOut(p)
    /\ UNCHANGED exitval

\* A job ends, and its status is kept.
End(p, v) ==
    /\ p \in running /\ running' = running \ {p}
    /\ Record(p, v)
    /\ UNCHANGED exitval

\* A job ends whose status the shell was waiting for.
EndWaited(p) ==
    /\ p \in running /\ running' = running \ {p}
    /\ UNCHANGED <<known, newer, exitval>>

\* A child ends that is in no job.
EndUnknown(p, v) ==
    /\ p \notin running
    /\ Record(p, v)
    /\ UNCHANGED <<running, exitval>>

Ask(p) ==
    /\ p \notin running
    /\ \/ \E e \in known : e.pid = p /\ exitval' = e.val
       \/ (\A e \in known : e.pid # p) /\ exitval' = Unknown
    /\ TakeOut(p)
    /\ UNCHANGED running

\* The end of a subshell joins what it remembers with what its parent does.
Forget == Remembers(known, newer) /\ UNCHANGED <<running, exitval>>

Next == \/ \E p \in Pids : Start(p) \/ EndWaited(p) \/ Ask(p)
        \/ \E p \in Pids, v \in Vals : End(p, v) \/ EndUnknown(p, v)
        \/ Forget

Spec == Init /\ [][Next]_vars
=============================================================================
