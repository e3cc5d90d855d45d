----------------------------- MODULE Descriptors -----------------------------
(***************************************************************************)
(* What redirections promise to a script (abstract specification of        *)
(* IoSave): the redirections of a command last as long as the command and  *)
(* are undone whatever happened in between; those of exec and redirect     *)
(* last, but a subshell leaves all descriptors as it found them.           *)
(***************************************************************************)
EXTENDS FiniteSets, Sequences, SequencesExt

CONSTANTS Fds, Files, Closed

VARIABLES
    open,       \* what each descriptor of the script is open on
    scopes      \* commands with redirections and subshells, innermost last

vars == <<open, scopes>>

Init == open \in [Fds -> Files \cup {Closed}] /\ scopes = <<>>

Enter(k) ==
    /\ scopes' = Append(scopes, [kind |-> k, was |-> open, mine |-> {}])
    /\ UNCHANGED open

\* A redirection changes one descriptor, n>&m- two of them.
Changed == LET old == open
               new == open'
           IN  {f \in Fds : new[f] # old[f]}

\* A redirection of the innermost command.
Redirect ==
    /\ scopes # <<>> /\ Last(scopes).kind = "io"
    /\ \E f, g \in Fds : /\ scopes' = [scopes EXCEPT ![Len(scopes)].mine = @ \cup {f, g}]
                         /\ Changed \subseteq {f, g}

\* A redirection of exec or redirect.
Exec == UNCHANGED scopes /\ Cardinality(Changed) <= 2

Leave ==
    /\ scopes # <<>> /\ scopes' = Front(scopes)
    /\ LET sc == Last(scopes)
           old == open
       IN  open' = [f \in Fds |-> IF sc.kind = "sub" \/ f \in sc.mine THEN sc.was[f] ELSE old[f]]

Next == Exec \/ Redirect \/ Leave \/ Enter("io") \/ Enter("sub")

Spec == Init /\ [][Next]_vars
=============================================================================
