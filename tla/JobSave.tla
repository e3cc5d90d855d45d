------------------------------ MODULE JobSave ------------------------------
(***************************************************************************)
(* The saved exit statuses of src/cmd/ksh93/sh/jobs.c: the lists of struct *)
(* jobsave that hold the status of every job that has left the job table   *)
(* without having been waited for, and their pool of free nodes.           *)
(*                                                                         *)
(* The shell keeps one list (bck) per level of virtual subshell; the lists *)
(* of the enclosing levels hang off bck.prev.  A list has a counter of its *)
(* own, bck.count, and job_chksave() walks a list under that counter.      *)
(*                                                                         *)
(* A behaviour follows one process; ForkChild continues in the child.      *)
(***************************************************************************)
EXTENDS Integers, Sequences, SequencesExt

CONSTANTS Pids,           \* process IDs
          Vals,           \* exit statuses (0 is one of them)
          ChildMax,       \* sh.lim.child_max
          NJOB_SAVELIST,  \* size of the pool of free nodes (4 in the code)
          Unknown,        \* ERROR_NOENT, 127
          Oldest,         \* the pid 0 of job_chksave(0)
          MaxDepth,       \* bound: nested virtual subshells
          MaxForks        \* bound: generations of forked subshells

ASSUME ConstantsAssumption ==
    /\ ChildMax \in Nat \ {0}
    /\ NJOB_SAVELIST \in Nat \ {0}
    /\ MaxDepth \in Nat
    /\ MaxForks \in Nat
    /\ Oldest \notin Pids
    /\ Unknown \notin Vals

VARIABLES levels,    \* bck and its prev chain, the current level first
          free,      \* length of the list job_savelist
          nfree,     \* njob_savelist, what the shell takes that length to be
          running,   \* processes in the job table
          toclear,   \* job.toclear: the table is the parent's, clear it
          phase,     \* where job_subrestore() is: "no", "evict", "unpost"
          own,       \* virtual subshells this process has entered itself
          forks,     \* generations of fork() so far
          exitval    \* sh.exitval as the last wait left it

vars == <<levels, free, nfree, running, toclear, phase, own, forks, exitval>>

Node == [pid : Pids, val : Vals]
Level == [count : Int, list : Seq(Node)]
Store == [levels : Seq(Level), free : Int, nfree : Int]

Store0 == [levels |-> levels, free |-> free, nfree |-> nfree]

SetStore(s) == /\ levels' = s.levels
               /\ free' = s.free
               /\ nfree' = s.nfree

-----------------------------------------------------------------------------
(* job_chksave(): find a status, take it off its list. *)

\* Faulty variant: the search for the oldest status takes the first node.
StopsAtNewest(lv, p) ==
    {i \in 1..Len(lv.list) : lv.list[i].pid = p \/ i > lv.count \/ p = Oldest}

\* The nodes at which the loop over one level stops: it compares at most
\* count nodes, and takes the node it has reached then for the one it wants.
Stops(lv, p) ==
    {i \in 1..Len(lv.list) : \/ lv.list[i].pid = p
                             \/ i > lv.count
                             \/ p = Oldest /\ i = Len(lv.list)}

\* Faulty variant: the search never leaves the current level.
HitsHere(s, p) == {k \in {1} : Stops(s.levels[k], p) # {}}

\* Only a search for a process ID goes on to the enclosing levels.
Hits(s, p) ==
    {k \in 1..Len(s.levels) : (p = Oldest => k = 1) /\ Stops(s.levels[k], p) # {}}

Least(S) == CHOOSE i \in S : \A j \in S : i <= j

HitNode(s, p) == LET k == Least(Hits(s, p)) IN
                 s.levels[k].list[Least(Stops(s.levels[k], p))]

\* Faulty variants: the counter of the current level is lowered whatever level
\* the node was on; the counter is not lowered; the pool's counter is not raised.
UnlinkCountsHere(s, k, i) ==
    LET room == IF s.nfree < NJOB_SAVELIST THEN 1 ELSE 0 IN
    [levels |-> [s.levels EXCEPT ![k].list = RemoveAt(@, i), ![1].count = @ - 1],
     free   |-> s.free + room,
     nfree  |-> s.nfree + room]

UnlinkKeepsCount(s, k, i) ==
    [s EXCEPT !.levels[k].list = RemoveAt(@, i)]

UnlinkPoolUncounted(s, k, i) ==
    [levels |-> [s.levels EXCEPT ![k] = [count |-> @.count - 1,
                                         list  |-> RemoveAt(@.list, i)]],
     free   |-> s.free + 1,
     nfree  |-> s.nfree]

\* The node goes to the pool, or back to malloc if the pool seems full.
Unlink(s, k, i) ==
    LET room == IF s.nfree < NJOB_SAVELIST THEN 1 ELSE 0 IN
    [levels |-> [s.levels EXCEPT ![k] = [count |-> @.count - 1,
                                         list  |-> RemoveAt(@.list, i)]],
     free   |-> s.free + room,
     nfree  |-> s.nfree + room]

ChkSave(s, p) ==
    IF Hits(s, p) = {} THEN s
    ELSE LET k == Least(Hits(s, p)) IN Unlink(s, k, Least(Stops(s.levels[k], p)))

\* What job_chksave() returns, as job_wait() passes it on.
ChkSaveVal(s, p) == IF Hits(s, p) = {} THEN Unknown ELSE HitNode(s, p).val

-----------------------------------------------------------------------------
(* jobsave_create(), init_savelist() and job_clear() *)

CountUp(s) == [s EXCEPT !.levels[1].count = @ + 1]

Evict(s) == IF s.levels[1].count > ChildMax THEN ChkSave(s, Oldest) ELSE s

\* The node is taken from the pool as it was before the searches above, so
\* what they put into the pool is lost with it.
TakeNode(before, s) ==
    IF before.free > 0
    THEN [levels |-> s.levels, free |-> before.free - 1, nfree |-> s.nfree - 1]
    ELSE s

Prepend(s, p, v) == [s EXCEPT !.levels[1].list = <<[pid |-> p, val |-> v]>> \o @]

JobsaveCreate(s, p, v) ==
    Prepend(TakeNode(s, Evict(CountUp(ChkSave(s, p)))), p, v)

InitSavelist(s) ==
    IF s.nfree < NJOB_SAVELIST
    THEN [levels |-> s.levels,
          free   |-> s.free + (NJOB_SAVELIST - s.nfree),
          nfree  |-> NJOB_SAVELIST]
    ELSE s

\* The list is freed; its counter stays as it is.
JobClear(s) == InitSavelist([s EXCEPT !.levels[1].list = <<>>])

Cleared(s) == IF toclear THEN JobClear(s) ELSE s

-----------------------------------------------------------------------------
Init ==
    /\ levels = <<[count |-> 0, list |-> <<>>]>>
    /\ free = NJOB_SAVELIST
    /\ nfree = NJOB_SAVELIST
    /\ running = {}
    /\ toclear = FALSE
    /\ phase = "no"
    /\ own = 0
    /\ forks = 0
    /\ exitval = 0

\* fork() returned p in the parent: the table is cleared if it still is the
\* one of an older process, and p is posted.  A status saved under the same
\* ID is of an earlier process and is dropped (jobfork is set).
Post(p) ==
    /\ phase = "no"
    /\ p \notin running
    /\ SetStore(ChkSave(InitSavelist(Cleared(Store0)), p))
    /\ running' = (IF toclear THEN {} ELSE running) \cup {p}
    /\ toclear' = FALSE
    /\ UNCHANGED <<phase, own, forks, exitval>>

\* A finished job leaves the table; its status is saved unless a foreground
\* wait has used it up already (P_EXITSAVE is off).
Unpost(p, v) ==
    /\ phase # "evict"
    /\ p \in running
    /\ running' = running \ {p}
    /\ SetStore(JobsaveCreate(Store0, p, v))
    /\ UNCHANGED <<toclear, phase, own, forks, exitval>>

UnpostWaited(p) ==
    /\ phase # "evict"
    /\ p \in running
    /\ running' = running \ {p}
    /\ UNCHANGED <<levels, free, nfree, toclear, phase, own, forks, exitval>>

\* job_reap() collects a child that is not in the table.
ReapUnknown(p, v) ==
    /\ phase = "no"
    /\ p \notin running
    /\ LET s == IF v = 0 THEN ChkSave(Store0, p) ELSE Store0
       IN  SetStore(JobsaveCreate(Cleared(s), p, v))
    /\ running' = IF toclear THEN {} ELSE running
    /\ toclear' = FALSE
    /\ UNCHANGED <<phase, own, forks, exitval>>

\* Faulty variant: the -1 of job_chksave() is passed on as it is.
WaitRaw(p) ==
    /\ phase = "no"
    /\ p \notin running
    /\ exitval' = IF Hits(Store0, p) = {} THEN -1 ELSE HitNode(Store0, p).val
    /\ SetStore(ChkSave(Store0, p))
    /\ UNCHANGED <<running, toclear, phase, own, forks>>

\* The wait built-in on a process that is not in the table.
Wait(p) ==
    /\ phase = "no"
    /\ p \notin running
    /\ exitval' = ChkSaveVal(Store0, p)
    /\ SetStore(ChkSave(Store0, p))
    /\ UNCHANGED <<running, toclear, phase, own, forks>>

SubSave ==
    /\ phase = "no"
    /\ Len(levels) <= MaxDepth
    /\ levels' = <<[count |-> 0, list |-> <<>>]>> \o levels
    /\ own' = own + 1
    /\ UNCHANGED <<free, nfree, running, toclear, phase, forks, exitval>>

\* job_subrestore(): join the two lists, then drop the oldest statuses while
\* there are too many, then unpost the jobs of the subshell.
SubRestore ==
    /\ phase = "no"
    /\ own > 0
    /\ levels' = <<[count |-> levels[1].count + levels[2].count,
                    list  |-> levels[1].list \o levels[2].list]>>
                  \o SubSeq(levels, 3, Len(levels))
    /\ own' = own - 1
    /\ phase' = "evict"
    /\ UNCHANGED <<free, nfree, running, toclear, forks, exitval>>

SubRestoreEvict ==
    /\ phase = "evict"
    /\ levels[1].count > ChildMax
    /\ SetStore(ChkSave(Store0, Oldest))
    /\ UNCHANGED <<running, toclear, phase, own, forks, exitval>>

SubRestoreUnpost ==
    /\ phase = "evict"
    /\ levels[1].count <= ChildMax
    /\ phase' = "unpost"
    /\ UNCHANGED <<levels, free, nfree, running, toclear, own, forks, exitval>>

SubRestoreEnd ==
    /\ phase = "unpost"
    /\ phase' = "no"
    /\ UNCHANGED <<levels, free, nfree, running, toclear, own, forks, exitval>>

\* fork() returned 0: the child has its parent's lists and table.  It never
\* returns from the virtual subshells its parent was in.
ForkChild ==
    /\ phase = "no"
    /\ forks < MaxForks
    /\ forks' = forks + 1
    /\ toclear' = TRUE
    /\ own' = 0
    /\ UNCHANGED <<levels, free, nfree, running, phase, exitval>>

\* A child that is going to run a compound command clears the table at once.
ClearTable ==
    /\ phase = "no"
    /\ toclear
    /\ SetStore(JobClear(Store0))
    /\ running' = {}
    /\ toclear' = FALSE
    /\ UNCHANGED <<phase, own, forks, exitval>>

Next ==
    \/ \E p \in Pids : Post(p) \/ UnpostWaited(p) \/ Wait(p)
    \/ \E p \in Pids, v \in Vals : Unpost(p, v) \/ ReapUnknown(p, v)
    \/ SubSave \/ SubRestore
    \/ SubRestoreEvict \/ SubRestoreUnpost \/ SubRestoreEnd
    \/ ForkChild \/ ClearTable

Spec == Init /\ [][Next]_vars

\* job_subrestore() runs under job_lock() and calls nothing that blocks.
FairSpec == Spec /\ WF_vars(SubRestoreEvict) /\ WF_vars(SubRestoreUnpost)
                 /\ WF_vars(SubRestoreEnd)

-----------------------------------------------------------------------------
\* Types: there is always a current level, a subshell that ends has one to
\* return to, and $? is a saved status, 0 or 127.
TypeOK ==
    /\ levels \in Seq(Level) /\ levels # <<>>
    /\ free \in Int /\ nfree \in Int
    /\ running \subseteq Pids
    /\ toclear \in BOOLEAN
    /\ phase \in {"no", "evict", "unpost"}
    /\ own \in 0..(Len(levels) - 1)
    /\ forks \in 0..MaxForks
    /\ exitval \in Vals \cup {0, Unknown}

\* No list is longer than its counter says, at any level: otherwise the loop
\* of job_chksave() would run out of count, return the status of another
\* process and delete it.
CountCoversList == \A k \in 1..Len(levels) : Len(levels[k].list) <= levels[k].count

\* The pool never holds more nodes than njob_savelist says, and that never
\* leaves 0..NJOB_SAVELIST: taking the head before job_chksave() pushes nodes
\* may lose nodes, never count one that is not there twice.
PoolCounted == 0 <= free /\ free <= nfree /\ nfree <= NJOB_SAVELIST

\* In every state the chain of lists has at most one status of a process ID,
\* the subshells' own lists and those of the enclosing shells together.
OneStatusPerPid ==
    \A j, k \in 1..Len(levels) :
        \A i \in 1..Len(levels[j].list), h \in 1..Len(levels[k].list) :
            levels[j].list[i].pid = levels[k].list[h].pid => j = k /\ i = h

\* The nodes of a chain of lists: level, place in its list; a node is newer than
\* those after it and those of the enclosing levels.
Places(ls) == UNION {{<<k, i>> : i \in 1..Len(ls[k].list)} : k \in 1..Len(ls)}
NodeAt(ls, x) == ls[x[1]].list[x[2]]
Ahead(x, y) == x[1] < y[1] \/ (x[1] = y[1] /\ x[2] < y[2])

Known(ls) == {NodeAt(ls, x) : x \in Places(ls)}
Newer(ls) == {<<NodeAt(ls, z[1]).pid, NodeAt(ls, z[2]).pid>> :
                 z \in {z \in Places(ls) \X Places(ls) : Ahead(z[1], z[2])}}

\* A shell that no other has forked: the chain of lists, read from the current
\* level outwards, behaves as one memory that answers every wait with the last
\* status recorded.  A step that loses a status posts a process with its ID, or
\* answers a wait for it, or leaves at least ChildMax newer ones behind.
Memory == INSTANCE StatusMemory WITH known <- Known(levels), newer <- Newer(levels)
RefinesMemory == Memory!Init /\ [][forks' = 0 => Memory!Next \/ UNCHANGED Memory!vars]_vars

\* The end of a subshell comes: the loop that drops the oldest statuses ends,
\* in a shell that has not been forked by another.
RestoreEnds == [](forks = 0) => ((phase = "evict") ~> (phase = "no"))
=============================================================================
