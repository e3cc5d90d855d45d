------------------------------ MODULE JobTable ------------------------------
(***************************************************************************)
(* The job table of src/cmd/ksh93/sh/jobs.c: job_post(), job_reap(),       *)
(* job_wait(), job_unpost(), job_switch() and job_chldtrap(), as they are  *)
(* called by sh_exec() for background jobs, foreground commands and        *)
(* pipelines, and by the builtins wait, jobs, fg, bg and kill.             *)
(*                                                                         *)
(* The shell is at top level.  With  monitor  it is interactive and        *)
(* controls a terminal; without, it runs a script.  The options notify and *)
(* pipefail are off.  Each step below runs with job_lock() held, so that   *)
(* SIGCHLD is handled between two steps (module JobLock), and saved        *)
(* statuses are one memory (StatusMemory).  No process ID is used twice.   *)
(***************************************************************************)
EXTENDS Integers, Sequences, FiniteSets, SequencesExt

CONSTANTS Procs,     \* processes that may be started
          JOBMAX,    \* the shell's variable of that name
          MaxStops,  \* bound: processes that are stopped once
          None

ASSUME TableAssumption == /\ IsFiniteSet(Procs)
                          /\ JOBMAX \in Nat \ {0}
                          /\ MaxStops \in Nat
                          /\ None \notin Procs

VARIABLES
    monitor,   \* SH_MONITOR and job.jobcontrol
    chldtrap,  \* sh.st.trapcom[SIGCHLD]: a CHLD trap is set
    state,     \* kernel: "unborn", "run", "stop" or "dead"
    news,      \* kernel: processes with a state that waitpid() can report
    pgrp,      \* kernel: process groups, and p_pgrp
    job,       \* the table, a record, see Table
    pc,        \* what the shell is doing, see Points
    wpid,      \* the process that job_wait() waits for (pw)
    savepgid,  \* savepgid of the pipeline that is being run
    amp,       \* processes started by "&" (not in the code)
    asked,     \* processes whose status was delivered (not in the code)
    stopped,   \* processes that were stopped (not in the code)
    moved      \* fg or bg was used (not in the code)

kernel == <<state, news, pgrp>>
ghosts == <<amp, asked, stopped, moved>>
vars == <<monitor, chldtrap, kernel, job, pc, wpid, savepgid, ghosts>>

\* "pipe":   between two elements of a pipeline (lock held)
\* "fork":   a foreground command has been posted
\* "forklast": the same for the last element of a pipeline
\* "wait":   job_wait(pid) for a foreground command
\* "last":   the same for the last element of a pipeline
\* "end":    that element is done
\* "wait0":  job_wait(0) at the end of a pipeline
\* "fg":     job_wait(pid) from job_switch(), with job.waitall set
\* "waitb":  job_wait(-pid), the wait builtin
\* "waitany":job_wait(-1), wait without operands
\* "jobmax": a background job is about to be started
Waits == {"wait", "last", "wait0", "fg", "waitb"}
Points == Waits \cup {"idle", "pipe", "fork", "forklast", "end", "waitany", "jobmax"}

Flags == {"exitsave", "stopped", "notify", "done", "bg"}

\* job.pwlist is a list of jobs; of each job, its processes, newest first.
Table == [pwlist  : Seq(Seq(Procs)),
          flag    : [Procs -> SUBSET Flags],
          saved   : SUBSET Procs,          \* the saved statuses
          curpgid : Procs \cup {None},
          curjob  : Procs \cup {None},     \* a process of job.curjobid
          bckpid  : Procs \cup {None},     \* $!
          numbjob : Int,
          note    : BOOLEAN,               \* sh.trapnote for the CHLD trap
          trapped : SUBSET Procs]          \* had their trap (not in the code)

Init ==
    /\ monitor \in BOOLEAN /\ chldtrap \in BOOLEAN
    /\ state = [p \in Procs |-> "unborn"]
    /\ news = {}
    /\ pgrp = [p \in Procs |-> None]
    /\ job = [pwlist |-> <<>>, flag |-> [p \in Procs |-> {}], saved |-> {},
              curpgid |-> None, curjob |-> None, bckpid |-> None,
              numbjob |-> 0, note |-> FALSE, trapped |-> {}]
    /\ pc = "idle" /\ wpid = None /\ savepgid = None
    /\ amp = {} /\ asked = {} /\ stopped = {} /\ moved = FALSE

-----------------------------------------------------------------------------
(* Reading and changing the table. *)

Members(t, k) == ToSet(t.pwlist[k])
InTable(t, p) == \E k \in DOMAIN t.pwlist : p \in Members(t, k)
JobOf(t, p) == CHOOSE k \in DOMAIN t.pwlist : p \in Members(t, k)

\* job_byjid() returns the newest process of a job.
Top(t, k) == Head(t.pwlist[k])
IsTop(t, p) == InTable(t, p) /\ Top(t, JobOf(t, p)) = p

On(t, P, F) == [t EXCEPT !.flag =
                   [p \in Procs |-> IF p \in P THEN @[p] \cup F ELSE @[p]]]
Off(t, P, F) == [t EXCEPT !.flag =
                   [p \in Procs |-> IF p \in P THEN @[p] \ F ELSE @[p]]]

\* job_unlink() and the job put back at the head of the list.
ToFront(t, k) == [t EXCEPT !.pwlist = <<@[k]>> \o RemoveAt(@, k),
                           !.curpgid = IF k = 1 THEN None ELSE @]

-----------------------------------------------------------------------------
(* job_unpost() *)

\* Processes that keep the job in the table; job_unpost() returns the first.
Unfinished(t, k, notify) ==
    IF "bg" \in t.flag[Top(t, k)] THEN {Top(t, k)}
    ELSE {p \in Members(t, k) : \/ "done" \notin t.flag[p]
                                \/ ~notify /\ "notify" \in t.flag[p]}

FirstUnfinished(t, k) ==
    LET u == Unfinished(t, k, TRUE) IN
    t.pwlist[k][CHOOSE i \in DOMAIN t.pwlist[k] :
                   /\ t.pwlist[k][i] \in u
                   /\ \A h \in 1..i - 1 : t.pwlist[k][h] \notin u]

\* Faulty variant: the newest process stands for the whole job.
MayDropTop(t, k, notify) ==
    /\ "done" \in t.flag[Top(t, k)]
    /\ "bg" \notin t.flag[Top(t, k)]
    /\ notify \/ "notify" \notin t.flag[Top(t, k)]
    /\ t.curjob \notin Members(t, k)

\* Faulty variant: the job of the pipeline that is being run may go.
MayDropCurrent(t, k, notify) == Unfinished(t, k, notify) = {}

MayDrop(t, k, notify) == /\ Unfinished(t, k, notify) = {}
                         /\ t.curjob \notin Members(t, k)

\* The jobs but K, in their order.
Remaining(q, K) ==
    LET keep == DOMAIN q \ K
        Nth(n) == CHOOSE i \in keep : Cardinality({h \in keep : h <= i}) = n
    IN [n \in 1..Cardinality(keep) |-> q[Nth(n)]]

\* Faulty variant: the statuses are not saved.
DropUnsaved(t, K) ==
    LET out == UNION {Members(t, k) : k \in K} IN
    [Off(t, out, Flags) EXCEPT
        !.pwlist = Remaining(@, K),
        !.curpgid = IF 1 \in K THEN None ELSE @]

\* The jobs K leave the table; those with P_EXITSAVE leave their status.
Drop(t, K) ==
    LET out == UNION {Members(t, k) : k \in K} IN
    [Off(t, out, Flags) EXCEPT
        !.pwlist = Remaining(@, K),
        !.saved = @ \cup {p \in out : "exitsave" \in t.flag[p]},
        !.curpgid = IF 1 \in K THEN None ELSE @]

Unpost(t, k, notify) == IF MayDrop(t, k, notify) THEN Drop(t, {k}) ELSE t

\* The end of job_wait(): unpost all jobs that have nothing to say.
UnpostAll(t) == Drop(t, {k \in DOMAIN t.pwlist : MayDrop(t, k, FALSE)})

-----------------------------------------------------------------------------
(* job_reap() and job_chldtrap() *)

\* The CHLD trap of every completed background job; sh_chktrap() also unposts
\* the job of $!.
JobChldtrap(t, unpost) ==
    LET due == {Top(t, k) : k \in {k \in DOMAIN t.pwlist :
                                     {"bg", "done"} \subseteq t.flag[Top(t, k)]}}
        u == [Off(t, due, {"bg"}) EXCEPT !.trapped = @ \cup due]
    IN IF unpost /\ t.bckpid \in due THEN Unpost(u, JobOf(u, t.bckpid), FALSE) ELSE u

ReapStopped(t, p) == ToFront(On(t, {p}, {"notify", "stopped", "bg"}), JobOf(t, p))

ReapContinued(t, p) == Off(t, {p}, {"notify", "stopped"})

\* Faulty variant: without a trap P_BG is kept.
EndBgKept(t, p, sig) ==
    LET u == [t EXCEPT !.numbjob = @ - 1] IN
    IF ~chldtrap THEN u
    ELSE IF sig THEN [u EXCEPT !.note = TRUE]
    ELSE JobChldtrap(u, FALSE)

\* Faulty variant: the trap is not noted.
EndBgUnnoted(t, p, sig) ==
    LET u == [t EXCEPT !.numbjob = @ - 1] IN
    IF ~chldtrap THEN Off(u, {p}, {"bg"})
    ELSE IF sig THEN u
    ELSE JobChldtrap(u, FALSE)

\* The end of a background job: it is counted down and gets its trap, now if
\* the shell was waiting, or at the end of the command that was interrupted.
EndBg(t, p, sig) ==
    LET u == [t EXCEPT !.numbjob = @ - 1] IN
    IF ~chldtrap THEN Off(u, {p}, {"bg"})
    ELSE IF sig THEN [u EXCEPT !.note = TRUE]
    ELSE JobChldtrap(u, FALSE)

ReapExited(t, p, sig) ==
    LET bg == "bg" \in t.flag[p]
        u == On(Off(t, {p}, {"stopped"}), {p}, {"done"} \cup IF bg THEN {"notify"} ELSE {})
        v == IF bg THEN EndBg(u, p, sig) ELSE u
    IN IF monitor /\ IsTop(t, p) THEN v ELSE Off(v, {p}, {"notify"})

\* Children that waitpid() knows of.
Live == {p \in Procs : state[p] \in {"run", "stop"}} \cup news

\* waitpid() returned p.  When no child is left it says so, and the count of
\* background jobs starts from zero.
Reap(p, sig) ==
    /\ p \in news
    /\ LET t == CASE state[p] = "stop" -> ReapStopped(job, p)
                  [] state[p] = "run"  -> ReapContinued(job, p)
                  [] state[p] = "dead" -> ReapExited(job, p, sig)
       IN job' = IF Live = {p} /\ state[p] = "dead" THEN [t EXCEPT !.numbjob = 0] ELSE t
    /\ news' = news \ {p}
    /\ UNCHANGED <<monitor, chldtrap, state, pgrp, pc, wpid, savepgid, ghosts>>

\* job_reap(SIGCHLD) from the handler, between two commands.
HandlerReap(p) == pc \in {"idle", "fork", "forklast", "end", "jobmax"} /\ Reap(p, TRUE)

\* job_reap(job.savesig) in a wait: SIGCHLD was deferred, or the wait blocks.
WaitReap(p) == /\ pc \in Waits \cup {"waitany"}
               /\ Reap(p, TRUE) \/ Reap(p, FALSE)

\* sh_chktrap() after a command.
ChkTrap ==
    /\ pc = "idle" /\ job.note
    /\ job' = JobChldtrap([job EXCEPT !.note = FALSE], TRUE)
    /\ UNCHANGED <<monitor, chldtrap, kernel, pc, wpid, savepgid, ghosts>>

-----------------------------------------------------------------------------
(* The kernel *)

Exit(p) ==
    /\ state[p] = "run"
    /\ state' = [state EXCEPT ![p] = "dead"]
    /\ news' = news \cup {p}
    /\ UNCHANGED <<monitor, chldtrap, pgrp, job, pc, wpid, savepgid, ghosts>>

Stop(p) ==
    /\ state[p] = "run" /\ p \notin stopped
    /\ Cardinality(stopped) < MaxStops
    /\ state' = [state EXCEPT ![p] = "stop"]
    /\ news' = news \cup {p}
    /\ stopped' = stopped \cup {p}
    /\ UNCHANGED <<monitor, chldtrap, pgrp, job, pc, wpid, savepgid, amp, asked, moved>>

\* SIGCONT to the processes P.
Resume(P) ==
    /\ state' = [p \in Procs |-> IF p \in P /\ state[p] = "stop" THEN "run" ELSE state[p]]
    /\ news' = news \cup {p \in P : state[p] = "stop"}
    /\ UNCHANGED pgrp

Cont(p) ==
    /\ state[p] = "stop"
    /\ Resume({p})
    /\ UNCHANGED <<monitor, chldtrap, job, pc, wpid, savepgid, ghosts>>

-----------------------------------------------------------------------------
(* _sh_fork() and job_post() *)

Group(g) == {p \in Live : pgrp[p] = g}

\* The job that a process with join=g is added to: that of g, else that of
\* job.curjobid, else the one at the head of the list.
JoinedJob(t, g) ==
    IF InTable(t, g) THEN JobOf(t, g)
    ELSE IF t.curjob # None THEN JobOf(t, t.curjob) ELSE 1

JobPost(t, p, join) ==
    IF join = None \/ t.pwlist = <<>>
    THEN [t EXCEPT !.pwlist = <<<<p>>>> \o @]
    ELSE LET k == JoinedJob(t, join) IN
         [t EXCEPT !.pwlist = <<<<p>> \o @[k]>> \o RemoveAt(@, k)]

\* Faulty variant: job.curpgid is not restored after a background job.
ForkKeepsGroup(p, join, flags, cur) ==
    LET g == IF join # None /\ Group(join) # {} THEN join ELSE p IN
    /\ state[p] = "unborn"
    /\ state' = [state EXCEPT ![p] = "run"]
    /\ pgrp' = [pgrp EXCEPT ![p] = IF monitor THEN g ELSE None]
    /\ job' = [On(JobPost(job, p, join), {p}, flags) EXCEPT
                  !.curjob = cur,
                  !.curpgid = IF monitor THEN g ELSE @,
                  !.numbjob = IF "bg" \in flags THEN @ + 1 ELSE @,
                  !.bckpid = IF "bg" \in flags THEN p ELSE @]
    /\ UNCHANGED <<monitor, chldtrap, news>>

\* With monitor the process joins the group of job.curpgid, if it still
\* exists, or leads a new one.  The first element of a pipeline makes its job
\* the current one.
Fork(p, join, flags, cur) ==
    LET g == IF join # None /\ Group(join) # {} THEN join ELSE p IN
    /\ state[p] = "unborn"
    /\ state' = [state EXCEPT ![p] = "run"]
    /\ pgrp' = [pgrp EXCEPT ![p] = IF monitor THEN g ELSE None]
    /\ job' = [On(JobPost(job, p, join), {p}, flags) EXCEPT
                  !.curjob = cur,
                  !.curpgid = IF "bg" \notin flags /\ monitor THEN g ELSE @,
                  !.numbjob = IF "bg" \in flags THEN @ + 1 ELSE @,
                  !.bckpid = IF "bg" \in flags THEN p ELSE @]
    /\ UNCHANGED <<monitor, chldtrap, news>>

\* A background job: first the test of JOBMAX.
BgBegin ==
    /\ pc = "idle" /\ \E p \in Procs : state[p] = "unborn"
    /\ pc' = "jobmax"
    /\ UNCHANGED <<monitor, chldtrap, kernel, job, wpid, savepgid, ghosts>>

JobmaxReap(p) == pc = "jobmax" /\ job.numbjob >= JOBMAX /\ Reap(p, FALSE)

\* Faulty variant: one job too many.
StartBgOver(p) ==
    /\ pc = "jobmax" /\ job.numbjob <= JOBMAX
    /\ Fork(p, None, {"exitsave", "bg"}, job.curjob)
    /\ pc' = "idle"
    /\ amp' = amp \cup {p}
    /\ UNCHANGED <<wpid, savepgid, asked, stopped, moved>>

StartBg(p) ==
    /\ pc = "jobmax" /\ job.numbjob < JOBMAX
    /\ Fork(p, None, {"exitsave", "bg"}, job.curjob)
    /\ pc' = "idle"
    /\ amp' = amp \cup {p}
    /\ UNCHANGED <<wpid, savepgid, asked, stopped, moved>>

\* A foreground command.
StartFg(p) ==
    /\ pc = "idle"
    /\ Fork(p, job.curpgid, {"exitsave"}, job.curjob)
    /\ pc' = "fork" /\ wpid' = p
    /\ UNCHANGED <<savepgid, ghosts>>

\* An element of a pipeline, but the last: without P_EXITSAVE.
PipeElement(p) ==
    /\ pc \in {"idle", "pipe"}
    /\ Fork(p, job.curpgid, {}, IF pc = "idle" /\ monitor THEN p ELSE job.curjob)
    /\ pc' = "pipe"
    /\ savepgid' = IF pc = "idle" THEN job.curpgid ELSE savepgid
    /\ UNCHANGED <<wpid, ghosts>>

PipeLast(p) ==
    /\ pc = "pipe"
    /\ Fork(p, job.curpgid, {"exitsave"}, job.curjob)
    /\ pc' = "forklast" /\ wpid' = p
    /\ UNCHANGED <<savepgid, ghosts>>

\* The last element is a builtin.
PipeBuiltin ==
    /\ pc = "pipe"
    /\ job' = UnpostAll(job)
    /\ pc' = "end"
    /\ UNCHANGED <<monitor, chldtrap, kernel, wpid, savepgid, ghosts>>

\* The end of a pipeline: with job.waitall, job_wait(0).
PipeEnd ==
    /\ pc = "end"
    /\ IF monitor /\ job.curjob # None
       THEN /\ job' = [job EXCEPT !.curjob = None]
            /\ wpid' = Top(job, JobOf(job, job.curjob))
            /\ pc' = "wait0"
            /\ UNCHANGED savepgid
       ELSE /\ job' = [IF monitor THEN UnpostAll(job) ELSE job EXCEPT
                          !.curpgid = savepgid, !.curjob = None]
            /\ pc' = "idle" /\ savepgid' = None
            /\ UNCHANGED wpid
    /\ UNCHANGED <<monitor, chldtrap, kernel, ghosts>>

-----------------------------------------------------------------------------
(* job_wait() *)

\* job_unstop() on the job k, with SIGCONT to its process group.
Unstop(t, k) ==
    LET S == {p \in Members(t, k) : "stopped" \in t.flag[p]} IN
    /\ job' = Off(t, S, {"stopped", "notify"})
    /\ Resume(IF S = {} THEN {} ELSE Group(pgrp[Top(t, k)]))

\* job_wait(pid) forgets P_EXITSAVE; with job control job_set() resumes the
\* processes of the job that have stopped.
WaitBegin ==
    /\ pc \in {"fork", "forklast"}
    /\ LET t == Off(job, {wpid}, {"exitsave"}) IN
       IF monitor THEN Unstop(t, JobOf(t, wpid)) ELSE job' = t /\ UNCHANGED kernel
    /\ pc' = IF pc = "fork" THEN "wait" ELSE "last"
    /\ UNCHANGED <<monitor, chldtrap, wpid, savepgid, ghosts>>

\* job_wait() returns after its last steps have made the table t.
Return(t) ==
    /\ job' = IF pc = "wait0" THEN [UnpostAll(t) EXCEPT !.curpgid = savepgid]
              ELSE UnpostAll(t)
    /\ pc' = IF pc = "last" THEN "end" ELSE "idle"
    /\ wpid' = None
    /\ savepgid' = IF pc = "wait0" THEN None ELSE savepgid

\* The process is done: take its status and unpost its job.  With job.waitall
\* the rest of the job is waited for as well.
WaitDone ==
    /\ pc \in Waits
    /\ "done" \in job.flag[wpid]
    /\ LET k == JobOf(job, wpid)
           saves == IF pc = "waitb" /\ IsTop(job, wpid) THEN {"exitsave"} ELSE {}
           t == Off(job, {wpid}, {"notify"} \cup saves)
       IN IF pc \in {"wait0", "fg"} /\ Unfinished(t, k, TRUE) # {}
          THEN /\ wpid' = FirstUnfinished(t, k)
               /\ job' = t
               /\ UNCHANGED <<pc, savepgid>>
          ELSE Return(Unpost(t, k, TRUE))
    /\ asked' = IF IsTop(job, wpid) THEN asked \cup {wpid} ELSE asked
    /\ UNCHANGED <<monitor, chldtrap, kernel, amp, stopped, moved>>

\* The process has stopped.  An interactive shell takes the terminal back, or
\* gives it to a process that stopped for want of it (SIGTTIN, SIGTTOU); a
\* script goes on waiting.
WaitStopped ==
    /\ pc \in Waits
    /\ "stopped" \in job.flag[wpid] /\ "done" \notin job.flag[wpid]
    /\ \/ /\ monitor
          /\ Return(On(job, {wpid}, {"exitsave"}))
          /\ UNCHANGED kernel
       \/ /\ monitor
          /\ Resume(Group(pgrp[wpid]))
          /\ job' = On(job, {wpid}, {"exitsave"})
          /\ UNCHANGED <<pc, wpid, savepgid>>
       \/ /\ ~monitor
          /\ job' = Off(job, {wpid}, {"notify", "stopped", "exitsave"})
          /\ UNCHANGED <<kernel, pc, wpid, savepgid>>
    /\ UNCHANGED <<monitor, chldtrap, ghosts>>

\* Another signal with a trap interrupts the wait builtin.
WaitInterrupted ==
    /\ pc = "waitb" /\ "done" \notin job.flag[wpid]
    /\ monitor \/ "stopped" \notin job.flag[wpid]
    /\ Return(job)
    /\ UNCHANGED <<monitor, chldtrap, kernel, ghosts>>

\* wait without operands ends when there are no children, or is interrupted.
WaitAnyEnd ==
    /\ pc = "waitany"
    /\ \/ Live = {} /\ job' = [job EXCEPT !.numbjob = 0]
       \/ Live # {} /\ UNCHANGED job
    /\ pc' = "idle"
    /\ UNCHANGED <<monitor, chldtrap, kernel, wpid, savepgid, ghosts>>

-----------------------------------------------------------------------------
(* Builtins *)

WaitAny ==
    /\ pc = "idle"
    /\ pc' = "waitany"
    /\ UNCHANGED <<monitor, chldtrap, kernel, job, wpid, savepgid, ghosts>>

\* wait pid: a saved status is delivered and forgotten.  With job control a
\* stopped job is resumed by job_set().
WaitPid(p) ==
    /\ pc = "idle" /\ state[p] # "unborn"
    /\ IF InTable(job, p)
       THEN /\ IF monitor THEN Unstop(job, JobOf(job, p)) ELSE UNCHANGED <<kernel, job>>
            /\ pc' = "waitb" /\ wpid' = p
            /\ UNCHANGED asked
       ELSE /\ p \in job.saved
            /\ job' = [job EXCEPT !.saved = @ \ {p}]
            /\ asked' = asked \cup {p}
            /\ UNCHANGED <<kernel, pc, wpid>>
    /\ UNCHANGED <<monitor, chldtrap, savepgid, amp, stopped, moved>>

\* fg: job_switch() and job_wait() with job.waitall set.
Fg(k) ==
    /\ pc = "idle" /\ monitor
    /\ LET t == ToFront(job, k) IN
       IF MayDrop(t, 1, TRUE)
       THEN job' = Drop(t, {1}) /\ UNCHANGED <<kernel, pc, wpid>>
       ELSE LET p == FirstUnfinished(t, 1) IN
            /\ Unstop(Off(t, {p}, {"bg", "exitsave"}), 1)
            /\ pc' = "fg" /\ wpid' = p
    /\ moved' = TRUE
    /\ UNCHANGED <<monitor, chldtrap, savepgid, amp, asked, stopped>>

Bg(k) ==
    /\ pc = "idle" /\ monitor
    /\ LET t == [On(job, {Top(job, k)}, {"bg"}) EXCEPT !.bckpid = Top(job, k)] IN
       IF "stopped" \in job.flag[Top(job, k)] THEN Unstop(t, k)
       ELSE job' = t /\ UNCHANGED kernel
    /\ moved' = TRUE
    /\ UNCHANGED <<monitor, chldtrap, pc, wpid, savepgid, amp, asked, stopped>>

\* kill -s CONT %k
KillCont(k) ==
    /\ pc = "idle" /\ monitor
    /\ Group(pgrp[Top(job, k)]) # {}
    /\ job' = Off(job, {p \in Members(job, k) : "stopped" \in job.flag[p]},
                  {"stopped", "notify"})
    /\ Resume(Group(pgrp[Top(job, k)]))
    /\ UNCHANGED <<monitor, chldtrap, pc, wpid, savepgid, ghosts>>

\* Tell the user of the jobs K: no process of theirs has P_NOTIFY any more.
Listed(t, K) == Off(t, UNION {Members(t, k) : k \in K}, {"notify"})

\* The jobs builtin lists all jobs; job_wait(0) then unposts those done.
Jobs ==
    /\ pc = "idle"
    /\ job' = UnpostAll(Listed(job, DOMAIN job.pwlist))
    /\ UNCHANGED <<monitor, chldtrap, kernel, pc, wpid, savepgid, ghosts>>

\* The prompt lists the jobs that are marked; sh.trapnote is set to 0 and a
\* new command line begins.
Prompt ==
    /\ pc = "idle" /\ monitor
    /\ LET K == {k \in DOMAIN job.pwlist : "notify" \in job.flag[Top(job, k)]} IN
       job' = [UnpostAll(Listed(job, K)) EXCEPT !.curpgid = None,
                                             !.note = FALSE]
    /\ UNCHANGED <<monitor, chldtrap, kernel, pc, wpid, savepgid, ghosts>>

-----------------------------------------------------------------------------
Shell ==
    \/ ChkTrap \/ BgBegin \/ WaitBegin \/ PipeBuiltin \/ PipeEnd
    \/ WaitDone \/ WaitStopped \/ WaitInterrupted \/ WaitAnyEnd
    \/ WaitAny \/ Jobs \/ Prompt
    \/ \E p \in Procs : \/ HandlerReap(p) \/ WaitReap(p) \/ JobmaxReap(p)
                        \/ StartBg(p) \/ StartFg(p) \/ PipeElement(p) \/ PipeLast(p)
                        \/ WaitPid(p)
    \/ \E k \in DOMAIN job.pwlist : Fg(k) \/ Bg(k) \/ KillCont(k)

Next == Shell \/ \E p \in Procs : Exit(p) \/ Stop(p) \/ Cont(p)

Spec == Init /\ [][Next]_vars

\* Children terminate and are not left stopped; a wait goes on.
Fairness ==
    /\ \A p \in Procs : WF_vars(Exit(p)) /\ WF_vars(Cont(p))
    /\ WF_vars(\E p \in Procs : WaitReap(p) \/ JobmaxReap(p))
    /\ WF_vars(WaitBegin) /\ WF_vars(WaitDone) /\ WF_vars(WaitStopped) /\ WF_vars(PipeEnd)
    /\ WF_vars(\E p \in Procs : StartBg(p))

FairSpec == Spec /\ Fairness

-----------------------------------------------------------------------------
\* Types: the flags are those of jobs.c, no job is empty, and no process is
\* twice in the list, however jobs are moved about in it.
TypeOK ==
    /\ monitor \in BOOLEAN /\ chldtrap \in BOOLEAN
    /\ state \in [Procs -> {"unborn", "run", "stop", "dead"}]
    /\ news \subseteq Procs
    /\ pgrp \in [Procs -> Procs \cup {None}]
    /\ job \in Table
    /\ \A k \in DOMAIN job.pwlist : job.pwlist[k] # <<>>
    /\ \A k, l \in DOMAIN job.pwlist :
          \A i \in DOMAIN job.pwlist[k], j \in DOMAIN job.pwlist[l] :
             job.pwlist[k][i] = job.pwlist[l][j] => k = l /\ i = j
    /\ pc \in Points /\ wpid \in Procs \cup {None}
    /\ savepgid \in Procs \cup {None}
    /\ amp \subseteq Procs /\ asked \subseteq Procs /\ stopped \subseteq Procs
    /\ moved \in BOOLEAN

\* The list of jobs keeps its shape (no process is in it twice), and
\* no child is unknown to job_reap(): as long as waitpid() may still return a
\* process it is in the table, whatever was joined, moved or unposted.
AlivePosted == TypeOK /\ \A p \in Live : InTable(job, p)

\* The status of a background job can be asked for until it is delivered: it
\* is in the table, or job_unpost() has saved it.
StatusKept == \A p \in amp \ asked : InTable(job, p) \/ p \in job.saved

\* That holds as long as no process is stopped, whatever is joined, reaped
\* early, moved, interrupted, listed or trapped.
StatusKeptUnlessStopped == stopped = {} => StatusKept

\* job_unpost() removes nothing that is still needed: the job of the pipeline
\* that is being run, and the process that is waited for, are in the table.
WaitedPosted ==
    /\ job.curjob # None => InTable(job, job.curjob)
    /\ pc \in Waits \cup {"fork", "forklast"} => InTable(job, wpid)

\* Processes started by "&" that have not terminated.
Background == {p \in amp : state[p] \in {"run", "stop"}}

\* README:41, "JOBMAX=n limits the number of concurrent background jobs to n".
JobmaxRespected == Cardinality(Background) <= JOBMAX

\* The limit is kept as long as no process is stopped; and if fg and bg are
\* not used either, job.numbjob counts the background jobs not yet reaped.
JobmaxUnlessStopped ==
    stopped = {} =>
        /\ JobmaxRespected
        /\ ~moved => job.numbjob = Cardinality(amp \cap Live)

\* README:44, "each completing background job gets its own trap": when no
\* trap is noted, no completed job is still waiting for its own.
NoTrapMissed ==
    pc = "idle" /\ ~job.note =>
        \A p \in amp : ~ ({"bg", "done"} \subseteq job.flag[p])

\* No trap is missed in a script, which has no prompt.
NoTrapMissedInScript == ~monitor => NoTrapMissed

\* jobs.c:1151, "<join> is the process ID of the job to join": a job started
\* by "&" is never joined by another process.
AmpAlone ==
    \A k \in DOMAIN job.pwlist : Members(job, k) \cap amp # {} => Len(job.pwlist[k]) = 1

\* Nor is it, as long as no process is stopped: job.curpgid is then the group
\* of the job at the head of the list, or of one that is gone.
AmpAloneUnlessStopped == stopped = {} => AmpAlone

\* jobs.c:1320, job_wait() is to "wait for process to complete": a foreground
\* command, a pipeline or a job moved to the foreground is waited for until it
\* has ended, and then the shell goes on; a job that JOBMAX holds back starts.
WaitsEnd ==
    /\ (pc \in Waits) ~> (pc \notin Waits)
    /\ (pc = "jobmax") ~> (pc # "jobmax")

\* So it is unless both a process is stopped and a CHLD trap is set.
WaitsEndUnlessStopped == [](stopped = {} \/ ~chldtrap) => WaitsEnd

=============================================================================
