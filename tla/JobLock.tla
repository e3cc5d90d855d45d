------------------------------- MODULE JobLock -------------------------------
(***************************************************************************)
(* The critical-region protocol of ksh93's job control: job_lock(),        *)
(* job_unlock() and the SIGCHLD handler job_waitsafe() (include/jobs.h,    *)
(* sh/jobs.c), and every place that moves the lock count: job_fork()       *)
(* around fork(2), job_chldtrap() around the user's CHLD trap, job_reap()  *)
(* from an unlock, from the handler or from a wait, and the single         *)
(* job_unlock() that sh_exit() makes before it longjmps (sh/fault.c).      *)
(*                                                                         *)
(* The shell is one thread.  Its C stack is the sequence  pc  (top first); *)
(* a signal handler runs on top of it, between any two of its steps, while *)
(*  handler # "off".  SIGCHLD is blocked while its handler runs.           *)
(*                                                                         *)
(*   "region"  inside a job_lock() ... job_unlock() pair                   *)
(*   "pipe"    the same around the commands of a pipeline (sh_exec, TFIL)  *)
(*   "fork"    inside job_fork(-1) ... job_fork(parent)                    *)
(*   "trap"    inside job_chldtrap(), which runs traps with the lock held  *)
(*   "unlock"  job_unlock() after its test, before its decrement           *)
(*   "exit"    the same point of a job_unlock() made by sh_exit() whose    *)
(*             longjmp leaves no region                                    *)
(*   "reap"    the waitpid(WNOHANG) loop of job_reap(SIGCHLD)              *)
(*   "reap0"   the same loop of job_reap(0) once a child was returned      *)
(*   "block"   the blocking waitpid() of job_reap(0)                       *)
(*                                                                         *)
(* All children are background jobs (P_BG) and a CHLD trap is set.         *)
(***************************************************************************)
EXTENDS Integers, Sequences, FiniteSets

CONSTANTS
    Children,    \* the child processes that may be forked
    MaxHeld,     \* bound: how deeply critical regions nest
    CounterMod,  \* job.in_critical is an unsigned int: it counts modulo this
    Rare         \* the rare paths a configuration explores, see RarePaths

\* "trap":   a command of a CHLD trap fails and calls sh_exit()
\* "nested": sh_exit() is called with more than one region to leave
\* "sigset": sh_sigcheck() in job_reap() finds another signal noted (SH_SIGSET)
RarePaths == {"trap", "nested", "sigset"}

ASSUME MaxHeldAssumption == MaxHeld \in Nat
ASSUME CounterAssumption == CounterMod \in Nat /\ CounterMod > 2 * MaxHeld
ASSUME RareAssumption == Rare \subseteq RarePaths

VARIABLES
    child,        \* kernel: "unborn", "run", "zombie" or "gone" (reaped)
    sigpend,      \* kernel: SIGCHLD is pending
    blocked,      \* kernel: SIGCHLD is in the signal mask outside a handler
    handler,      \* job_waitsafe(): "off", "entry", or "reap" in job_reap()
    in_critical,  \* job.in_critical
    savesig,      \* job.savesig # 0
    trapnote,     \* sh.trapnote & SH_SIGTRAP
    sigtrap,      \* sh.sigflag[SIGCHLD] & SH_SIGTRAP
    entry,        \* job table: "none", "bg" (P_BG), "done" (P_BG|P_DONE)
                  \* or "trapped" (P_DONE, its CHLD trap was run)
    pc            \* the stack of the shell's own code, top first

vars == <<child, sigpend, blocked, handler, in_critical, savesig, trapnote,
          sigtrap, entry, pc>>

kernel == <<child, sigpend, blocked>>
sigs == <<savesig, trapnote, sigtrap>>

\* The code points that are inside a critical region of their own.
Holding == {"region", "pipe", "fork", "trap", "unlock"}
Points == Holding \cup {"exit", "reap", "reap0", "block"}

\* A frame: where the code is, how many regions are open up to and including
\* its own, and the sh.trapnote that job_chldtrap() has saved.
Frame == [at : Points, held : Nat, note : BOOLEAN]

\* Types: one thread of control on a stack of frames, an unsigned counter, and
\* one state of each child in the kernel and in the job table.
TypeOK ==
    /\ child \in [Children -> {"unborn", "run", "zombie", "gone"}]
    /\ sigpend \in BOOLEAN /\ blocked \in BOOLEAN
    /\ handler \in {"off", "entry", "reap"}
    /\ in_critical \in 0 .. CounterMod - 1
    /\ savesig \in BOOLEAN /\ trapnote \in BOOLEAN /\ sigtrap \in BOOLEAN
    /\ entry \in [Children -> {"none", "bg", "done", "trapped"}]
    /\ pc \in Seq(Frame)

Init ==
    /\ child = [c \in Children |-> "unborn"]
    /\ sigpend = FALSE /\ blocked = FALSE
    /\ handler = "off"
    /\ in_critical = 0
    /\ savesig = FALSE /\ trapnote = FALSE /\ sigtrap = FALSE
    /\ entry = [c \in Children |-> "none"]
    /\ pc = <<>>

Zombies == {c \in Children : child[c] = "zombie"}
Posted == {c \in Children : entry[c] # "none"}
Todo == {c \in Children : entry[c] = "done"}

\* Every child that exists is in the job table.
AllPosted == \A c \in Children : child[c] # "unborn" => c \in Posted

\* How many critical regions the code of the stack s is inside of.
HeldOn(s) == IF s = <<>> THEN 0 ELSE Head(s).held
Held == HeldOn(pc)

\* The stack s with the code entering point  p .
Call(p, note, s) ==
    <<[at |-> p,
       held |-> HeldOn(s) + IF p \in Holding THEN 1 ELSE 0,
       note |-> note]>> \o s

\* The shell's own code runs only while no handler does.
Top(points) == handler = "off" /\ pc # <<>> /\ Head(pc).at \in points
Idle == handler = "off" /\ pc = <<>>

\* Between two commands, at top level or of a trap.  Of a pipeline the shell
\* itself only runs the forks, and sh_exec() checks for traps after each.
AtCommand == Idle \/ Top({"trap"})
AtFork == AtCommand \/ Top({"pipe"})

----------------------------------------------------------------------------
(* The kernel and the SIGCHLD handler.                                     *)

\* A child terminates and SIGCHLD becomes pending.
Exit(c) ==
    /\ child[c] = "run"
    /\ child' = [child EXCEPT ![c] = "zombie"]
    /\ sigpend' = TRUE
    /\ UNCHANGED <<blocked, handler, in_critical, sigs, entry, pc>>

Deliver ==
    /\ sigpend /\ ~blocked /\ handler = "off"
    /\ sigpend' = FALSE
    /\ handler' = "entry"
    /\ UNCHANGED <<child, blocked, in_critical, sigs, entry, pc>>

\* job_waitsafe() without its test of job.in_critical.
WaitsafeUnguarded ==
    /\ handler = "entry"
    /\ savesig' = FALSE /\ handler' = "reap"
    /\ UNCHANGED <<kernel, in_critical, trapnote, sigtrap, entry, pc>>

\* job_waitsafe() that forgets the signal it defers.
WaitsafeForget ==
    /\ handler = "entry"
    /\ IF in_critical > 0
         THEN handler' = "off" /\ UNCHANGED savesig
         ELSE savesig' = FALSE /\ handler' = "reap"
    /\ UNCHANGED <<kernel, in_critical, trapnote, sigtrap, entry, pc>>

\* job_waitsafe(): defer inside a critical region, otherwise job_reap(sig).
Waitsafe ==
    /\ handler = "entry"
    /\ IF in_critical > 0
         THEN savesig' = TRUE /\ handler' = "off"
         ELSE savesig' = FALSE /\ handler' = "reap"
    /\ UNCHANGED <<kernel, in_critical, trapnote, sigtrap, entry, pc>>

\* One round of job_reap(SIGCHLD)'s loop: waitpid() returned the child c.
\* A posted child gets its trap noted; another goes to the saved statuses.
Collect(c) ==
    /\ c \in Zombies
    /\ child' = [child EXCEPT ![c] = "gone"]
    /\ IF c \in Posted
         THEN /\ entry' = [entry EXCEPT ![c] = "done"]
              /\ sigtrap' = TRUE /\ trapnote' = TRUE
         ELSE UNCHANGED <<entry, sigtrap, trapnote>>
    /\ UNCHANGED <<sigpend, blocked, handler, in_critical, savesig, pc>>

HandlerReap(c) == handler = "reap" /\ Collect(c)

HandlerReturn ==
    /\ handler = "reap"
    /\ Zombies = {}
    /\ handler' = "off"
    /\ UNCHANGED <<kernel, in_critical, sigs, entry, pc>>

----------------------------------------------------------------------------
(* job_lock() and job_unlock().                                            *)

\* job_lock() by code that stays at point  p  until it unlocks.
Enter(p, note) ==
    /\ in_critical' = (in_critical + 1) % CounterMod
    /\ pc' = Call(p, note, pc)

\* Any function of jobs.c that locks: job_walk, job_list, job_wait, ...
\* The bound leaves room for the trap that a reap inside may run.
Lock ==
    /\ AtCommand \/ Top({"region"})
    /\ Held + 1 < MaxHeld
    /\ Enter("region", FALSE)
    /\ UNCHANGED <<kernel, handler, sigs, entry>>

\* A pipeline: its forks happen under one lock of its own.
PipeBegin ==
    /\ AtCommand
    /\ Held + 1 < MaxHeld
    /\ Enter("pipe", FALSE)
    /\ UNCHANGED <<kernel, handler, sigs, entry>>

\* job_unlock() without its call of job_reap().
UnlockTestNoReap(after) == pc' = after /\ UNCHANGED savesig

\* The test of job_unlock(), with the start of the job_reap() it may call.
\* The handler may still run before the decrement.
UnlockTest(after) ==
    IF in_critical = 1 /\ savesig
      THEN pc' = Call("reap", FALSE, after) /\ savesig' = FALSE
      ELSE pc' = after /\ UNCHANGED savesig

\* Leaving the region at the top of the stack.
Leave == UnlockTest(Call("unlock", FALSE, Tail(pc)))

Unlock ==
    /\ Top({"region", "pipe"})
    /\ Leave
    /\ UNCHANGED <<kernel, handler, in_critical, trapnote, sigtrap, entry>>

\* job_unlock() that clears the counter instead of counting down.
UnlockDecZero ==
    /\ Top({"unlock", "exit"})
    /\ in_critical' = 0
    /\ pc' = Tail(pc)
    /\ UNCHANGED <<kernel, handler, sigs, entry>>

\* job_unlock() made twice on the way out of a region.
UnlockDecTwice ==
    /\ Top({"unlock", "exit"})
    /\ in_critical' = in_critical - 2
    /\ pc' = Tail(pc)
    /\ UNCHANGED <<kernel, handler, sigs, entry>>

UnlockDec ==
    /\ Top({"unlock", "exit"})
    /\ in_critical' = (in_critical - 1) % CounterMod
    /\ pc' = Tail(pc)
    /\ UNCHANGED <<kernel, handler, sigs, entry>>

----------------------------------------------------------------------------
(* sh_fork(): fork and post inside job_fork(-1) ... job_fork(parent).      *)

\* sh_fork() without its job_fork(-1).
ForkBeginUnlocked ==
    /\ AtFork
    /\ Held + 1 < MaxHeld
    /\ pc' = Call("fork", FALSE, pc)
    /\ UNCHANGED <<kernel, handler, in_critical, sigs, entry>>

ForkBegin ==
    /\ AtFork
    /\ Held + 1 < MaxHeld
    /\ Enter("fork", FALSE)
    /\ UNCHANGED <<kernel, handler, sigs, entry>>

Fork(c) ==
    /\ Top({"fork"})
    /\ child[c] = "unborn"
    /\ AllPosted
    /\ child' = [child EXCEPT ![c] = "run"]
    /\ UNCHANGED <<sigpend, blocked, handler, in_critical, sigs, entry, pc>>

\* job_post() in the parent.  Its own lock nests inside that of job_fork().
Post(c) ==
    /\ Top({"fork"})
    /\ child[c] # "unborn" /\ c \notin Posted
    /\ entry' = [entry EXCEPT ![c] = "bg"]
    /\ UNCHANGED <<kernel, handler, in_critical, sigs, pc>>

\* fork(2) fails: _sh_fork(-1) waits for a child in job_wait(1), which locks,
\* and sh_fork() tries again.
ForkRetry ==
    /\ Top({"fork"})
    /\ AllPosted
    /\ Held + 1 < MaxHeld
    /\ Enter("region", FALSE)
    /\ UNCHANGED <<kernel, handler, sigs, entry>>

ForkEnd ==
    /\ Top({"fork"})
    /\ AllPosted
    /\ Leave
    /\ UNCHANGED <<kernel, handler, in_critical, trapnote, sigtrap, entry>>

----------------------------------------------------------------------------
(* job_reap() called by the shell's own code.                              *)

\* job_wait() and the JOBMAX loop: job_reap(job.savesig) with the lock held.
ReapCall ==
    /\ Top({"region"})
    /\ pc' = Call(IF savesig THEN "reap" ELSE "block", FALSE, pc)
    /\ savesig' = FALSE
    /\ UNCHANGED <<kernel, handler, in_critical, trapnote, sigtrap, entry>>

\* waitpid() returned a child to job_reap(SIGCHLD): note the trap for later.
ReapNote(c) == Top({"reap"}) /\ Collect(c)

\* waitpid() returned a posted child to job_reap(0): job_chldtrap(0) runs at
\* once, with its own lock; the loop goes on with WNOHANG afterwards.
ReapTrap(c) ==
    /\ Top({"reap0", "block"})
    /\ c \in Zombies \cap Posted
    /\ child' = [child EXCEPT ![c] = "gone"]
    /\ entry' = [entry EXCEPT ![c] = "done"]
    /\ Held < MaxHeld
    /\ in_critical' = (in_critical + 1) % CounterMod
    /\ pc' = Call("trap", trapnote, Call("reap0", FALSE, Tail(pc)))
    /\ sigtrap' = FALSE
    /\ trapnote' = FALSE
    /\ UNCHANGED <<sigpend, blocked, handler, savesig>>

\* The loop ends: no zombie left, no child to wait for, or another signal
\* interrupts the blocking waitpid() (EINTR with job.savesig set goes on).
ReapReturn ==
    /\ \/ Top({"reap", "reap0"}) /\ Zombies = {}
       \/ Top({"block"}) /\ Zombies = {} /\ (~savesig \/ \A c \in Children : child[c] # "run")
    /\ pc' = Tail(pc)
    /\ UNCHANGED <<kernel, handler, in_critical, sigs, entry>>

----------------------------------------------------------------------------
(* job_chldtrap() and sh_exit().                                           *)

\* sh_chktrap() after a command: clear the note, run the pending traps.
ChkTrap ==
    /\ AtFork
    /\ trapnote
    /\ trapnote' = FALSE
    /\ IF sigtrap
         THEN Held < MaxHeld /\ Enter("trap", FALSE) /\ sigtrap' = FALSE
         ELSE UNCHANGED <<in_critical, pc, sigtrap>>
    /\ UNCHANGED <<kernel, handler, savesig, entry>>

\* A note made by a command of the trap is gone when the walk goes on: that
\* command ended with sh_chktrap().  Only a handler that slipped in without
\* the lock can have left one.
NotesChecked == ~trapnote \/ in_critical = 0

\* One round of job_chldtrap()'s loop: the trap of one completed child.
TrapRun(c) ==
    /\ Top({"trap"})
    /\ c \in Todo
    /\ NotesChecked
    /\ entry' = [entry EXCEPT ![c] = "trapped"]
    /\ UNCHANGED <<kernel, handler, in_critical, sigs, pc>>

\* The list is walked to its end and sh.trapnote gets back its saved value.
\* A child is left over only if it was reaped behind the walk.
TrapEnd ==
    /\ Top({"trap"})
    /\ Todo = {} \/ sigtrap
    /\ NotesChecked
    /\ Leave
    /\ trapnote' = Head(pc).note
    /\ UNCHANGED <<kernel, handler, in_critical, sigtrap, entry>>

\* The one place where the longjmp of sh_exit() lands: in the nearest
\* job_chldtrap(), whose commands go on, or else at top level.
Landings(s) ==
    {SubSeq(s, k + 1, Len(s)) : k \in
        {k \in 0 .. Len(s) : /\ k < Len(s) => s[k + 1].at = "trap"
                            /\ \A j \in 1 .. k : s[j].at # "trap"}}

\* sh_exit(): one job_unlock() if the count is not 0, then the longjmp.
Jump(landing) ==
    IF in_critical > 0
      THEN UnlockTest(Call(IF HeldOn(landing) = Held THEN "exit" ELSE "unlock",
                           FALSE, landing))
      ELSE pc' = landing /\ UNCHANGED savesig

\* The regions left by a jump are one, or the jump is on a rare path.
\* Bound: at most one jump of a behaviour leaves several regions.
MayJump(landing) ==
    /\ HeldOn(landing) = Held => "trap" \in Rare
    /\ HeldOn(landing) + 1 < Held => "nested" \in Rare /\ in_critical = Held

\* A command fails inside a region (fork(2): after the last retry).  None of
\* the functions that lock within a locked region of jobs.c fails so.
ShExit ==
    /\ Top({"region", "pipe", "fork", "trap"})
    /\ Top({"fork"}) => AllPosted
    /\ \E landing \in Landings(pc) :
          /\ Top({"region"}) => HeldOn(landing) + 1 = Held
          /\ MayJump(landing)
          /\ Jump(landing)
    /\ UNCHANGED <<kernel, handler, in_critical, trapnote, sigtrap, entry>>

\* sh_sigcheck() in job_reap(), right after the waitpid() that returned the
\* children in  lost : sh_exit(SH_EXITSIG).
Lost(lost) ==
    /\ "sigset" \in Rare
    /\ lost \subseteq Zombies
    /\ child' = [c \in Children |-> IF c \in lost THEN "gone" ELSE child[c]]

ReapExit(lost) ==
    /\ Top({"reap", "reap0", "block"})
    /\ Lost(lost)
    /\ \E landing \in Landings(pc) : MayJump(landing) /\ Jump(landing)
    /\ UNCHANGED <<sigpend, blocked, handler, in_critical, trapnote, sigtrap, entry>>

\* The same in the handler: the longjmp leaves SIGCHLD blocked.
HandlerExit(lost) ==
    /\ handler = "reap"
    /\ Lost(lost)
    /\ handler' = "off"
    /\ blocked' = TRUE
    /\ pc' \in Landings(pc)
    /\ UNCHANGED <<sigpend, in_critical, sigs, entry>>

----------------------------------------------------------------------------
Handler ==
    \/ Deliver \/ Waitsafe \/ HandlerReturn
    \/ \E c \in Children : HandlerReap(c) \/ HandlerExit({c})
    \/ HandlerExit({})

Main ==
    \/ Lock \/ PipeBegin \/ Unlock \/ UnlockDec
    \/ ForkBegin \/ ForkRetry \/ ForkEnd
    \/ ReapCall \/ ReapReturn
    \/ ChkTrap \/ TrapEnd \/ ShExit \/ ReapExit({})
    \/ \E c \in Children :
          \/ Fork(c) \/ Post(c)
          \/ ReapNote(c) \/ ReapTrap(c) \/ ReapExit({c})
          \/ TrapRun(c)

Next == Main \/ Handler \/ \E c \in Children : Exit(c)

Spec == Init /\ [][Next]_vars

\* The shell's own code never stops in the middle of a critical region, a
\* reap or a trap, and at the prompt or between two commands of a script it
\* keeps coming to some job_lock().  Signals are delivered, and children
\* terminate: a trap that is noted waits for the end of a blocking wait.
Progress ==
    Unlock \/ ForkEnd \/ ChkTrap \/ TrapEnd \/ \E c \in Children : TrapRun(c)

Fairness ==
    /\ WF_vars(Handler)
    /\ WF_vars(UnlockDec) /\ WF_vars(ReapReturn)
    /\ WF_vars(\E c \in Children : Post(c) \/ ReapNote(c) \/ ReapTrap(c))
    /\ \A d \in 0 .. MaxHeld : SF_vars(Held = d /\ Progress)
    /\ WF_vars(pc = <<>> /\ Lock)
    /\ WF_vars(\E c \in Children : Exit(c))

FairSpec == Spec /\ Fairness

----------------------------------------------------------------------------
(* Properties.                                                             *)

\* The job table is the handler's alone while it reaps: job_waitsafe() never
\* runs job_reap() while the interrupted code is inside a critical region.
NoReapInRegion == handler = "reap" => Held = 0

\* job.in_critical counts the regions the code is inside of, whatever the
\* nesting of waits, forks, traps and error exits (jobs.h, "unsigned int
\* in_critical").
Balanced == in_critical = Held

\* No child is reaped between fork() and job_post(): a child that is gone
\* is always known to the job table.
ReapedIsPosted ==
    \A c \in Children : child[c] = "gone" => c \in Posted

\* No child that has ended is forgotten.  A zombie is noticed: SIGCHLD is pending
\* or being handled, or was deferred in job.savesig, or the code is in a loop of
\* waitpid(); what waitpid() returned is recorded in the job table; and a CHLD
\* trap that is due is remembered, by the flags that make the next sh_chktrap()
\* run it or by a job_chldtrap() that is walking the table.
NothingForgotten ==
    /\ Zombies # {} => \/ sigpend \/ handler # "off" \/ savesig
                       \/ \E i \in DOMAIN pc : pc[i].at \in {"reap", "reap0", "block"}
    /\ \A c \in Children : child[c] = "gone" => entry[c] \in {"done", "trapped"}
    /\ Todo # {} => \/ sigtrap /\ trapnote
                    \/ \E i \in DOMAIN pc : pc[i].at = "trap"

\* An error exit or an interrupt never leaves the code with fewer regions
\* counted than it is inside of: sh_exit() drops at most what the jump leaves.
NeverUndercounted == in_critical >= Held

\* README:44, "SIGCHLD traps are queued so that each completing background
\* job gets its own trap": every terminated child gets its CHLD trap.
EachChildTraps ==
    \A c \in Children : child[c] = "zombie" ~> entry[c] = "trapped"
=============================================================================
