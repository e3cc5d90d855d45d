# Signals, jobs and undoing in ksh 93u+m: a TLA+ project

This project models the parts of the Korn shell in `src/src/cmd/ksh93` that are
hard to test: those that a signal handler, a child, another shell or a jump can
catch half way. They are job control (`sh/jobs.c`, `include/jobs.h` and the parts
of `sh/xec.c`, `sh/fault.c`, `sh/main.c` and `bltins/misc.c` that drive it), the
timers (`sh/timers.c`), traps and virtual subshells (`sh/fault.c`,
`sh/subshell.c`), redirections and what undoes them (`sh/io.c`), and the history
file that several shells share (`edit/history.c`). The models are checked with
TLC; the invariants of job control, timers and virtual subshells, and one property of
the history, are proved with TLAPS.

Line numbers below refer to files under `src/src/cmd/ksh93/`. `PROJECT.json`
maps every definition to the lines it stands for.

## 1. The system

| Part | State | Operations | Hard because |
|---|---|---|---|
| job lock, SIGCHLD handler (`include/jobs.h`, `sh/jobs.c`) | `job.in_critical`, `job.savesig`, `sh.trapnote`, `sh.sigflag` | `job_lock`, `job_unlock`, `job_waitsafe`, `job_reap`, `job_chldtrap`, `sh_chktrap`, `sh_exit` | the handler fires between any two steps; `longjmp` leaves regions |
| job table (`sh/jobs.c`) | `job.pwlist`, flags of each process, `curpgid`, `curjobid`, `numbjob` | `job_post`, `job_reap`, `job_wait`, `job_unpost`, `job_switch`, `job_unstop`, `job_kill`, `job_list` | three parties (kernel, commands, builtins) change flags in any order |
| job numbers (`sh/jobs.c`, `sh/xec.c`) | bit vector `job.freejobs`, `job.curjobid`, `job.waitall` | `job_alloc`, `job_free`, nested pipelines | exhaustion; numbers reused while somebody remembers them |
| saved statuses (`sh/jobs.c`) | `bck` and its chain, `bck.count`, the pool `job_savelist` | `jobsave_create`, `job_chksave`, `job_subsave`, `job_subrestore`, `job_clear` | nested subshells, forks, eviction at CHILD_MAX, reused process IDs |
| traps and signals (`sh/fault.c`) | `sh.sigflag`, `sh.trapnote`, `sh.st.trapcom` | `sh_fault`, `sh_chktrap`, `sh_sigreset`, `sh_exit` | deferral, re-entry, jumps |
| command execution (`sh/xec.c`) | parse tree, `pipejob`, `nlock` | `sh_exec`, `_sh_fork`, pipelines, JOBMAX | order of fork, post, unlock and wait |
| virtual subshells (`sh/subshell.c`) | saved environment, `sh.savesig`, `sh.curenv` | `sh_subshell`, `sh_subfork` | a subshell that is not a process must undo everything |
| timers (`sh/timers.c`) | lists `tptop`, `tpfree`, `tpmin`, `time_state` | `sh_timeradd`, `sh_timerdel`, `sigalrm` | list shared with a handler without blocking it |
| history (`edit/history.c`) | file shared by shells, table `histcmds` of offsets in each | `sh_histinit`, `hist_eof`, `hist_flush`, `hist_write`, `hist_cancel`, `hist_trim`, `hist_touch`, `hist_close` | concurrent writers; trimming replaces the file under the others |
| redirection (`sh/io.c`) | `filemap`, `sh.topfd`, `sh.fdptrs`, `sh.sftable`, `sh.inuse_bits` | `sh_redirect`, `sh_iosave`, `sh_iorestore`, `sh_iounsave`, `sh_iorenumber`, `io_preserve`, `sh_close` | error exits half way; saved descriptors share their numbers with the script's |
| variables (`name.c`, `array.c`, `nv*.c`), expansion (`macro.c`, `expand.c`), lexer and parser, arithmetic, path search, editors, other builtins | sequential data | | no interleaving of their own |
| `libast`, `libcmd`, `libdll`, `libsum`, `INIT` | libraries, utilities, build | | used as black boxes |

Interactions: `sh_exec` forks, posts the child under the lock and waits or goes
on; the kernel sends SIGCHLD; `job_waitsafe` reaps at once when no region is
open and otherwise leaves a note that the last `job_unlock` takes up; `job_reap`
marks the process and notes or runs the CHLD trap; `job_wait` and the prompt
remove finished jobs, which leave their statuses to `jobsave_create` and their
numbers to `job_free`; `wait` asks the table and then the saved statuses. The
handler of SIGALRM runs the actions of timers, which `read -t`, TMOUT, a failed
`fork()` and the history set. `sh_subshell` runs in the process of the shell: it
saves and restores traps (while `sh_fault` only notes signals), saved statuses,
descriptors and the directory, and sends a signal that ended it again. All
errors leave by `sh_exit`, which jumps from checkpoint to checkpoint.

What makes the parts correct: the handler never touches the tables inside a
region, and no child or trap is forgotten; nothing that may still be reaped or
waited for leaves the table; a status is delivered once, the right one, and is
not lost before; job numbers are unique; JOBMAX is a limit; waits end. A timer
goes off once and in time; a subshell puts back traps and descriptors whatever
ends it, and neither loses nor repeats a signal; a redirection lasts as long as
its command; the table of a shell lists what the history file means.

## 2. Modules

**JobLock** - the lock protocol. The shell's own code is a stack `pc` of frames
(`region`, `fork`, `pipe`, `reap`, `trap`, `unlock`, ...), each with the number
of regions open in it; the handler interrupts it between any two steps. One
action per step of `job_unlock()` (the test, the deferred reap, the decrement),
of `job_reap()`, of `job_chldtrap()` and of the fork/post sequence. `Rare` switches on paths
that need bad luck: `"trap"` (a command in a CHLD trap fails), `"nested"` (an
error exit out of several regions), `"sigset"` (an interrupt noted inside
`job_reap()`). The counter is unsigned and wraps; `CounterMod` stands for 2^32.

**JobSave** - the saved statuses: `levels` is the chain of `bck` and its `prev`,
current first, each with its counter and its list, newest first; `free` and
`nfree` are the real and the counted length of the pool. Actions: record a
status on unposting (`Post`, `Unpost`, `UnpostWaited`) or for an unknown child
(`ReapUnknown`), `Wait`, enter and leave a virtual subshell (`SubSave`,
`SubRestore` and the steps of its loops), fork and clear (`ForkChild`,
`ClearTable`). **StatusMemory** is the abstract specification: the running
processes and a set of statuses with the order in which they were recorded. It answers
each `wait` once with the last. A status goes only when a new process has its ID
(`Start`), when it is asked for, or when it has `ChildMax` newer ones, which may be found
out as another is recorded or as a subshell ends (`Forget`).
`RefinesMemory` maps the chain onto it: known is what any list holds, and a node is
newer than those behind it and those of the enclosing levels.

**JobNumbers** - the bit vector of job numbers, `job_alloc()` also on the path
where it is full, and `job.curjobid` saved and restored by nested pipelines.

**JobTable** - the job table under everything the shell does at top level:
background jobs with JOBMAX, foreground commands, pipelines, `wait` with and
without operands, `fg`, `bg`, `kill -s CONT`, `jobs`, the prompt, CHLD traps; of
a script or of an interactive shell (`monitor`), with or without a trap
(`chldtrap`). The kernel is `state`, `news` (what `waitpid` can report) and
`pgrp`. `pc` says where the shell is; `job` is the table: the list of jobs and
of their processes, the flags P_EXITSAVE, P_STOPPED, P_NOTIFY, P_DONE and P_BG,
and the fields of `struct jobs`. Each step runs under the lock, as JobLock
justifies. P_SIGNALLED, exit values and terminal modes are left out: no property
here tells them apart. Stops by SIGTTIN/SIGTTOU and by other signals are a
choice in `WaitStopped`.

**Timers** - `sh/timers.c` with its users. The shell is a stack of frames, the
handler `sigalrm()` a frame pushed between any two steps of `sh_timeradd()`,
`sh_timerdel()` and their users; the lists `tptop` and `tpfree` are cells with
`next` pointers (a list is the least set of cells closed under `next`: `Listed`), `time_state` the three bits of the code, and there is one kernel
alarm and a clock. Users are `read -t` (its action jumps out of the handler, and
traps may run another read meanwhile), TMOUT and the retry of `fork()` (static
handles that the action sets to 0), the repeating timer that touches the history
file, and an alarm inherited from before the shell. `odd` records the timings
that break a promise: `"lost"` (an alarm that comes inside `sigalrm()`, or while
`sh_timerdel(NULL)` walks the list, and a jump that leaves other timers that are
due) and `"slow"` (time passes while a timer is being linked). **TimerService**
is the abstract specification, a set of armed deadlines; `RefinesService` maps
the cells on it.

**Subshell** - `sh_subshell()` and `sh_fault()`: a stack of virtual subshells
`( )` and `${ }` in one process; signals of three kinds (fatal, interrupt, ignored
by default) are sent at any moment, also while traps are saved and put back,
when `sh.savesig` is -1 and only one signal can be kept. Actions follow the order of
the code at both ends of a subshell. What is read and later cleared or acted upon is
split where a signal between changes the outcome: `sh_exec()` checks for signals
(`Start`) and then clears `sh.lastsig` (`Forget`); a subshell checks (`Enter`) and opens
its critical region (`Push`), tests `sh.savesig` (`Begin`) and clears it (`TakeSignals`); at
its end it gives up its frame and reads `sh.savesig` (`Return`), clears it (`Clear`) and sends
what it has read (`SendSaved`). Coarser than the code are: the handler, which is one
step; saving the traps and putting them back, in the region; the signal check and the
clearing of `sh.trapnote` in `Return`, and the wait for a child and the traps in `Wait`;
and a run of traps (`ChkTrap`), whose commands are not run but have the one effect
that matters here: `sh_exec()` clears `sh.lastsig` (`sh/xec.c:881`) or, when a signal is to
end the command, returns at once (`:849`), so that the trap is not run. A signal that
is noted while a simple command runs may be left in `sh.lastsig` too
(`sh/fault.c:137`), and a builtin that asks to be told of signals is told instead
(`:169`, `FaultTells`). The branch on `sp->sig` (`sh/subshell.c:874`) is never taken: the field is
set to 0 (`:495`) and to itself, nothing else.

`mine`, `owed` and `credit` are there for the properties only: the traps each level has set,
the signals the main shell has a trap for, and how often each may still run. `odd`
records the cases in which the code loses a signal: in a critical
region a signal ignored by default (`"dropped"`), or of two signals one
(`"overwritten"`, also of `sh.ignsig` and `sh.lastsig`); a subshell forked by a signal (`"forked"`);
`sh.trapnote` cleared with something in it (`"wiped"`); a signal that is to end a command
as a subshell ends by itself (`"late"`); a builtin told (`"told"`); a value cleared with a
signal that came after it was looked at (`"erased"`); a jump that leaves a signal in
`nsig` behind (`"abandoned"`); `sh.lastsig` cleared by a trap (`"cleared"`); a trap that
returns at once (`"swallowed"`).

**IoSave** - `sh_redirect()` and the table `filemap`. `io` is what the code's tables hold:
the descriptors of the process, the streams, the back pointers, `inuse_bits` and
the stack of saved descriptors. `frames` are the commands with redirections and
the subshells that are running, each with the `topfd` of its checkpoint. Actions
are `f>file`, `f>&d`, `f>&d-`, `f>&-`, `{v}>file`, `{v}>&-`, for a command or for
`exec`; the failure of one after others; the end of a command or subshell; jumps
out of all of them; the child of a fork; and `read -u`, which makes a stream.
**Descriptors** is the abstract specification: scopes that are undone when they
end. The ten cases of `OddCases`, in which the code does something else, end a
run unless they are in `Followed`; with any of them followed TLC finds one of the
properties violated, so none is excluded without need. Commands that are
compound and have `n>&-` fork in a subshell (`sh/xec.c:1661`); builtins and
functions do not, and they are what `CloseFd` inside a subshell stands for.

**History** - the file is a sequence of cells (a command is a body and its null
byte, a long one has two cells of body; the undo and marker sequences and the stamp are
one cell each), files have an age, and the name may move to a new file. Each shell has its
`History_t` and a `pc` inside `sh_histinit()`, `hist_eof()` (whose repair of a file that
ends inside a command is a step of its own), `hist_trim()` and the command loop. A line is
written in two steps: `hist_write()` moves to the end of the file (`Flush`; for an empty
line, `FlushEmpty`, that is all), then it writes (`HistWrite`), all or only a first part, or
fails (`WriteFails`). A command too long for the buffer of the stream goes out in pieces
before (`Piece`), so that a file may end inside a command for as long as it is typed.
`fc` reads the table, waits for an editor and cancels its own line (`HistEdit`,
`HistCancel`). `odd` records eight cases in which a table goes wrong:
`"overtaken"`, `"skipped"`, `"short"`, `"unended"`, `"stamps"`, `"first"`, `"unset"`, `"wrapped"`,
explained at its declaration. What follows on one of them is not explored; the step that leads to it
is, and `LastSaved` speaks of those steps too.

**JobLockProofs**, **JobSaveProofs**, **JobNumbersProofs**, **JobTableProofs**,
**SubshellProofs**, **HistoryProofs** hold the theorems about the module they are named after;
**UnstoppedProofs** extends JobTableProofs with what is true of the table as long
as no process is stopped. The **MC** modules add symmetry sets. Operators called "faulty variant" are used
by no specification: each is a plausible mistake in the operator after it, with
which the properties were seen to fail.

## 3. Runs

| Run | Result | What it shows |
|---|---|---|
| `joblock` | passes, 43 749 states | 3 children, 4 nested regions, no rare path: no reap in a region, no child that has ended is forgotten on its way to its trap, and every terminated child gets its trap |
| `joblock_interrupted` | passes, 77 791 states | with interrupts in `job_reap()` and exits out of nested regions counts may leak, but never fewer regions are counted than are open, and no child is reaped before it is posted |
| `jobsave` | passes, 727 008 states | with forked subshells counters cover lists, the pool is counted, no process ID has two statuses; before any fork the chain of lists implements StatusMemory, and leaving a subshell ends |
| `jobnumbers` | passes, 29 013 states | numbers are unique until the vector is full; a pipeline with none inside waits for its own job |
| `jobtable` | passes, about 558 000 states | the table: see below |
| `jobtable_live` | passes, about 66 000 states | waits end, and jobs held back by JOBMAX start, unless a process is stopped while a CHLD trap is set |
| `timers` | passes, 169 570 states | the lists stay sound under the handler, an alarm is set for the first timer, SIGALRM never kills the shell, `read -t` can take back its timer, the service of TimerService is implemented, and a timer that is set goes off or is taken back |
| `subshell` | passes, 1.9 million states | every way out of nested subshells puts the traps back and leaves the critical region; outside the odd cases a trapped signal is not lost and its trap runs, and in all cases no trap runs more often than its signal was sent (signals ignored by default apart) |
| `iosave` | passes, 1.5 million states | redirections implement Descriptors; what is saved stays safe; nothing leaks |
| `iosave_subshell` | violation | `exec` inside a redirected command inside a subshell changes a descriptor of the shell around it |
| `history` | passes, 3.0 million states | until an odd case comes, tables list what the file means, two shells have one number for a command, and a trim keeps the commands before the newest; in all cases a file in use keeps its name |
| `history_lost` | violation | a trim does not copy the newest command |

Properties of `jobtable`: `AlivePosted` (what `waitpid()` may return is in the
table), `WaitedPosted` (the process waited for and the job of the running
pipeline are), `StatusKeptUnlessStopped`, `JobmaxUnlessStopped`,
`NoTrapMissedInScript`, `AmpAloneUnlessStopped`. TLC refutes each of the last
four without the condition in its name, for the reasons given in section 6 (an
interactive shell misses a trap at the prompt, or after `bg` on a finished job).

Bounds. Three children (`joblock`) are the fewest with one in a region, one
deferred and one being trapped; `MaxHeld` 4 allows a trap inside a reap inside a
fork inside a region. `jobsave`: 3 process IDs, 2 values, CHILD_MAX 2 and a pool
of 2, so that eviction, reuse of IDs and an empty pool all happen, with 2
subshell levels and 2 forks. `jobnumbers`:
words of 2 bits and 4 numbers, so that there are several words and multiples of
the word size; 5 jobs to fill them. `jobtable`: 3 processes allow a background
job beside a two-element pipeline, JOBMAX 1 makes the limit bite, and one stop is
enough for every stop-related path; its liveness run has 2 processes, because
symmetry is not sound there. Process IDs are not reused in JobTable (JobSave
covers reuse). `timers`: 2 timers of all four users (`read -t`, the grace period of TMOUT, the
retry of `fork()`, `touch` of the history file), 3 ticks that let one go off before, with and
after the other, 2 users inside each other, and an alarm from before. Without the
retry, TLC has checked the safety properties with 3 timers too (1 389 789 states), a list
with a middle; the theorems hold for any number.
`subshell`: 2 nested subshells, one signal of each kind and 2 sent (one may
come while the other is kept or sent again), and 2 traps, set at the start or set and
cleared later on any level. `iosave`: 2
numbers of the script (`Base` 5 for 10), one open and the other open or not, a
variable that may already hold a number, 5 numbers above, 2 nested
frames, 3 redirections and 3 saved entries: a command in a subshell and a subshell
in a command, with every kind of redirection in each;
random simulation with 4 frames, 6 entries and 7 redirections (over 20 million
states) found nothing more.
`history`: 2 shells, 4 commands in the file at the start and 2 typed, either of which may be
long, a table of 3, a marker after 4 cells and a trim at 8: the table is read from a marker, the
file is trimmed while the other shell has it open, and both may trim. `Radix` is 6
for 256, so that a marker whose number has a low byte of 0 is met, which is the case
`"wrapped"`. `history_lost` needs only one command typed and none of them long.

Symmetry is used only where processes, files or shells are interchangeable and no
liveness is checked. Deadlock is not checked where the bounds on inputs end a run
(`timers`, `subshell`, `iosave`, `history`) or an odd case does.

## 4. Fairness

*JobLock*: signals are delivered and the handler runs on; steps inside a region,
a reap or a trap are taken, since that code blocks only in `waitpid()`; the
shell keeps reaching some `job_lock()` (it does at every command, prompt and
wait); children terminate. The last is needed: a noted trap waits for the end
of a blocking wait, which another child may hold up for as long as it runs.
Strong fairness is per nesting depth, for frames that come and go with
interrupts. *JobSave*: weak fairness of the steps of `job_subrestore()`, which
run under the lock and call nothing that blocks. *JobTable*: children terminate
and are not left stopped; the loop of `job_wait()` goes on. *Timers*: time passes, a signal that was
sent is delivered, and the code of `timers.c` goes on, none of which blocks; the
users of timers need not. *Subshell*: the process takes steps (signals are
delivered, commands end or a signal ends them); nothing is assumed about what
is sent. TrapRuns needs no more: a subshell that would run for ever is one that
goes on taking steps and checks for traps at every command.

## 5. What is proved

Theorems hold for every value of the constants that satisfies the named
assumptions of the modules.

*JobLockProofs.* `TypeCorrect`, on all paths. `MutualExclusion` (NoReapInRegion),
`LockCount` (NeverUndercounted, and Balanced without nested exits) and
`ReapAfterPost` (ReapedIsPosted) under the assumption that no command of a CHLD
trap fails, which is necessary (section 6).
None of these is inductive: the invariant says that the stack is well formed
(each frame adds its own regions to those below), that the counter is at least
the regions held by the top frame (and equal to them without nested exits), and that a child between fork and post is
protected by a `fork` frame. Each action pushes, pops or replaces one frame.
`NoneForgotten` (NothingForgotten) holds when nothing jumps out of a trap or of
`job_reap()` (`Rare` without `"trap"` and `"sigset"`; both jumps do forget a child,
section 6). Its invariant `Remembered` follows a child through the hands that know
of it: a zombie is noted in `job.savesig`, or a frame is on its way to reap it; a
reaped child has its trap noted in `sh.sigflag`, or a frame that runs it; and a
note in `sh.sigflag` implies one in `sh.trapnote`, which is what `sh_chktrap()` reads.

*JobSaveProofs.* `StoreTypes`, `SearchComplete` (CountCoversList: the walk under
the counter never stops short), `PoolBounded` (PoolCounted) and `NoStaleStatus`
(OneStatusPerPid), on all paths including forks, and `ImplementsMemory`
(RefinesMemory), the refinement of StatusMemory by a shell that has not forked. The invariant speaks of a store
(levels, free, nfree) as one value; lemmas show that each of the helpers `Unlink`,
`ChkSave`, `JobsaveCreate`, `InitSavelist` maps good stores to good stores, and
every action is a composition of them. For `NoStaleStatus` a store is also
`Single`: no two nodes of the whole chain of levels have one process ID. That
`jobsave_create()` keeps this rests on the search before it, in all levels: the
search removes the old node only if it does not stop short, so the theorem needs
`SearchComplete`. `ImplementsMemory` needs that, `Single`, and exact counters (`Counts`: a
list is as long as its counter says, one less between `CountUp` and `Prepend`), which a
shell has until a fork makes it clear a list without its counter. An operation on
the chain is seen as a map between the places of nodes that keeps their order
(`Thinned`); so `Unlink` takes one status and its pairs away, and joining or adding a level
changes nothing. Last, `NewerThanLast` counts: the nodes before the last one of the
current list map one to one to statuses that are newer, so the node that is dropped
when the counter exceeds CHILD_MAX has at least that many.

*JobNumbersProofs.* `NumberTypes`, `NumbersUnique` (UniqueUntilFull) and `OwnJob`
(OwnJobUnlessNested). The last needs to know that while a pipeline without a
nested one is open, the job of `curjobid` is its own and cannot leave the table.

*JobTableProofs.* `ChildrenPosted` (AlivePosted), `AwaitedPosted` (WaitedPosted)
and `TrapsRun` (NoTrapMissedInScript), for any number of processes and any JOBMAX,
stopped processes included. The invariant `Core` says that the table is a list of
non-empty jobs without a process twice, that every process which `waitpid()`
may still report is in it and in the right state, that in a script a process
that is done either has had its trap or has it noted, and that what is awaited
(the process of `job_wait()`, the job of `curjob`) is in the table as long as the
shell is at a step that uses it. The lemmas say what `Remaining` (a table without
some processes), posting, moving to the front and each way to change a flag do
to such a table; each action is one of these or a sequence of two.

*UnstoppedProofs.* `StatusesKept`, `JobLimit`, `AmpersandAlone` (the three
properties with UnlessStopped in their name). The invariant `Unstopped` is an
implication, `stopped = {} => Shape /\ Books`, and inductive since `stopped` only
grows. `Shape`: in an interactive shell a job of `&` is alone in its entry of the
list, and while a command or pipeline runs the first entry is its job and has
no process of `&`. `Books`: nothing is stopped (`Quiet`), only processes of `&` have
P_BG (`BgAmp`), a status that can still be asked for is saved or will be
(`Savable`), and `job.numbjob` is not less than the number of background jobs that
run, and equal to it without `fg` and `bg` (`Counted`), which is why the limit of `&` is JOBMAX.

*SubshellProofs.* `SignalsTaken` (NotDeaf), `TrapsOfLevel` (TrapsRestored) and
`NoRunTwice` (NoPhantom) in all cases, `NoSignalLost` (SignalKept) until an odd one; for any
depth of nesting, any sets of signals and any number of sends. The invariant comes in layers.
`Levelled`: there are as many sets of traps as levels that have their own, the innermost
is in force, and each frame has saved that of the level around it. `Exits`: after a
jump the frame it leads to is being left, and where in that the shell stands says
what `sh.savesig` may hold. `OwedTrapped` and `Kept`: a signal owed to the main shell
has a trap there, and is pending, noted, in `sh.savesig`, `nsig` or `sh.ignsig`, or `Carried`
by `sh.lastsig`, which then has a command to end or a subshell that it has ended. Last,
`Covered`: the places in which a signal waits (`Waiting`) are never more than the times it was
sent and its trap has not run (`credit`). What is noted and what is in `sh.lastsig` count
as one (`Noted`), since the run of a trap clears both; and while the last two kills of
`sh_subshell()` are on their way, what is pending counts as one with them, for which signals have to be
taken one by one (`Single`). `Interrupted` says why the first of these kills adds
nothing: a `${ }` that an interrupt has ended leaves it in `sh.lastsig` only if it is still to
end a command. Each layer is proved from those before it.

*TimersProofs.* The whole component: `ListsAreSound` (ListsSound), `AlarmIsSet`
(AlarmSet), `ShellSurvives` (NeverKilled), `ReadCanCancel` (CanCancel) and `TimersServe`
(RefinesService), for any number of timers, users inside each other and ticks, and any
inherited alarm, from one invariant, `TimersInvariant`. None of the properties is
inductive. `Framed`: what may be anywhere above a frame (`Over`), so that the handler is
at the top or has called an action, and one call of `sh_timeradd()` is inside
another only to chain an old alarm. `Bits`: `time_state` says in which of these places the
shell is. `Sound`: there are a set `T` of cells and a set `F` of free ones, disjoint, such that
`tptop` leads through `T` in descending order of the timers' numbers and `tpfree` through `F`
in descending order of some rank `r`. (`F` may shrink by more than the cell that is taken:
`Pop` goes on from the cell that `Take` saw, and loses those that the handler has put
before it meanwhile.) Every cell that a frame holds
(`Holds`) is in `T`, in `F`, or in neither while it is filled. From the ranks follows what
`Listed`, `After`, `Foremost` and `Hindmost` are (`ListedIs`, ...), and that
unlinking the deleted cells leaves two such lists (`ScanLists`). `Intervals`, `Given`,
`MinAlarm`: how `tpmin`, the alarm and the handler relate everywhere; `InHandler`,
`AtAct`, `AtBreak`, `AtLink`, `AtWalk`, `Outside`: what more holds at each place, down to
the static `left` of the handler. For the refinement, a timer whose action is about to be
called stands for the time it was set for (`TimerDue`), since the search has moved it
already; `Apart`: no two timers have one number. `Scan` is then no step of the service, the call of the
action is its `Expire`, `Fill` its `Arm`, and all other steps take timers back or none.

*HistoryProofs.* `NotUnlinked` (InUseNotUnlinked) for any number of shells, any
contents of the file and any HIST_RECENT of at least two ticks, and `HistoryFacts`,
the invariant `Inv` that it needs. `Placed`: a shell that is not starting has a file.
`Fronts`: that file begins with HIST_UNDO once it is read or written. `Unused`: while a
file that is no history has the name, no shell is past opening one, so nobody loses
anything when it is refused. `Timed`: a shell at its prompt has a timer. `Touched`: the age
of the file with the name and what is left of the timer of each shell that uses it
add up to at most HIST_RECENT. `Sought`: so whoever has found its file unused and still has
the name is alone with it, but for shells that have only opened it. Every action is one of a few
kinds - it reads, writes, leaves, opens, touches - and each kind has a lemma. What
`hist_eof()` and `hist_trim()` do to the table is a loop over cells that are any
sequence: `Counting` is induction over the naturals for a set, by a least
counterexample; `Iterated` and `LoopTyped` derive from it that the values of a loop
exist and have the type of its start, and `ReadOnType` and `CopyAllType` apply it.

Before the proof TLC checked these invariants as invariants of a run: `Remembered`
with 3 children, `MaxHeld` 4 and nested exits (24 660 states); `Core` and
`Unstopped` with 3 processes, JOBMAX 1 and a stop (557 806 states) and with 4
processes, JOBMAX 2 and no stop (652 502); those of SubshellProofs with the bounds of the
run `subshell` (1 931 663); that of TimersProofs with 3 timers (1 389 789); that of
HistoryProofs with those of the run `history` (3 034 380).

Only model-checked:

- `SavedSafe` and `NoLeak` of IoSave and the refinement of Descriptors. Their operators
  walk the stack of saved descriptors by recursive functions (`IoRestore`,
  `IoUnsave`), whose values for every stack need an induction that the library states
  with an operator parameter; each needs a proof by a least counterexample instead, as
  `Counting` of HistoryProofs gives it;
- `TableMatchesFile`, `SameNumbers`, `TrimKeepsOlder`: what a file means is a fold
  (`Live`) over all of it, which each of the three relates before and after a loop;
- all liveness, since liveness under fairness and ENABLED are outside the
  prover's reach.

## 6. Where code and documentation disagree

Two runs end in a violation; their findings in `PROJECT.json` quote the comment or the
manual.

`history_lost`: `hist_trim()` ends with `hist_cancel()` (`edit/history.c:481`), which takes the newest
command out of the copy, although it is to "Copy the last <n> commands" (`:415`) and
the manual says that the last HISTSIZE commands are saved (`sh.1:4592`). The call seems to
be meant for a command more, but the loop copies none: `hist_seek()` returns -1 for it. Seen on the program:
of 600 commands it copies the last ones and cancels number 600. `LastSaved` is violated
by `fc` too: with `HistMax` 100 (no trim) and `MaxCmds` 2, TLC finds that
the undo sequence that `fc -e` writes after its editor has run (`bltins/hist.c:261`) takes out what another
shell has typed meanwhile; for the model this is `"overtaken"`.

`iosave_subshell`: after

    exec 3>orig; ( { exec 3>g; } 3>h ); echo x >&3

the text goes to `h`: in a subshell `exec` saves descriptor 3 as it finds it, which
is `h`; the end of the inner command puts `orig` back and keeps the entry; the
end of the subshell restores `h` over it. The program does what the model does.

The other cases below are not violations of a run: the properties name them as
conditions or `odd` cases.

*Jobs.* `sh_exit()` unlocks inside a CHLD trap (`sh/fault.c:609`) although
`job_chldtrap()` holds that lock: `in_critical` wraps, and children are not reaped
in the handler any more (`Rare` = `{"trap"}` in JobLock). `job_clear()` empties the
list and keeps `bck.count` (`sh/jobs.c:1130`): a forked subshell of a forked
subshell may hang in `job_subrestore()`, so RestoreEnds is stated for a shell
that has not been forked. A nested pipeline restores `job.curjobid`
(`sh/xec.c:1888`) although the job may be gone and the number given to another
(WaitsForOwnJob fails, OwnJobUnlessNested holds). `job_unpost()` returns a finished
process when P_BG is set, and `job_wait()` loops on it (`sh/jobs.c:1454`; WaitsEnd
fails, WaitsEndUnlessStopped holds). `job.numbjob` is decremented for processes
never counted (`sh/jobs.c:404`; JobmaxRespected fails). A status is lost when a
stopped job's wait is interrupted in a script (`sh/jobs.c:1424`); the note of a
CHLD trap is wiped at the prompt (`sh/main.c:537`); a foreground command joins an
unrelated job by a stale `job.curpgid` (`sh/jobs.c:1183`); a full vector gives a wrong
number (`sh/jobs.c:1711`); an interrupt inside `job_reap()` loses a child (`sh/jobs.c:294`).

*Timers.* The cases `"lost"` and `"slow"` above; and `sh_timerdel(timeout)` after
`pause()` (`sh/xec.c:2766`) with `timeout` already 0 deletes the timers of everyone.

*Subshells.* A signal ignored with `trap ''` that arrives while a subshell is set up
makes `sh_subshell()` skip its commands (`sh/subshell.c:622`), although an ignored
signal is to change nothing (`sh.1:8306`). A trapped signal inside `${ }` forks it, and in
the parent the signal stays blocked and its trap does not run (`sh/fault.c:85`).
`sh.ignsig` is never cleared, so that the trap of such a signal runs again after each
later subshell (`sh/subshell.c:927`). It holds one signal: of two ignored signals the
second takes the place of the first (`sh/fault.c:98`, the case `"overwritten"`). A trap noted while words are expanded is
wiped when the next subshell starts (`sh/subshell.c:585`). All of these but `"overwritten"`
were seen on the program. From reading and TLC only: a subshell that a signal has ended sends it
again from `sh.lastsig` (`sh/subshell.c:929`), but if another signal was saved meanwhile and
its trap runs at `:896`, the `sh_exec()` of that trap has set `sh.lastsig` to 0 (`sh/xec.c:881`), and the
first signal is gone (`"cleared"`). `sh.savesig` is tested at `sh/subshell.c:622` and
cleared at `:624`, read at `:886` and cleared at `:887`, and `sh.lastsig` is cleared at `sh/xec.c:881`
after the check at `:849`: a signal that the handler stores between the two is wiped
(`"erased"`). A trap that is due when a signal is to end the command returns before its first
command (`sh/xec.c:849`, `"swallowed"`).

*Redirections.* Besides `"shadow"`, the case of the run: `exec 4>&3-` and `{v}>&-` in a
subshell close a descriptor of the shell around it (`"moved"`, `"varclosed"`);
`exec {v}>file` in a redirected command in a subshell is closed too early
(`"picked"`) and, when no digit is free, too late or never (`"high"`); a number that
was closed and is used for a saved descriptor is closed for its former owner
(`"reused"`); a saved descriptor is moved with the wrong stream (`"streamed"`); a script
can close the descriptor by which a subshell finds its directory, and the shell
panics (`"pwdfd"`); `exec 3<file` after `read -u3` leaks a descriptor each
time (`"preserved"`). Seen on the program, all of them; the tenth, `"stale"` (a back
pointer into a compacted table), was not reproduced there.

*History.* Besides the run: a shell that writes after another has written, without having read
that, gets a wrong table (`"overtaken"`), and what it repairs or cancels may be another's command.
An empty line moves `histcnt` to the end of the file (`edit/history.c:727`) before it is found
empty (`:740`), so that what others have typed since the last `hist_eof()` is never
read (`"skipped"`), although "A shell can access the commands of all interactive shells which use the
same named HISTFILE" (`sh.1:4609`). A write that falls short is taken for a whole one (`"short"`); `fc`
in a command that was given up before its end was written cancels the wrong one (`"unended"`); a file
stamped by two shells (`"stamps"`), a repair at the first command (`"first"`) and a marker with the
number the table is to start with (`"unset"`) give wrong tables. The number of a marker is read as
`... | marker[2] -1` (`:600`), which is -1 at a multiple of 256 (`"wrapped"`): that shell then
gives all further commands other numbers than the shell that wrote the marker, and HISTCMD, the "Number of the
current command in the history file" (`sh.1:2086`), differs. Without this case TLC refutes
TableMatchesFile.

## 7. Not modelled, and the plan

Not modelled: text processing (lexer, parser, expansion, arithmetic), editors,
path search, libraries - sequential code or I/O, where a model would be a
transliteration.

In JobTable: subshell environments (`p_env`), `pipefail`, `notify`, `disown`,
coprocesses, terminal modes, `job_close`, trap commands that themselves use the
table. In Timers: the timer of `fifo_check` (only built without `/dev/fd`). In
Subshell: the EXIT trap of a subshell and the other traps without a signal, the
child of `sh_subfork()`, stop signals, variables, functions and aliases. In IoSave:
the streams of descriptors 0 to 2 (which are swapped, not moved), close-on-exec,
the moving of the table when it grows, `>;` and `<>;`, coprocess descriptors, the saving of
0 by a pipeline, SH_JMPSCRIPT, `${ }`, `exec` with a command, and running out of
descriptors. In Subshell also: the status of a child that SIGINT has killed, by which
`sh_subshell()` sends the interrupt again (`sh/subshell.c:898`; the model has only that of the level itself). In
History: auditing, the exception handler for a stale NFS file, the branch of `hist_eof()`
for a file that is shorter than its table says, and searching, but for the piece of a command
that it may push into the file.

Plan:

1. Proofs: `SavedSafe` and `NoLeak` of IoSave from
   lemmas about `ShClose`, `IoPreserve` and `IoRestore`.
2. `p_env` and the other missing operations of JobTable, composed with Subshell.
3. Variables of a subshell (`sh_assignok()` and the restoring of `sp->svar`).
