------------------------------- MODULE Timers -------------------------------
(***************************************************************************)
(* The timers of src/cmd/ksh93/sh/timers.c and the code that uses them:    *)
(* read -t, TMOUT at the prompt, the retry of a failed fork(), the touch   *)
(* of the history file, and the removal of all timers by a child and       *)
(* before an exec.                                                         *)
(*                                                                         *)
(* There is one kernel alarm.  Its handler, sigalrm(), interrupts the      *)
(* shell between any two steps, edits the list of timers and calls their   *)
(* actions; time_state, not a signal mask, keeps it off the list while     *)
(* sh_timeradd() links a timer.  The shell is a stack of frames, the       *)
(* running one first.                                                      *)
(***************************************************************************)
EXTENDS Integers, FiniteSets, Sequences, SequencesExt

CONSTANTS Nil,        \* the null pointer
          Delay,      \* how long a timer of each user is set for, in ticks
          Users,      \* the users of timers that occur
          Inherited,  \* an alarm set before the shell was executed, 0 if none
          MaxTime,    \* bound: ticks of the clock
          MaxAdds,    \* bound: timers that are set
          MaxNest     \* bound: users of timers inside each other

Statics == {"grace", "retry"}
Clients == {"read", "touch"} \cup Statics

ASSUME ConstantsAssumption ==
    /\ Nil \notin Nat
    /\ Delay \in [Clients -> Nat \ {0}] /\ Users \subseteq Clients
    /\ Inherited \in Nat
    /\ MaxTime \in Nat /\ MaxAdds \in Nat /\ MaxNest \in Nat

VARIABLES node,       \* the cells: wakeup, incr, action, next, and the timer's number
          malloced,   \* how many cells have been allocated
          tptop, tpmin, tpfree,
          state,      \* time_state: a set of "add", "alrm", "defer"
          left,       \* the static variable of sigalrm()
          base,       \* what SIGALRM does without timers: "dfl", or "fault" with a trap
          handler,    \* what SIGALRM does: "sigalrm", "fault", "dfl"
          alarm,      \* when the kernel's alarm goes off, 0 if it is off
          pending,    \* SIGALRM has been sent
          timeout,    \* the static handles of slowread() and _sh_fork()
          stack,      \* frames of the shell, the running one first
          clock,
          adds,       \* timers set so far
          fired,      \* how often each of them has gone off
          odd         \* timings met so far that break a promise: "lost", "slow"

lists == <<node, malloced, tptop, tpmin, tpfree>>
kernel == <<base, handler, alarm, pending>>
rest == <<timeout, clock, adds, fired>>
vars == <<lists, state, left, kernel, timeout, stack, clock, adds, fired, odd>>

\* The cells, in the order in which malloc() returns them.
Nodes == 1..MaxAdds
Ptr == Nodes \cup {Nil}
Frame(at, tp, kind, d, id) == [at |-> at, tp |-> tp, kind |-> kind, d |-> d, id |-> id]

Top == stack[1]
\* The shell's next step, once a signal that was sent has been delivered.
Idle == ~pending /\ stack = <<>>
At(step) == ~pending /\ stack # <<>> /\ Top.at = step
GoTo(step) == stack' = [stack EXCEPT ![1].at = step]
GoToWith(step, p) == stack' = [stack EXCEPT ![1].at = step, ![1].tp = p]
Push(f) == stack' = <<f>> \o stack
Return == stack' = Tail(stack)

-----------------------------------------------------------------------------
(* Lists and deadlines *)

\* The cells that are reached from p: the list that begins there.
Listed(p) ==
    {n \in Nodes : \A S \in SUBSET Nodes :
        (p \in S \cup {Nil} /\ \A m \in S : node[m].next \in S \cup {Nil}) => n \in S}

After(n) == Listed(node[n].next)

\* The cell of S that comes first, and last, in the order of the list.
Foremost(S, none) == IF S = {} THEN none ELSE CHOOSE n \in S : S \ {n} \subseteq After(n)
Hindmost(S, none) == IF S = {} THEN none ELSE CHOOSE n \in S : \A m \in S \ {n} : n \in After(m)

Active(n) == node[n].action # "none"

Expired(n) == node[n].wakeup <= clock

\* The first cell of S with the least wakeup, Nil if there is none.
Earliest(S) ==
    Foremost({n \in S : \A m \in S : node[n].wakeup <= node[m].wakeup}, Nil)

\* while((tp->wakeup += tp->incr) <= now);
NextWakeup(n) ==
    LET k == CHOOSE k \in 1..(clock + 1) :
                /\ node[n].wakeup + k * node[n].incr > clock
                /\ node[n].wakeup + (k - 1) * node[n].incr <= clock
    IN  node[n].wakeup + k * node[n].incr

\* What the cells of live and dead are linked to once the dead ones have been
\* taken off the list: each of those was put in front of tpfree.
Unlinked(live, dead) ==
    [n \in Nodes |->
        CASE n \in live -> [node[n] EXCEPT !.next = Foremost(live \cap After(n), Nil)]
          [] n \in dead -> [node[n] EXCEPT !.next = Hindmost({m \in dead : n \in After(m)}, tpfree)]
          [] OTHER      -> node[n]]

\* What setalarm() and alarm() return: the time the alarm had left.
Remaining == IF alarm = 0 THEN 0 ELSE alarm - clock

-----------------------------------------------------------------------------
Init ==
    /\ node = [n \in Nodes |-> [wakeup |-> 0, incr |-> 0, action |-> "none",
                                next |-> Nil, id |-> 0]]
    /\ malloced = 0
    /\ tptop = Nil /\ tpmin = Nil /\ tpfree = Nil
    /\ state = {} /\ left = 0
    /\ base \in {"dfl", "fault"} /\ handler = base
    /\ alarm = IF base = "fault" THEN Inherited ELSE 0
    /\ pending = FALSE
    /\ timeout = [k \in Statics |-> Nil]
    /\ stack = <<>>
    /\ clock = 0 /\ adds = 0 /\ fired = [i \in 1..MaxAdds |-> 0]
    /\ odd = {}

\* Time passes; the alarm sends its signal and is off then.
Tick ==
    /\ clock < MaxTime /\ ~pending
    /\ clock' = clock + 1
    /\ pending' = (pending \/ alarm = clock + 1)
    /\ alarm' = IF alarm = clock + 1 THEN 0 ELSE alarm
    /\ odd' = odd \cup (IF At("link") THEN {"slow"} ELSE {})
    /\ UNCHANGED <<lists, state, left, base, handler, timeout, stack, adds, fired>>

-----------------------------------------------------------------------------
(* sigalrm() *)

\* Faulty variant: sh_timeradd() does not keep the handler off the list.
SigalrmAnyway ==
    /\ pending /\ handler = "sigalrm"
    /\ pending' = FALSE /\ alarm' = 0 /\ left' = 0
    /\ IF "alrm" \notin state
       THEN state' = {"alrm"} /\ Push(Frame("scan", Nil, "none", 0, 0))
       ELSE UNCHANGED <<state, stack>>
    /\ UNCHANGED <<lists, base, handler, rest, odd>>

\* The handler is entered.  It gives up at once when time_state is set: for
\* good inside another sigalrm(), for later inside sh_timeradd().
Sigalrm ==
    /\ pending /\ handler = "sigalrm"
    /\ pending' = FALSE
    /\ alarm' = 0
    /\ left' = 0
    /\ IF state = {}
       THEN state' = {"alrm"} /\ Push(Frame("scan", Nil, "none", 0, 0))
       ELSE state' = state \cup (IF "add" \in state THEN {"defer"} ELSE {}) /\ UNCHANGED stack
    /\ odd' = IF "alrm" \in state \/ \E i \in 1..Len(stack) : stack[i].at = "walk"
              THEN odd \cup {"lost"} ELSE odd
    /\ UNCHANGED <<lists, base, handler, rest>>

\* One turn of the loop up to the call of the action: take the timers that
\* have been deleted off the list, find the oldest that is due and the next
\* one that will be, and set the alarm for that.
Scan ==
    /\ At("scan")
    /\ LET live  == {n \in Listed(tptop) : Active(n)}
           dead  == Listed(tptop) \ live
           tp    == Earliest({n \in live : Expired(n)})
           min0  == Earliest({n \in live : ~Expired(n)})
           again == tp # Nil /\ node[tp].incr > 0
           w     == IF again THEN NextWakeup(tp) ELSE 0
           min   == IF again /\ (min0 = Nil \/ node[min0].wakeup > w) THEN tp ELSE min0
           when  == IF again /\ min = tp THEN w ELSE node[min].wakeup
           arm   == min # Nil /\ (left = 0 \/ (tp # Nil /\ when < clock + left))
           keep  == Remaining > 0 /\ clock + Remaining < when
           cells == Unlinked(live, dead)
       IN  /\ tptop' = Foremost(live, Nil)
           /\ tpfree' = Hindmost(dead, tpfree)
           /\ node' = IF again THEN [cells EXCEPT ![tp].wakeup = w] ELSE cells
           /\ tpmin' = min
           /\ handler' = IF arm /\ left = 0 THEN "sigalrm" ELSE handler
           /\ alarm' = IF arm /\ ~keep THEN when ELSE alarm
           /\ left' = IF arm THEN (IF keep THEN Remaining ELSE when - clock) ELSE left
           /\ stack' = <<Frame(IF tp = Nil THEN "break" ELSE "act", tp, "none",
                               IF tp = Nil THEN 0 ELSE node[tp].wakeup, 0)>> \o Tail(stack)
    /\ UNCHANGED <<malloced, state, base, pending, rest, odd>>

\* Frames that use a timer: the commands running inside each other.
ClientAt(i) ==
    stack[i].at \in {"adding", "assign", "read", "wait", "pause", "del"}

\* The action of read -t is sh_exit(1): it ends whatever command is innermost,
\* with every frame above it.  Where no command uses a timer the stack is left empty.
Jump ==
    LET own == {i \in 1..Len(stack) : ClientAt(i)} IN
    stack' = IF own = {} THEN <<>>
             ELSE SubSeq(stack, (CHOOSE i \in own : \A j \in own : i <= j) + 1, Len(stack))

\* Faulty variant: a timer without an interval is not over after its action.
ActAgain ==
    /\ At("act")
    /\ LET n == Top.tp
           kind == node[n].action
       IN  /\ fired' = [fired EXCEPT ![node[n].id] = @ + 1]
           /\ timeout' = IF kind \in Statics THEN [timeout EXCEPT ![kind] = Nil] ELSE timeout
           /\ IF kind = "read" THEN Jump ELSE GoTo("ran")
    /\ state' = state \ {"alrm"}
    /\ UNCHANGED <<lists, left, kernel, clock, adds, odd>>

\* The action is called with IN_SIGALRM off; a timer without an interval is
\* over before.
Act ==
    /\ At("act")
    /\ LET n == Top.tp
           kind == node[n].action
       IN  /\ node' = IF node[n].incr = 0 THEN [node EXCEPT ![n].action = "none"] ELSE node
           /\ fired' = [fired EXCEPT ![node[n].id] = @ + 1]
           /\ timeout' = IF kind \in Statics THEN [timeout EXCEPT ![kind] = Nil] ELSE timeout
           /\ IF kind = "read" THEN Jump ELSE GoTo("ran")
           /\ odd' = IF kind = "read" /\ \E m \in Nodes \ {n} : Active(m) /\ Expired(m)
                     THEN odd \cup {"lost"} ELSE odd
    /\ state' = state \ {"alrm"}
    /\ UNCHANGED <<malloced, tptop, tpmin, tpfree, left, kernel, clock, adds>>

Ran ==
    /\ At("ran")
    /\ state' = state \cup {"alrm"}
    /\ GoTo("scan")
    /\ UNCHANGED <<lists, left, kernel, rest, odd>>

\* No timer is due: SIGALRM is given back unless another is to come.
Break ==
    /\ At("break")
    /\ handler' = IF tpmin = Nil THEN base ELSE handler
    /\ state' = state \ {"alrm"}
    /\ Return
    /\ UNCHANGED <<lists, left, base, alarm, pending, rest, odd>>

\* SIGALRM while it is not the timers': sh_fault() notes a trap.  With the
\* default action there is no step: the process has ended.
OtherAlarm ==
    /\ pending /\ handler = "fault"
    /\ pending' = FALSE
    /\ UNCHANGED <<lists, state, left, base, handler, alarm, rest, stack, odd>>

-----------------------------------------------------------------------------
(* sh_timeradd() *)

AddFrame(kind, d, id) == Frame("take", Nil, kind, d, id)

\* if(tp=tpfree): the list of free cells is read before IN_ADDTIMEOUT is set.
Take ==
    /\ At("take")
    /\ \/ /\ tpfree # Nil
          /\ GoToWith("pop", tpfree) /\ UNCHANGED malloced
       \/ /\ tpfree = Nil
          /\ malloced' = malloced + 1 /\ GoToWith("fill", malloced')
    /\ UNCHANGED <<node, tptop, tpmin, tpfree, state, left, kernel, rest, odd>>

\* tpfree = tp->next
Pop ==
    /\ At("pop")
    /\ tpfree' = node[Top.tp].next
    /\ GoTo("fill")
    /\ UNCHANGED <<node, malloced, tptop, tpmin, state, left, kernel, rest, odd>>

\* The cell is filled, IN_ADDTIMEOUT set, and the cell pointed at the list.
Fill ==
    /\ At("fill")
    /\ node' = [node EXCEPT ![Top.tp] =
                   [wakeup |-> clock + Top.d, incr |-> IF Top.kind = "touch" THEN Top.d ELSE 0,
                    action |-> Top.kind, next |-> tptop, id |-> Top.id]]
    /\ state' = state \cup {"add"}
    /\ GoTo("link")
    /\ UNCHANGED <<malloced, tptop, tpmin, tpfree, left, kernel, rest, odd>>

\* Faulty variant: the alarm is set for the first timer only.
LinkInLater ==
    /\ At("link")
    /\ tptop' = Top.tp
    /\ IF tpmin = Nil
       THEN tpmin' = Top.tp /\ handler' = "sigalrm" /\ alarm' = clock + Top.d
       ELSE UNCHANGED <<tpmin, handler, alarm>>
    /\ GoTo("end")
    /\ UNCHANGED <<node, malloced, tpfree, state, left, base, pending, rest, odd>>

\* The list is pointed at the cell; the alarm is set if this timer is now the
\* first to come.  An alarm of somebody else becomes a timer in its turn.
LinkIn ==
    /\ At("link")
    /\ LET n == Top.tp
           first == tpmin = Nil \/ node[n].wakeup < node[tpmin].wakeup
           chain == first /\ Remaining > 0 /\ handler = "fault"
       IN  /\ tptop' = n
           /\ IF first
              THEN /\ tpmin' = n /\ handler' = "sigalrm" /\ alarm' = clock + Top.d
                   /\ state' = state
              ELSE /\ state' = state \cup (IF ~Active(tpmin) THEN {"defer"} ELSE {})
                   /\ UNCHANGED <<tpmin, handler, alarm>>
           /\ IF chain
              THEN /\ adds' = adds + 1
                   /\ stack' = <<AddFrame("old", Remaining, adds + 1),
                                 [Top EXCEPT !.at = "top"]>> \o Tail(stack)
              ELSE GoTo("end") /\ UNCHANGED adds
    /\ UNCHANGED <<node, malloced, tpfree, left, base, pending, timeout, clock, fired, odd>>

\* tp = tptop: with an alarm chained in, that is its timer and not the caller's.
ReadTop ==
    /\ At("top")
    /\ GoToWith("end", tptop)
    /\ UNCHANGED <<lists, state, left, kernel, rest, odd>>

\* Faulty variant: the call that was put off is forgotten.
EndForgets ==
    /\ At("end")
    /\ state' = state \ {"add", "defer"} /\ GoTo("give")
    /\ UNCHANGED <<lists, left, kernel, rest, odd>>

\* IN_ADDTIMEOUT is off again; a call of sigalrm() that was put off is made.
End ==
    /\ At("end")
    /\ IF "defer" \in state
       THEN /\ state' = {"alrm"} /\ left' = 0
            /\ stack' = <<Frame("scan", Nil, "none", 0, 0), [Top EXCEPT !.at = "check"]>>
                        \o Tail(stack)
       ELSE state' = state \ {"add"} /\ GoTo("give") /\ UNCHANGED left
    /\ UNCHANGED <<lists, kernel, rest, odd>>

\* Faulty variant: it is dropped in any case.
CheckDrops ==
    /\ At("check")
    /\ GoToWith("give", Nil)
    /\ UNCHANGED <<lists, state, left, kernel, rest, odd>>

\* After that call the handle is dropped if the timer has left the list.
Check ==
    /\ At("check")
    /\ GoToWith("give", IF Top.tp = tptop THEN Top.tp ELSE Nil)
    /\ UNCHANGED <<lists, state, left, kernel, rest, odd>>

\* The handle goes to the caller.
Give ==
    /\ At("give")
    /\ LET h == Top.tp
           caller == stack[2]
       IN  stack' = CASE caller.at = "top" -> Tail(stack)
                      [] caller.at # "top" /\ caller.kind = "touch" -> Tail(Tail(stack))
                      [] OTHER -> <<[caller EXCEPT !.tp = h,
                                       !.at = IF caller.kind = "read" THEN "read" ELSE "assign"]>>
                                  \o Tail(Tail(stack))
    /\ UNCHANGED <<lists, state, left, kernel, rest, odd>>

-----------------------------------------------------------------------------
(* sh_timerdel() *)

Delete(h) == node' = [node EXCEPT ![h].action = "none"]

\* sh_timerdel(NULL), which walks the list while sigalrm() may change it.
WalkFrame == Frame("walk", tptop, "none", 0, 0)

Walk ==
    /\ At("walk") /\ Top.tp # Nil
    /\ Delete(Top.tp)
    /\ GoToWith("walk", node[Top.tp].next)
    /\ UNCHANGED <<malloced, tptop, tpmin, tpfree, state, left, kernel, rest, odd>>

\* Faulty variant: the alarm is left on.
WalkEndKeepsAlarm ==
    /\ At("walk") /\ Top.tp = Nil
    /\ tpmin' = Nil
    /\ GoTo("giveup")
    /\ UNCHANGED <<node, malloced, tptop, tpfree, state, left, kernel, rest, odd>>

WalkEnd ==
    /\ At("walk") /\ Top.tp = Nil
    /\ alarm' = IF tpmin = Nil THEN alarm ELSE 0
    /\ tpmin' = Nil
    /\ GoTo("giveup")
    /\ UNCHANGED <<node, malloced, tptop, tpfree, state, left, base, handler, pending, rest, odd>>

GiveUp ==
    /\ At("giveup")
    /\ handler' = base
    /\ Return
    /\ UNCHANGED <<lists, state, left, base, alarm, pending, rest, odd>>

-----------------------------------------------------------------------------
(* The users of timers *)

\* A command starts: at top level, in a trap that runs during read, or in a
\* KEYBD trap that runs while a line is being read at the prompt.
Reading == At("read") \/ (At("wait") /\ Top.kind = "grace")
MayStart == /\ Idle \/ Reading
            /\ Cardinality({i \in 1..Len(stack) : ClientAt(i)}) < MaxNest

Start(kind) ==
    /\ MayStart /\ (kind = "grace" => stack = <<>>)
    /\ adds + (IF alarm > 0 /\ handler = "fault" THEN 1 ELSE 0) < MaxAdds
    /\ adds' = adds + 1
    /\ stack' = <<AddFrame(kind, Delay[kind], adds + 1),
                  Frame("adding", Nil, kind, Delay[kind], adds + 1)>> \o stack
    /\ UNCHANGED <<lists, state, left, kernel, timeout, clock, fired, odd>>

\* slowread() and _sh_fork() keep the handle in a static variable.
Assign ==
    /\ At("assign")
    /\ timeout' = [timeout EXCEPT ![Top.kind] = Top.tp]
    /\ GoTo("wait")
    /\ UNCHANGED <<lists, state, left, kernel, clock, adds, fired, odd>>

\* read has its line: the timer is deleted through the local handle.  On a
\* terminal the line came through slowread(), which sets no timer here but
\* deletes the one its static handle points at.
ReadEnds ==
    /\ At("read")
    /\ \E tty \in BOOLEAN :
          LET h == IF tty THEN timeout["grace"] ELSE Nil IN
          /\ node' = [n \in Nodes |-> IF n \in {Top.tp, h} THEN [node[n] EXCEPT !.action = "none"]
                                      ELSE node[n]]
          /\ timeout' = IF tty THEN [timeout EXCEPT !["grace"] = Nil] ELSE timeout
    /\ Return
    /\ UNCHANGED <<malloced, tptop, tpmin, tpfree, state, left, kernel, clock, adds, fired, odd>>

\* The line has come, or job_wait() has returned: if(timeout) ... .  With no
\* child to wait for, _sh_fork() sleeps until a signal comes.
WaitEnds ==
    /\ At("wait")
    /\ \/ timeout[Top.kind] = Nil /\ Return
       \/ timeout[Top.kind] # Nil /\ GoToWith("del", timeout[Top.kind])
       \/ timeout[Top.kind] # Nil /\ Top.kind = "retry" /\ GoTo("pause")
    /\ UNCHANGED <<lists, state, left, kernel, rest, odd>>

Resume ==
    /\ At("pause")
    /\ GoToWith("del", timeout[Top.kind])
    /\ UNCHANGED <<lists, state, left, kernel, rest, odd>>

\* sh_timerdel(timeout): the variable as it was tested, or read again.
DeleteStatic ==
    /\ At("del")
    /\ \E h \in {Top.tp, timeout[Top.kind]} :
          IF h = Nil
          THEN stack' = <<WalkFrame>> \o Tail(stack) /\ UNCHANGED node
          ELSE Delete(h) /\ Return
    /\ timeout' = [timeout EXCEPT ![Top.kind] = Nil]
    /\ UNCHANGED <<malloced, tptop, tpmin, tpfree, state, left, kernel, clock, adds, fired, odd>>

\* An interrupt or an error ends the command: no timer is deleted on this way.
Abandon ==
    /\ At("read")
    /\ Return
    /\ UNCHANGED <<lists, state, left, kernel, rest, odd>>

\* The child of a fork(): it has no alarm, and removes its copies of the timers.
ForkChild ==
    /\ Idle \/ Reading
    /\ alarm' = 0 /\ pending' = FALSE
    /\ stack' = <<WalkFrame>>
    /\ UNCHANGED <<lists, state, left, base, handler, rest, odd>>

\* path_exec() in the shell itself.
Exec ==
    /\ Idle
    /\ stack' = <<WalkFrame>>
    /\ UNCHANGED <<lists, state, left, kernel, rest, odd>>

-----------------------------------------------------------------------------
HandlerStep == Scan \/ Act \/ Ran \/ Break
AddStep == Take \/ Pop \/ Fill \/ LinkIn \/ ReadTop \/ End \/ Check \/ Give
DelStep == Walk \/ WalkEnd \/ GiveUp
Using == \/ \E k \in Users : Start(k)
         \/ Assign \/ ReadEnds \/ WaitEnds \/ Resume \/ DeleteStatic
         \/ Abandon \/ ForkChild \/ Exec

Next == Tick \/ Sigalrm \/ OtherAlarm \/ HandlerStep \/ AddStep \/ DelStep \/ Using

Spec == Init /\ [][Next]_vars

\* Signals are delivered, time passes, and the code of timers.c does not block.
FairSpec == Spec /\ WF_vars(Tick) /\ WF_vars(Sigalrm) /\ WF_vars(HandlerStep \/ AddStep \/ DelStep)

-----------------------------------------------------------------------------
\* Types; and an alarm that is set is set for a time to come.
TypeOK ==
    /\ node \in [Nodes -> [wakeup : Nat, incr : Nat, next : Ptr, id : 0..MaxAdds,
                           action : Clients \cup {"old", "none"}]]
    /\ malloced \in 0..MaxAdds
    /\ {tptop, tpmin, tpfree} \subseteq Ptr
    /\ state \subseteq {"add", "alrm", "defer"}
    /\ left \in Nat /\ alarm \in Nat /\ (alarm # 0 => alarm > clock)
    /\ base \in {"dfl", "fault"} /\ handler \in {"sigalrm", base} /\ pending \in BOOLEAN
    /\ timeout \in [Statics -> Ptr]
    /\ clock \in 0..MaxTime /\ adds \in 0..MaxAdds
    /\ fired \in [1..MaxAdds -> Nat]

Acyclic(p) == \A n \in Listed(p) : n \notin After(n)

\* Whatever step the handler interrupts, and wherever an action jumps out of
\* it: the two lists have no cycle and no cell in common, and every timer that
\* is set is on the list, or is about to be linked.  Taking a cell from tpfree
\* before IN_ADDTIMEOUT is set may lose free cells, but never shares one.  (With
\* the types.)
ListsSound ==
    /\ TypeOK
    /\ Acyclic(tptop) /\ Acyclic(tpfree)
    /\ Listed(tptop) \cap Listed(tpfree) = {}
    /\ \A n \in Nodes : Active(n) =>
          \/ n \in Listed(tptop)
          \/ \E i \in 1..Len(stack) : stack[i].at = "link" /\ stack[i].tp = n

Busy == \E i \in 1..Len(stack) : ~ClientAt(i)

\* While a timer is set and no code of timers.c runs, an alarm is coming that
\* is not later than the timer, and sigalrm() will get it.  Three timings make
\* it fail ("lost"): an alarm that goes off inside sigalrm(), one that goes off
\* while sh_timerdel(NULL) walks the list, and an action that jumps out of
\* sigalrm() while another timer is due.
AlarmSet ==
    (~Busy /\ "lost" \notin odd) =>
      \A n \in Nodes : Active(n) =>
         /\ handler = "sigalrm"
         /\ pending \/ (alarm > 0 /\ ("slow" \in odd \/ alarm <= node[n].wakeup))

\* SIGALRM never comes when its default action, the end of the process, is in
\* place: SIGALRM is given back only with the alarm off.  (It may come if time
\* passes while a timer is being linked: then sigalrm() as called by
\* sh_timeradd() finds no timer to come and leaves the alarm of a deleted one.)
NeverKilled == pending /\ handler = "dfl" => "slow" \in odd

\* As long as its timer is set, read -t can take it back: the handle it holds
\* is that of its own timer, although cells are used again, traps set timers
\* while it waits, and the handler may have run inside sh_timeradd().  (Not if
\* an alarm from before the shell started was chained in: sh_timeradd() then
\* returns the handle of that.)
CanCancel ==
    base = "dfl" =>
        \A f \in Range(stack) :
            (f.at = "read" /\ \E n \in Nodes : Active(n) /\ node[n].id = f.id)
                => f.tp # Nil /\ node[f.tp].id = f.id

\* The timers that are set; one whose action is about to be called still
\* stands for the time it was set for.
ArmedNow ==
    [i \in {node[n].id : n \in {m \in Nodes : Active(m)}} |->
        LET n == CHOOSE n \in Nodes : Active(n) /\ node[n].id = i
            called == {f \in Range(stack) : f.at = "act" /\ f.tp = n}
        IN  [due  |-> IF called = {} THEN node[n].wakeup ELSE (CHOOSE f \in called : TRUE).d,
             incr |-> node[n].incr]]

\* The lists, the handler and the alarm implement the service their users
\* expect: no timer goes off early, or twice for one setting, or before one
\* that was due earlier, and none that has been taken back.
Service == INSTANCE TimerService WITH armed <- ArmedNow, Ids <- 1..MaxAdds
RefinesService == Service!Spec

\* A timer that is set goes off or is taken back, unless one of the timings
\* recorded in odd was met.
GoesOff ==
    \A i \in 1..MaxAdds :
        (i \in DOMAIN ArmedNow /\ ArmedNow[i].due <= MaxTime)
            ~> (i \notin DOMAIN ArmedNow \/ fired[i] > 0 \/ odd # {})
=============================================================================
