------------------------------- MODULE IoSave -------------------------------
(***************************************************************************)
(* The descriptors of the shell under redirections (sh/io.c): the table    *)
(* filemap of saved descriptors that sh_iosave() fills and sh_iorestore()  *)
(* empties, the back pointers fdptrs that let a saved descriptor be moved  *)
(* when a script asks for its number, the streams sftable, and the ways    *)
(* sh_exec(), sh_subshell() and exfile() use them: commands with           *)
(* redirections, exec and redirect, virtual subshells, and jumps out of    *)
(* all of these.                                                           *)
(*                                                                         *)
(* Descriptors 0 to 2 are always open here.  Base stands for 10, the least *)
(* descriptor the shell takes for itself.  What a descriptor is open on is *)
(* all that is kept of it: access modes, offsets and close-on-exec do not  *)
(* decide where it is saved or restored to.                                *)
(***************************************************************************)
EXTENDS Naturals, FiniteSets, FiniteSetsExt, Sequences, SequencesExt

CONSTANTS
    Files,      \* what descriptors can be open on
    Closed,
    Dir,        \* a directory: the descriptor by which a subshell returns to it
    Base,       \* 10 in the code
    MaxFd,      \* bound: greatest descriptor
    MaxTop,     \* bound: entries of filemap
    MaxHeld,    \* bound: descriptors a script holds by {v}>
    MaxDepth,   \* bound: nested commands and subshells
    MaxRedirs,  \* bound: redirections in a run
    Followed    \* the unusual cases that are followed further, see OddCases

ASSUME ConstantsAssumption ==
    /\ Closed \notin Files /\ Dir \notin Files /\ Dir # Closed
    /\ {Base, MaxFd, MaxTop, MaxDepth, MaxHeld, MaxRedirs} \subseteq Nat /\ 3 < Base /\ Base < MaxFd

Fds == 3..MaxFd
Digits == 3..(Base - 1)
High == Base..MaxFd
Slots == 1..MaxTop

VARIABLES
    io,         \* the tables, a record:
                \*   fd      the descriptors of the process
                \*   sf      sftable: the descriptor of the stream in each place, 0: none
                \*   ptr     fdptrs: the slot of filemap to tell when it moves, 0: none
                \*   inuse   inuse_bits
                \*   map     filemap: orig_fd, save_fd (0 for -1), subshell
                \*   top     sh.topfd
    var,        \* the value of the variable of {v}> (0: none)
    frames,     \* the commands with redirections ("io") and subshells ("sub")
                \* that are running, innermost last: the topfd of the checkpoint,
                \* sp->fdsaved, sp->pwdfd, whether it is its own, and the variable to
                \* restore; and, to compare with,
                \* what the script's descriptors were before (was) and which of
                \* them the command has redirected (mine)
    indx,       \* indx of sh_redirect(): topfd when its redirections began
    pc,         \* "idle" between commands, "io" and "exec" while redirections are
                \* done, "abort" while jumping out
    held,       \* numbers the script has from {v}> and has not closed
    redirs,     \* number of redirections done
    odd         \* unusual cases that have occurred, see OddCases

vars == <<io, var, frames, indx, pc, held, redirs, odd>>

\* What redirections do that scripts would not expect.  A run goes on after the
\* cases in Followed and stops at any other; the properties speak of states
\* without one of those.  With each case followed, one of them is violated.
\*   shadow    in a subshell, exec changes a descriptor that a command around
\*             it, in the same subshell, has redirected
\*   moved     exec n>&m- in a subshell: the closing of m is not undone
\*   varclosed {v}>&- of a command or in a subshell: the same
\*   picked    exec {v}>file in a subshell inside a command with redirections:
\*             closed at the end of that command
\*   high      {v}>file when no digit is free: nothing is saved, so the
\*             descriptor stays open after the command or the subshell
\*   reused    a number that was given by {v}> and closed is used for a saved
\*             descriptor while filemap still has it as one to be restored
\*   stale     a back pointer is used after filemap has been compacted
\*   streamed  a saved descriptor moves by moving its stream, which reads
\*             from another one
\*   pwdfd     {v}>&- closes the descriptor that a subshell keeps for its directory
\*   preserved exec on a descriptor with a stream that is not in inuse_bits:
\*             the old one is kept, by no one
OddCases == {"shadow", "moved", "varclosed", "picked", "high", "reused",
             "stale", "streamed", "pwdfd", "preserved"}

NoSlot == [orig |-> 0, save |-> 0, sub |-> FALSE]

\* A script may have inherited descriptors, and may set the variable itself.
Init ==
    /\ \E x \in Files : \E y \in (Files \ {x}) \cup {Closed} :
          io = [fd |-> [f \in Fds |-> IF f = 3 THEN x ELSE IF f = 4 THEN y ELSE Closed],
                sf |-> [f \in Fds |-> 0], ptr |-> [f \in Fds |-> 0], inuse |-> {},
                map |-> [i \in Slots |-> NoSlot], top |-> 0]
    /\ var \in {0, Base} /\ frames = <<>> /\ indx = 0 /\ pc = "idle" /\ held = {} /\ redirs = 0 /\ odd = {}

-----------------------------------------------------------------------------
\* System calls and sh/io.c.  s is a record like io.

\* The descriptor that open() (n = 3) or F_DUPFD returns.
Free(s, n) == Min({f \in Fds : f >= n /\ s.fd[f] = Closed} \cup {MaxFd})

\* sh_close(); closing a stream closes the descriptor of the stream.
ShClose(s, f) ==
    LET c == IF s.sf[f] = 0 THEN f ELSE s.sf[f]
        i == s.ptr[f]
    IN  [s EXCEPT !.fd[c] = Closed, !.sf = [@ EXCEPT ![f] = 0, ![c] = 0],
                  !.inuse = @ \ {f}, !.ptr[f] = 0,
                  !.map = IF i = 0 THEN @ ELSE [@ EXCEPT ![i].save = 0]]

\* io_preserve(): move the stream, or copy the descriptor, and tell the owner.
IoPreserve(s, f) ==
    LET c == IF s.sf[f] = 0 THEN f ELSE s.sf[f]
        n == Free(s, Base)
        i == s.ptr[f]
    IN  [s EXCEPT !.fd = IF s.sf[f] = 0 THEN [@ EXCEPT ![n] = s.fd[c]]
                         ELSE [@ EXCEPT ![n] = s.fd[c], ![c] = Closed],
                  !.sf = [@ EXCEPT ![n] = IF s.sf[f] = 0 THEN 0 ELSE n, ![f] = 0],
                  !.ptr = [@ EXCEPT ![n] = i, ![f] = 0],
                  !.map = IF i = 0 THEN @ ELSE [@ EXCEPT ![i].save = n]]

\* sh_iorenumber(): move f1 to f2.
Preserves(s, f2) == (s.ptr[f2] # 0 \/ s.sf[f2] # 0) /\ f2 \notin s.inuse

IoRenumber(s, f1, f2) ==
    IF f1 = f2 THEN s
    ELSE LET a == ShClose(IF Preserves(s, f2) THEN IoPreserve(s, f2) ELSE s, f2)
         IN  ShClose([a EXCEPT !.fd[f2] = a.fd[f1]], f1)

\* sh_iosave(): once for each descriptor and command; a descriptor that is not
\* open, or was picked by the shell, is to be closed again.
Saved(s, f, old) == \E i \in (old + 1)..s.top : s.map[i].orig = f

Push(s, f, n, sub) ==
    [s EXCEPT !.map[s.top + 1] = [orig |-> f, save |-> n, sub |-> sub], !.top = @ + 1]

\* Faulty variant: saved once for all commands.
IoSaveOnce(s, f, old, sub) ==
    IF Saved(s, f, 0) THEN s
    ELSE IF s.fd[f] = Closed THEN Push(s, f, 0, sub)
    ELSE LET n == Free(s, Base) IN
         [Push(s, f, n, sub) EXCEPT !.fd[n] = s.fd[f], !.ptr[n] = s.top + 1,
                                    !.sf = [@ EXCEPT ![n] = s.sf[f], ![f] = 0]]

IoSave(s, f, old, sub) ==
    IF Saved(s, f, old) THEN s
    ELSE IF s.fd[f] = Closed THEN Push(s, f, 0, sub)
    ELSE LET n == Free(s, Base) IN
         [Push(s, f, n, sub) EXCEPT !.fd[n] = s.fd[f], !.ptr[n] = s.top + 1,
                                    !.sf = [@ EXCEPT ![n] = s.sf[f], ![f] = 0]]

IoSavePicked(s, f, old) == IF Saved(s, f, old) THEN s ELSE Push(s, f, 0, FALSE)

\* Faulty variant: the copy is not closed.
RestoreSlotKeeps(s, i) ==
    LET f == s.map[i].orig
        a == ShClose(s, f)
        n == a.map[i].save
    IN  IF n = 0 THEN a
        ELSE [a EXCEPT !.fd[Free(a, f)] = a.fd[n],
                       !.sf = [@ EXCEPT ![f] = a.sf[n], ![n] = 0], !.ptr[n] = 0]

\* One turn of the loop of sh_iorestore().
RestoreSlot(s, i) ==
    LET f == s.map[i].orig
        a == ShClose(s, f)
        n == a.map[i].save
        b == IF a.fd[n] = Closed THEN a ELSE [a EXCEPT !.fd[Free(a, f)] = a.fd[n]]
    IN  IF n = 0 THEN a
        ELSE ShClose([b EXCEPT !.sf = [@ EXCEPT ![f] = b.sf[n], ![n] = 0]], n)

\* sh_iorestore(last): everything above last but, unless a subshell ends, the
\* entries of exec in a subshell, which move down.
IoRestore(s, last, all) ==
    LET after[i \in last..s.top] ==
            IF i = s.top THEN s
            ELSE IF s.map[i + 1].sub /\ ~all THEN after[i + 1]
            ELSE RestoreSlot(after[i + 1], i + 1)
        t == after[last]
        keep == IF all THEN <<>>
                ELSE SelectSeq([k \in 1..(s.top - last) |-> t.map[last + k]], LAMBDA e : e.sub)
    IN  [t EXCEPT !.top = last + Len(keep),
                  !.map = [i \in Slots |-> IF i <= last THEN @[i]
                                           ELSE IF i - last <= Len(keep) THEN keep[i - last]
                                           ELSE NoSlot]]

\* sh_iounsave(): a forked child closes what is saved.
IoUnsave(s) ==
    LET after[i \in 0..s.top] ==
            IF i = 0 THEN s
            ELSE LET a == after[i - 1]
                     n == a.map[i].save
                 IN  IF n = 0 THEN a ELSE ShClose([a EXCEPT !.sf[n] = 0], n)
        t == after[s.top]
        keep == SetToSortSeq({i \in 1..s.top : after[i - 1].map[i].save = 0}, <)
    IN  [t EXCEPT !.top = Len(keep),
                  !.map = [i \in Slots |-> IF i <= Len(keep) THEN s.map[keep[i]] ELSE NoSlot]]

-----------------------------------------------------------------------------
\* What the script sees of the descriptors.
Visible == [f \in Fds |-> IF f \in Digits \cup held THEN io.fd[f] ELSE Closed]

Live == {i \in 1..io.top : io.map[i].save # 0}

Subs == {k \in DOMAIN frames : frames[k].kind = "sub"}
InSub == Subs # {}
Sub == Max(Subs)

\* sh_subsavefd(): the first time exec changes f in this subshell.
SubSaves(f) == InSub /\ f \notin frames[Sub].saved

Saves(f) == pc = "io" \/ SubSaves(f)
Save(s, f) == IF Saves(f) THEN IoSave(s, f, indx, pc # "io") ELSE s

\* The frames after redirections of S.
Noted(S) ==
    IF pc = "io" THEN [frames EXCEPT ![Len(frames)].mine = @ \cup S]
    ELSE IF InSub THEN [frames EXCEPT ![Sub].saved = @ \cup (S \cap Digits)]
    ELSE frames

When(c, P) == IF P THEN {c} ELSE {}

Shadows(f) == /\ pc = "exec" /\ SubSaves(f)
              /\ \E k \in (Sub + 1)..Len(frames) : f \in frames[k].mine
Reuses(s) == \E i, j \in 1..s.top : s.map[i].save # 0 /\ s.map[i].save = s.map[j].orig

\* Put the file that is open at t in the place of f: the end of a turn of the
\* loop of sh_redirect().
Place(s, t, f) ==
    LET n == Free(s, Base)
        a == IF t = f /\ Saves(f) THEN ShClose([s EXCEPT !.fd[n] = s.fd[t]], f) ELSE s
        b == Save(a, f)
    IN  [IoRenumber(b, IF t = f /\ Saves(f) THEN n ELSE t, f) EXCEPT !.inuse = @ \cup {f}]

Kept(s, t, f) == t # f /\ Preserves(Save(s, f), f)

\* Bounds: enough descriptors for what one redirection needs, and slots.
Fits(n) == io.top + n <= MaxTop /\ Cardinality({f \in High : io.fd[f] = Closed}) >= 3

\* f>file
OpenTo(f, x) ==
    LET t == Free(io, 3)
        s == [io EXCEPT !.fd[t] = x]
    IN  /\ pc \in {"io", "exec"} /\ Fits(1)
        /\ io' = Place(s, t, f)
        /\ frames' = Noted({f})
        /\ odd' = odd \cup When("shadow", Shadows(f)) \cup When("preserved", Kept(s, t, f))
                       \cup When("reused", Reuses(io'))
        /\ UNCHANGED <<var, indx, pc, held>>

\* f>&d
DupTo(f, d) ==
    LET t == Free(io, 3)
        s == [io EXCEPT !.fd[t] = io.fd[d]]
    IN  /\ pc \in {"io", "exec"} /\ Fits(1) /\ Visible[d] # Closed
        /\ io' = Place(s, t, f)
        /\ frames' = Noted({f})
        /\ odd' = odd \cup When("shadow", Shadows(f)) \cup When("preserved", Kept(s, t, f))
                       \cup When("reused", Reuses(io'))
        /\ UNCHANGED <<var, indx, pc, held>>

\* f>&d-: as before, but d is saved (by a command, not by exec) and closed first.
MoveTo(f, d) ==
    LET t == Free(io, 3)
        s == [io EXCEPT !.fd[t] = io.fd[d]]
        c == ShClose(IF pc = "io" THEN IoSave(s, d, indx, FALSE) ELSE s, d)
    IN  /\ pc \in {"io", "exec"} /\ Fits(2) /\ Visible[d] # Closed /\ d # f
        /\ io' = Place(c, t, f)
        /\ frames' = Noted(IF pc = "io" THEN {f, d} ELSE {f})
        /\ held' = held \ {d}
        /\ odd' = odd \cup When("shadow", Shadows(f)) \cup When("preserved", Kept(c, t, f))
                       \cup When("reused", Reuses(io')) \cup When("moved", pc = "exec" /\ SubSaves(d))
        /\ UNCHANGED <<var, indx, pc>>

\* f>&-
CloseFd(f) ==
    /\ pc \in {"io", "exec"} /\ Fits(1)
    /\ io' = ShClose(Save(io, f), f)
    /\ frames' = Noted({f})
    /\ odd' = odd \cup When("shadow", Shadows(f)) \cup When("reused", Reuses(io'))
    /\ UNCHANGED <<var, indx, pc, held>>

\* {v}>file: the descriptor is moved to one of the shell's; it is entered to be
\* closed, but not by exec outside of subshells.
OpenVar(x) ==
    LET t == Free(io, 3)
        s == [io EXCEPT !.fd[t] = x]
        n == IF t < Base THEN Free(io, Base) ELSE t
        a == [s EXCEPT !.fd[n] = x]
        b == IF pc = "io" \/ InSub THEN IoSavePicked(a, n, indx) ELSE a
    IN  /\ pc \in {"io", "exec"} /\ Fits(1) /\ Cardinality(held) < MaxHeld
        /\ io' = IF t < Base THEN ShClose(b, t) ELSE s
        /\ var' = n /\ held' = held \cup {n}
        /\ frames' = IF pc = "io" THEN Noted({n}) ELSE frames
        /\ odd' = odd \cup When("high", t >= Base /\ (pc = "io" \/ InSub))
                       \cup When("picked", pc = "exec" /\ InSub /\ Sub < Len(frames))
        /\ UNCHANGED <<indx, pc>>

\* Faulty variant: what the shell has saved there is closed.
CloseVarRaw ==
    /\ pc \in {"io", "exec"} /\ Fits(1) /\ var # 0
    /\ io' = [io EXCEPT !.fd[var] = Closed, !.sf[var] = 0]
    /\ held' = held \ {var}
    /\ UNCHANGED <<var, frames, indx, pc, odd>>

\* {v}>&-: if the shell itself uses the descriptor by now, it moves it first.
CloseVar ==
    LET owned == io.ptr[var] # 0 IN
    /\ pc \in {"io", "exec"} /\ Fits(1) /\ var # 0
    /\ io' = ShClose(IF owned THEN IoPreserve(io, var) ELSE io, var)
    /\ held' = held \ {var}
    /\ frames' = IF pc = "io" /\ var \in held THEN Noted({var}) ELSE frames
    /\ odd' = odd
         \cup When("varclosed", /\ var \in held
                                /\ \/ pc = "io" /\ Last(frames).was[var] # Closed
                                   \/ InSub /\ frames[Sub].was[var] # Closed)
         \cup When("stale", owned /\ io.map[io.ptr[var]].save # var)
         \cup When("reused", Reuses(io'))
         \cup When("pwdfd", io.fd[var] = Dir)
         \cup When("streamed", owned /\ io.sf[var] # 0)
    /\ UNCHANGED <<var, indx, pc>>

-----------------------------------------------------------------------------
\* sh_exec(), sh_subshell(), exfile()

Frame(k) == [kind |-> k, top |-> io.top, saved |-> {}, mine |-> {}, was |-> Visible,
             var |-> IF k = "sub" THEN var ELSE 0, pwdfd |-> 0, pwdclose |-> FALSE]

\* A command with redirections: a compound one, a builtin or a function.
Command ==
    /\ pc = "idle" /\ Len(frames) < MaxDepth
    /\ frames' = Append(frames, Frame("io"))
    /\ pc' = "io" /\ indx' = io.top
    /\ UNCHANGED <<io, var, held, redirs, odd>>

\* exec or redirect without a command
Exec ==
    /\ pc = "idle"
    /\ pc' = "exec" /\ indx' = io.top
    /\ UNCHANGED <<io, var, frames, held, redirs, odd>>

Run ==
    /\ pc \in {"io", "exec"}
    /\ pc' = "idle" /\ indx' = 0
    /\ UNCHANGED <<io, var, frames, held, redirs, odd>>

\* A subshell keeps a descriptor for the directory it is to return to; one
\* inside another may use the same.
SubBegin ==
    /\ pc = "idle" /\ Len(frames) < MaxDepth /\ Fits(0)
    /\ \/ /\ InSub
          /\ frames' = Append(frames, [Frame("sub") EXCEPT !.pwdfd = frames[Sub].pwdfd])
          /\ UNCHANGED io
       \/ LET n == Free(io, Base) IN
          /\ io' = [io EXCEPT !.fd[n] = Dir]
          /\ frames' = Append(frames, [Frame("sub") EXCEPT !.pwdfd = n, !.pwdclose = TRUE])
    /\ UNCHANGED <<var, indx, pc, held, redirs, odd>>

\* The innermost command or subshell ends.
Leave ==
    LET fr == Last(frames)
        had == {f \in High : fr.was[f] # Closed}
        s == IF fr.pwdclose THEN [io EXCEPT !.fd[fr.pwdfd] = Closed] ELSE io
    IN
    /\ frames # <<>>
    /\ io' = IoRestore(s, fr.top, fr.kind = "sub")
    /\ frames' = Front(frames)
    /\ var' = IF fr.kind = "sub" THEN fr.var ELSE var
    /\ held' = IF fr.kind = "sub" THEN had ELSE (held \ fr.mine) \cup (had \cap fr.mine)
    /\ indx' = 0 /\ UNCHANGED <<redirs, odd>>

End == pc = "idle" /\ Leave /\ UNCHANGED pc

\* A redirection fails after others were done.  A command is left; redirect
\* keeps what it has done; exec, a special builtin, gives up.
CommandFails == pc = "io" /\ Leave /\ pc' = "idle"
ExecFails ==
    /\ pc = "exec"
    /\ pc' \in {"idle", "abort"} /\ indx' = 0
    /\ UNCHANGED <<io, var, frames, held, redirs, odd>>

\* A fatal error or exit in the commands.
Abort ==
    /\ pc = "idle" /\ frames # <<>>
    /\ pc' = "abort"
    /\ UNCHANGED <<io, var, frames, indx, held, redirs, odd>>

\* The jump goes from checkpoint to checkpoint, up to a subshell,
AbortFrame ==
    /\ pc = "abort" /\ Leave
    /\ pc' = IF Last(frames).kind = "sub" THEN "idle" ELSE "abort"

\* or to exfile(), which restores all.
AbortTop ==
    /\ pc = "abort" /\ frames = <<>>
    /\ io' = IoRestore(io, 0, FALSE)
    /\ pc' = "idle"
    /\ UNCHANGED <<var, frames, indx, held, redirs, odd>>

\* A child is forked; this is the child, before it does anything.
Fork ==
    /\ pc = "idle"
    /\ io' = IoUnsave(io)
    /\ pc' = "child"
    /\ odd' = odd \cup When("stale", \E i \in Live : io.ptr[io.map[i].save] # i)
    /\ UNCHANGED <<var, frames, indx, held, redirs>>

\* read -u or print -u makes a stream for a descriptor.
IoStream(f) ==
    /\ pc = "idle" /\ Visible[f] # Closed
    /\ io' = [io EXCEPT !.sf[f] = f]
    /\ UNCHANGED <<var, frames, indx, pc, held, redirs, odd>>

Redirection ==
    /\ redirs < MaxRedirs /\ redirs' = redirs + 1
    /\ \/ \E f \in Digits : \/ \E x \in Files : OpenTo(f, x)
                             \/ \E d \in Fds : DupTo(f, d) \/ MoveTo(f, d)
                             \/ CloseFd(f)
       \/ \E x \in Files : OpenVar(x)
       \/ CloseVar

Step ==
    \/ Redirection
    \/ Command \/ Exec \/ Run \/ SubBegin \/ End
    \/ CommandFails \/ ExecFails \/ Abort \/ AbortFrame \/ AbortTop
    \/ Fork
    \/ \E f \in Fds : IoStream(f)

Next == odd \subseteq Followed /\ Step

Spec == Init /\ [][Next]_vars

-----------------------------------------------------------------------------
\* Types; a saved copy is never on a number of the script's.
TypeOK ==
    /\ io.fd \in [Fds -> Files \cup {Closed, Dir}] /\ io.sf \in [Fds -> Fds \cup {0}]
    /\ io.ptr \in [Fds -> Slots \cup {0}] /\ io.inuse \subseteq Digits
    /\ io.map \in [Slots -> [orig : Fds \cup {0}, save : High \cup {0}, sub : BOOLEAN]]
    /\ io.top \in 0..MaxTop /\ indx \in 0..MaxTop
    /\ var \in High \cup {0} /\ held \subseteq High /\ odd \subseteq OddCases
    /\ pc \in {"idle", "io", "exec", "abort", "child"} /\ Len(frames) <= MaxDepth

Usual == odd \subseteq Followed

Descr == INSTANCE Descriptors WITH
    open <- Visible,
    scopes <- [k \in DOMAIN frames |->
                 [kind |-> frames[k].kind, was |-> frames[k].was, mine |-> frames[k].mine]]

\* The descriptors a script sees behave as the manual says: sh_iorestore() undoes
\* the redirections of a command, all of them and no others, whether it ends, one
\* of them fails or a jump leaves it; those of exec last, and a subshell leaves
\* all descriptors as it found them.
RefinesDescriptors ==
    Descr!Init /\ [][odd' \subseteq Followed => UNCHANGED Descr!vars \/ Descr!Next]_vars

\* What filemap says is saved is still open, each under a number of its own,
\* whatever numbers scripts close, redirect and reuse meanwhile (io_preserve() and
\* the back pointers see to that); and all is of its type.
SavedSafe ==
    /\ TypeOK
    /\ Usual => \A i \in Live : /\ io.fd[io.map[i].save] # Closed
                                /\ \A j \in Live \ {i} : io.map[i].save # io.map[j].save

\* Between commands the shell has no descriptor above the script's but those that
\* {v}> has given to the script, the saved ones and the directories of subshells,
\* and at top level nothing is saved: no sequence of redirections, failures and
\* jumps leaks one.  A forked child keeps none of the saved ones.
NoLeak ==
    Usual /\ pc \in {"idle", "child"} =>
        /\ {f \in High : io.fd[f] # Closed} =
              held \cup {io.map[i].save : i \in Live} \cup {frames[k].pwdfd : k \in Subs}
        /\ pc = "child" => Live = {}
        /\ frames = <<>> /\ pc = "idle" => io.top = 0

\* What sh.1 says of subshells: a subshell that ends leaves the descriptors of the
\* script as they were when it began.
SubshellLeavesAll ==
    [][(Len(frames') < Len(frames) /\ Last(frames).kind = "sub")
          => Visible' = Last(frames).was]_vars
=============================================================================
