------------------------------ MODULE History ------------------------------
(***************************************************************************)
(* The command history of src/cmd/ksh93/edit/history.c: one file that      *)
(* every interactive shell with the same HISTFILE appends to, and the      *)
(* table of offsets each of them keeps.  Shells start, read what others    *)
(* have written, append commands and markers, cancel commands, trim the    *)
(* file into a new one and touch it to keep others from trimming.          *)
(*                                                                         *)
(* The file is a sequence of cells.  A command is a body and its null      *)
(* byte; a long one, which goes out in pieces, has two cells of body.  The *)
(* two special sequences and the stamp at the front are a cell each.  An   *)
(* offset is the number of cells before it.                                *)
(***************************************************************************)
EXTENDS Integers, FiniteSets, Sequences, SequencesExt

CONSTANTS Shells,
          Before,    \* commands in the file before the first shell starts
          Size,      \* histsize, from HISTSIZE
          Slots,     \* entries of histcmds, histmask+1
          Gap,       \* HIST_BSIZE/2: cells after which a marker is due
          Window,    \* how near the end sh_histinit() looks for a marker first
          HistMax,   \* HIST_MAX: a longer file is trimmed
          Radix,     \* the values of a byte of a marker
          Recent,    \* HIST_RECENT, in ticks; a file is touched one tick earlier
          MaxCmds,   \* bound: commands typed
          MaxLong,   \* bound: of these, the first ones may be long
          MaxFiles,  \* bound: files created
          MaxCells,  \* bound: cells of a file
          MaxOpens   \* bound: times the file is opened

ASSUME ConstantsAssumption ==
    /\ Before \in Nat /\ Size \in Nat \ {0} /\ Slots \in Nat /\ Slots > Size
    /\ Radix \in Nat /\ Radix > 1
    /\ {Gap, Window, HistMax} \subseteq Nat \ {0}
    /\ Recent \in Nat \ {0, 1} /\ MaxFiles \in Nat \ {0}
    /\ {MaxCmds, MaxLong, MaxCells, MaxOpens} \subseteq Nat

VARIABLES files,   \* the files, also those that have been unlinked: cells and age
          path,    \* the file that has the name, 0 if there is none
          h,       \* History_t of each shell, and where its code is
          due,     \* ticks until a shell touches the file, 0 if no timer is set
          ahead,   \* shells whose file was written by another since they read it
          fresh,   \* shells that have not used the file since they opened it
          opens,   \* how often the file has been opened
          typed,   \* commands typed so far
          odd      \* cases met in which tables go wrong: "overtaken" (a shell that was
                   \* in ahead has written), "skipped" (one has come to an empty line),
                   \* "short" (a write failed half way), "unended" (fc runs, and its own
                   \* line has no end in the file), "stamps" (two shells have stamped one
                   \* file), "first" (hist_cancel() in a repair has hit the entry of
                   \* command 1), "unset" (a marker has the number the table is to
                   \* start with), "wrapped" (the low byte of a marker read is 0)

vars == <<files, path, h, due, ahead, fresh, opens, typed, odd>>

Cell(k, n) == [k |-> k, n |-> n]
Stamp == Cell("stamp", 0)
Nul == Cell("nul", 0)
Undo == Cell("undo", 0)
Command(c) == <<Cell("body", c), Nul>>
Marker(n) == <<Cell("mark", n)>>

Cells(s) == files[h[s].ino].cells
\* histcmds[hist_ind(hp, n)]
Tell(hp, n) == hp.cmds[n % Slots]
SetCmd(cmds, n, offset) == [cmds EXCEPT ![n % Slots] = offset]

-----------------------------------------------------------------------------
(* Reading: hist_eof() and hist_nearend() *)

\* Faulty variant: the number of the next command, where the loop adds one to it.
NumberUnshifted(n) == n

\* ((marker[0]<<16)|(marker[1]<<8)|marker[2] -1): the low byte goes from 0 to -1
\* without a borrow, and -1 has all bits of the others.
Number(n) == IF n % Radix = 0 THEN -1 ELSE n - 1

\* One cell read in the loop of hist_eof().  st is where the loop is: "new" at
\* the first cell, "cmd" inside a command (incmd), "nul" after its null bytes,
\* "start" after a special sequence.
ReadCell(a, x, init) ==
    LET q == a.p + 1
        next(i, st) == [a EXCEPT !.ind = i, !.cmds = SetCmd(@, i, q), !.p = q, !.st = st]
        inside == [a EXCEPT !.p = q, !.st = "cmd"]
    IN  CASE a.st = "cmd" -> IF x.k \in {"body", "stamp"} THEN inside ELSE next(a.ind + 1, "nul")
          [] a.st # "cmd" /\ x.k = "undo" -> next(a.ind - 1, "start")
          [] a.st # "cmd" /\ x.k = "mark" ->
                [next(IF init THEN a.ind ELSE Number(x.n) + 1, "start") EXCEPT !.mark = q]
          [] a.st # "cmd" /\ x.k = "stamp" -> next(a.ind + 1, "cmd")
          [] a.st # "cmd" /\ x.k = "nul" -> next(IF a.st = "nul" THEN a.ind ELSE a.ind + 1, "nul")
          [] OTHER -> inside

\* The loop from a's position to the end of the file.
ReadOn(a, cells, init) ==
    LET b[i \in 0..Len(cells)] == IF i <= a.p THEN a ELSE ReadCell(b[i - 1], cells[i], init)
    IN  b[Len(cells)]

Reader(hp, st) == [ind |-> hp.ind, cmds |-> hp.cmds, mark |-> hp.mark, p |-> hp.cnt, st |-> st]
Table(hp, a) == [hp EXCEPT !.ind = a.ind, !.cmds = a.cmds, !.mark = a.mark, !.cnt = a.p]

\* hist_eof() up to its end, or up to the point where it has found the file to
\* end inside a command: it takes a special sequence at the end for that, too.
HistEof(hp, cells, ret) ==
    LET a == ReadOn(Reader(hp, "new"), cells, hp.init) IN
    IF a.st \in {"cmd", "start"} THEN [Table(hp, a) EXCEPT !.pc = "repair", !.ret = ret]
    ELSE [Table(hp, a) EXCEPT !.pc = ret]

\* The number of the first marker after offset from, and the offset after it;
\* the beginning of the file if there is none.
NearEnd(cells, from) ==
    LET at == {p \in 1..Len(cells) : p > from + 1 /\ cells[p].k = "mark" /\ cells[p - 1].k = "nul"}
    IN  IF from <= 1 \/ at = {} THEN [ind |-> 1, cnt |-> 1]
        ELSE LET p == CHOOSE p \in at : \A q \in at : p <= q IN [ind |-> cells[p].n, cnt |-> p]

At(hp, near) == [hp EXCEPT !.ind = near.ind, !.cnt = near.cnt, !.mark = near.cnt]

-----------------------------------------------------------------------------
(* The meaning of a file, by the comment at the head of history.c *)

\* The commands that have been ended, in order; a cancelled one is left out, 0
\* is an empty one.  What is written after a piece belongs to the same command,
\* and the null byte of a special sequence ends it like any other.
Live(cells) ==
    FoldLeft(LAMBDA a, i :
        CASE cells[i].k = "body" -> [a EXCEPT !.open = IF @ = <<>> THEN <<cells[i].n>> ELSE @]
          [] cells[i].k # "body" /\ a.open # <<>> -> [all |-> a.all \o a.open, open |-> <<>>]
          [] cells[i].k = "undo" /\ a.open = <<>> ->
                [a EXCEPT !.all = IF @ = <<>> THEN @ ELSE Front(@)]
          [] cells[i].k = "nul" /\ a.open = <<>> /\ cells[i - 1].k # "nul" ->
                [a EXCEPT !.all = Append(@, 0)]
          [] OTHER -> a,
        [all |-> <<>>, open |-> <<>>], [i \in 1..Len(cells) |-> i]).all

Newest(l, n) == IF Len(l) <= n THEN l ELSE SubSeq(l, Len(l) - n + 1, Len(l))

\* What a shell lists as command n, and the commands it can list.
Text(cells, offset) ==
    IF offset < Len(cells) /\ cells[offset + 1].k = "body" THEN cells[offset + 1].n ELSE 0
Least(hp) == IF hp.ind - Size >= 1 THEN hp.ind - Size ELSE 1
Listed(hp, cells) ==
    [i \in 1..(IF hp.ind > Least(hp) THEN hp.ind - Least(hp) ELSE 0) |->
        Text(cells, Tell(hp, Least(hp) + i - 1))]
-----------------------------------------------------------------------------
(* The steps of a shell *)

None == [ino |-> 0, ind |-> 0, cnt |-> 0, cmds |-> [i \in 0..(Slots - 1) |-> 0]]

\* new_of(History_t): an empty table for the file.
NewTable(ino, hsize, init, old) ==
    [pc |-> "opened", ino |-> ino, hsize |-> hsize, ind |-> 1, cnt |-> 1, mark |-> 0, first |-> 1,
     cmds |-> [i \in 0..(Slots - 1) |-> IF i = 1 THEN 1 ELSE 0],
     init |-> init, old |-> old, cmd |-> 0, ret |-> "off"]

\* The cells from an offset on, up to the first null byte.
Copied(cells, offset) ==
    LET ends == {p \in (offset + 1)..Len(cells) : cells[p].k \notin {"body", "stamp"}}
    IN  IF ends = {} THEN <<>>
        ELSE SubSeq(cells, offset + 1, CHOOSE p \in ends : \A q \in ends : p <= q)

\* One command copied into the new file, and a marker when one is due; an entry
\* of the table that has no command has nothing to copy.
CopyOne(b, x) ==
    IF x = <<>> THEN b ELSE
    LET end == b.cnt + Len(x)
        mark == end > b.mark + Gap
        n == b.ind + 1
        to == IF mark THEN end + 1 ELSE end
    IN  [b EXCEPT !.ind = n, !.cnt = to, !.cmds = SetCmd(@, n, to),
                  !.mark = IF mark THEN to ELSE @,
                  !.out = @ \o x \o (IF mark THEN Marker(n) ELSE <<>>)]

CopyAll(hp, commands) ==
    LET none == [ind |-> hp.ind, cnt |-> hp.cnt, cmds |-> hp.cmds, mark |-> hp.mark, out |-> <<>>]
        b[i \in 0..Len(commands)] == IF i = 0 THEN none ELSE CopyOne(b[i - 1], commands[i])
    IN  b[Len(commands)]

InitialCells ==
    <<Stamp>> \o CopyAll(NewTable(0, 0, FALSE, None), [c \in 1..Before |-> Command(c)]).out

\* At first there is no file, a file that is no history, or a history of any age.
Init ==
    /\ \/ files = <<>> /\ path = 0
       \/ files = <<[cells |-> <<Cell("body", 0)>>, age |-> Recent]>> /\ path = 1
       \/ /\ \E age \in 0..Recent : files = <<[cells |-> InitialCells, age |-> age]>>
          /\ path = 1
    /\ h = [s \in Shells |-> [NewTable(0, 0, FALSE, None) EXCEPT !.pc = "off"]]
    /\ due = [s \in Shells |-> 0]
    /\ ahead = {} /\ fresh = {}
    /\ opens = 0 /\ typed = 0
    /\ odd = {}

Goes(s, hp) == h' = [h EXCEPT ![s] = hp]

\* s changes the time of its file; too late if another has found it unused before.
Uses(s) == fresh' = IF \E t \in Shells : h[t].pc = "unlink" /\ h[t].ino = h[s].ino
                    THEN fresh ELSE fresh \ {s}

\* s appends to its file, which is open with O_APPEND.
Writes(s, x) ==
    LET ino == h[s].ino IN
    /\ Len(files[ino].cells \o x) <= MaxCells
    /\ files' = [files EXCEPT ![ino] = [cells |-> @.cells \o x, age |-> 0]]
    /\ ahead' = ahead \cup {t \in Shells \ {s} : h[t].ino = ino /\ h[t].pc # "off"}
    /\ Uses(s)

\* s has seen all that is in its file.
Reads(s) == ahead' = ahead \ {s} /\ UNCHANGED <<files, fresh>>

Overtaken(s) == IF s \in ahead THEN {"overtaken"} ELSE {}

\* sh_histinit() opens the file, or creates it.
Open(s) ==
    /\ h[s].pc \in {"off", "reopen"} /\ opens < MaxOpens /\ opens' = opens + 1
    /\ \/ /\ path # 0
          /\ Goes(s, NewTable(path, Len(files[path].cells), h[s].init, h[s].old))
          /\ UNCHANGED <<files, path>>
       \/ /\ path = 0 /\ Len(files) < MaxFiles
          /\ files' = Append(files, [cells |-> <<>>, age |-> 0])
          /\ path' = Len(files')
          /\ Goes(s, NewTable(path', 0, h[s].init, h[s].old))
    /\ ahead' = ahead \ {s} /\ fresh' = fresh \cup {s}
    /\ UNCHANGED <<due, typed, odd>>

\* A file that does not begin with HIST_UNDO is unlinked, by its name.
HistCheck(s) ==
    /\ h[s].pc = "opened" /\ h[s].hsize > 0 /\ Cells(s)[1].k # "stamp"
    /\ path' = 0
    /\ Goes(s, [h[s] EXCEPT !.pc = "reopen", !.ino = 0])
    /\ UNCHANGED <<files, due, ahead, fresh, opens, typed, odd>>

\* sh_histinit() is over; inside hist_trim() the copying is next.
Ready(hp) == IF hp.old # None THEN "copy" ELSE "run"
SetTimer(s) == due' = [due EXCEPT ![s] = IF @ = 0 THEN Recent ELSE @]

\* An empty file gets its stamp.
PutStamp(s) ==
    /\ h[s].pc = "opened" /\ h[s].hsize = 0
    /\ Writes(s, <<Stamp>>)
    /\ Goes(s, [h[s] EXCEPT !.pc = Ready(h[s])])
    /\ SetTimer(s)
    /\ odd' = odd \cup (IF Cells(s) # <<>> THEN {"stamps"} ELSE {})
    /\ UNCHANGED <<path, opens, typed>>

\* The table is read from the last marker but one window.
LoadNear(s) ==
    /\ h[s].pc = "opened" /\ h[s].hsize > 0 /\ Cells(s)[1].k = "stamp"
    /\ LET near == NearEnd(Cells(s), h[s].hsize - Window)
       IN  Goes(s, HistEof([At(h[s], near) EXCEPT !.init = TRUE, !.first = near.ind], Cells(s), "load"))
    /\ Reads(s)
    /\ UNCHANGED <<path, due, opens, typed, odd>>

\* hist_start: the number the table is to begin with.
Start(hp) == Least(hp)

\* If the window was too small, it is doubled until the number found is low
\* enough, and the table is read again from there.
LoadMore(s) ==
    /\ h[s].pc = "load"
    /\ LET hp == h[s]
           near(k) == NearEnd(Cells(s), hp.hsize - Window * 2^k)
           enough == {k \in 1..hp.hsize : near(k).ind <= Start(hp)}
           best == CHOOSE k \in enough : \A j \in enough : k <= j
           found == IF hp.first <= Start(hp) THEN hp.first ELSE near(best).ind
           from == IF hp.first <= Start(hp) THEN hp ELSE At(hp, near(best))
       IN  /\ Goes(s, [HistEof(from, Cells(s), "clean") EXCEPT !.first = Start(hp)])
           /\ odd' = odd \cup (IF found = Start(hp) /\ found > 1 THEN {"unset"} ELSE {})
    /\ Reads(s)
    /\ UNCHANGED <<path, due, opens, typed>>

\* Faulty variant: the file is taken for unused one tick too early.
HistCleanEarly(ino) == files[ino].age >= Recent - 1

HistClean(ino) == files[ino].age >= Recent

\* Is the file to be trimmed?
Clean(s) ==
    /\ h[s].pc = "clean"
    /\ LET trim == HistClean(h[s].ino) /\ h[s].first > 1 /\ h[s].hsize > HistMax
       IN  /\ Goes(s, [h[s] EXCEPT !.init = FALSE, !.hsize = 0, !.first = 1,
                                    !.pc = IF trim THEN "unlink" ELSE Ready(h[s])])
           /\ IF trim THEN UNCHANGED due ELSE SetTimer(s)
    /\ UNCHANGED <<files, path, ahead, fresh, opens, typed, odd>>

-----------------------------------------------------------------------------
(* hist_trim() *)

\* The name is unlinked, whatever file has it by now.
Unlink(s) ==
    /\ h[s].pc = "unlink"
    /\ \/ /\ path # 0 /\ path' = 0
          /\ Goes(s, [h[s] EXCEPT !.pc = "reopen", !.init = TRUE,
                                 !.old = [ino |-> h[s].ino, ind |-> h[s].ind, cnt |-> h[s].cnt,
                                          cmds |-> h[s].cmds]])
          /\ UNCHANGED due
       \/ /\ path = 0 /\ path' = path
          /\ Goes(s, [h[s] EXCEPT !.pc = "run"]) /\ SetTimer(s)
    /\ UNCHANGED <<files, ahead, fresh, opens, typed, odd>>

\* The commands of the old file that are copied: the last histsize of its table.
Kept(old) ==
    [i \in 1..(old.ind - Least(old)) |->
        Copied(files[old.ino].cells, Tell(old, Least(old) + i - 1))]

\* Faulty variant: the copying starts with the command after the first.
CopySkips(s) ==
    /\ h[s].pc = "copy"
    /\ LET hp == h[s]
           b == CopyAll(hp, Tail(Kept(hp.old)))
       IN  /\ Writes(s, b.out \o <<Undo>>)
           /\ Goes(s, [hp EXCEPT !.ind = b.ind - 1, !.cnt = b.cnt + 1, !.mark = b.mark, !.old = None,
                                 !.cmds = SetCmd(b.cmds, b.ind - 1, b.cnt + 1), !.pc = "run"])
    /\ SetTimer(s)
    /\ odd' = odd \cup Overtaken(s)
    /\ UNCHANGED <<path, opens, typed>>

\* The last histsize commands go to the new file; then hist_cancel().
Copy(s) ==
    /\ h[s].pc = "copy"
    /\ LET hp == h[s]
           b == CopyAll(hp, Kept(hp.old))
       IN  /\ Writes(s, b.out \o <<Undo>>)
           /\ Goes(s, [hp EXCEPT !.ind = b.ind - 1, !.cnt = b.cnt + 1, !.mark = b.mark, !.old = None,
                                 !.cmds = SetCmd(b.cmds, b.ind - 1, b.cnt + 1), !.pc = "run"])
    /\ SetTimer(s)
    /\ odd' = odd \cup Overtaken(s)
    /\ UNCHANGED <<path, opens, typed>>

-----------------------------------------------------------------------------
(* At the prompt *)

\* hist_eof() meets a marker whose low byte is 0 after offset from.
Wrapped(cells, from) ==
    IF \E i \in (from + 1)..Len(cells) : cells[i].k = "mark" /\ cells[i].n % Radix = 0
    THEN {"wrapped"} ELSE {}

\* A line has been read: hist_eof() again, before it is parsed.
ReadLine(s) ==
    /\ h[s].pc = "ready"
    /\ Goes(s, HistEof(h[s], Cells(s), "parse"))
    /\ Reads(s)
    /\ odd' = odd \cup Wrapped(Cells(s), h[s].cnt)
    /\ UNCHANGED <<path, due, opens, typed>>

\* The rest of hist_eof() when the file seems to end inside a command: that is
\* ended with a null byte and cancelled, and the file is read from the front.
Repair(s) ==
    /\ h[s].pc = "repair"
    /\ LET hp == h[s]
           cells == Cells(s) \o <<Nul, Undo>>
           back == [hp EXCEPT !.ind = IF 2 - Size < 0 THEN 1 ELSE 2 - Size, !.cnt = 1,
                              !.cmds = SetCmd(@, hp.ind - 1, hp.cnt + 1)]
       IN  Goes(s, [Table(hp, ReadOn(Reader(back, "cmd"), cells, hp.init)) EXCEPT !.pc = hp.ret, !.ret = "off"])
    /\ Writes(s, <<Nul, Undo>>)
    /\ odd' = odd \cup Overtaken(s) \cup (IF h[s].ind = 2 THEN {"first"} ELSE {})
                  \cup (IF h[s].init THEN {} ELSE Wrapped(Cells(s), 1))
    /\ UNCHANGED <<path, due, opens, typed>>

\* A command being read, or the argument of print -s, is longer than the buffer
\* of the stream, or a search in the history moves the stream before it is read:
\* what there is goes out as it is.
Piece(s) ==
    /\ h[s].pc \in {"parse", "run"}
    /\ typed < MaxCmds /\ typed < MaxLong
    /\ typed' = typed + 1
    /\ Writes(s, <<Cell("body", Before + typed')>>)
    /\ Goes(s, [h[s] EXCEPT !.pc = "long", !.cmd = Before + typed'])
    /\ odd' = odd \cup Overtaken(s)
    /\ UNCHANGED <<path, due, opens>>

\* Instead of the number of the command that runs: it has no end in the file.
Unended == -1

Runs(hp) == [hp EXCEPT !.pc = "run", !.cmd = CASE hp.pc = "parse" -> 0
                                               [] hp.pc = "long" -> Unended
                                               [] OTHER -> @]

\* hist_flush() when the line is parsed, when it is given up, or for print -s
\* while a command runs.  Nothing may be left to write.
FlushNothing(s) ==
    /\ h[s].pc \in {"parse", "long"}
    /\ Goes(s, Runs(h[s]))
    /\ UNCHANGED <<files, path, due, ahead, fresh, opens, typed, odd>>

\* hist_write() moves to the end of the file before it finds the line empty.
FlushEmpty(s) ==
    /\ h[s].pc \in {"parse", "run", "long"}
    /\ Goes(s, [Runs(h[s]) EXCEPT !.cnt = Len(Cells(s))])
    /\ odd' = odd \cup (IF s \in ahead THEN {"skipped"} ELSE {})
    /\ UNCHANGED <<files, path, due, ahead, fresh, opens, typed>>

\* hist_write() moves to the end of the file with a command, or the rest of one.
Flush(s) ==
    /\ \/ /\ h[s].pc \in {"parse", "run"} /\ typed < MaxCmds
          /\ typed' = typed + 1
          /\ Goes(s, [h[s] EXCEPT !.pc = "seek", !.cnt = Len(Cells(s)), !.cmd = Before + typed'])
       \/ /\ h[s].pc = "long" /\ UNCHANGED typed
          /\ Goes(s, [h[s] EXCEPT !.pc = "seek", !.cnt = Len(Cells(s))])
    /\ UNCHANGED <<files, path, due, ahead, fresh, opens, odd>>

Ends(hp) == hp.cnt + 2

\* Faulty variant: the entry of the next command is the offset before the marker.
WrittenBefore(hp, mark) ==
    LET n == hp.ind + 1
        to == IF mark THEN Ends(hp) + 1 ELSE Ends(hp)
    IN  [hp EXCEPT !.pc = "run", !.ind = n, !.cnt = to, !.cmds = SetCmd(@, n, Ends(hp)),
                   !.mark = IF mark THEN to ELSE @]

\* The table after a command, and a marker after it.
Written(hp, mark) ==
    LET n == hp.ind + 1
        to == IF mark THEN Ends(hp) + 1 ELSE Ends(hp)
    IN  [hp EXCEPT !.pc = "run", !.ind = n, !.cnt = to, !.cmds = SetCmd(@, n, to),
                   !.mark = IF mark THEN to ELSE @]

\* hist_write() after its lseek().  A marker that is due is left out if the buffer
\* has no room for it; a write of less than everything is taken for a success.
HistWrite(s) ==
    /\ h[s].pc = "seek"
    /\ \E mark \in {FALSE, Ends(h[s]) > h[s].mark + Gap} :
         LET x == Command(h[s].cmd) \o (IF mark THEN Marker(h[s].ind + 1) ELSE <<>>)
         IN  /\ Goes(s, Written(h[s], mark))
             /\ \E k \in 1..Len(x) :
                   /\ Writes(s, SubSeq(x, 1, k))
                   /\ odd' = odd \cup Overtaken(s) \cup (IF k < Len(x) THEN {"short"} ELSE {})
    /\ UNCHANGED <<path, due, opens, typed>>

\* The write fails: hist_flush() closes the file and starts anew.
WriteFails(s) ==
    /\ h[s].pc = "seek"
    /\ Goes(s, [h[s] EXCEPT !.pc = "reopen", !.ino = 0, !.old = None])
    /\ ahead' = ahead \ {s}
    /\ UNCHANGED <<files, path, due, fresh, opens, typed, odd>>

\* The command that runs is fc: it reads the table, an editor runs, then fc
\* cancels its own entry and hands over the commands to execute.
HistEdit(s) ==
    /\ h[s].pc = "run" /\ h[s].cmd # 0
    /\ Goes(s, HistEof(h[s], Cells(s), "edit"))
    /\ Reads(s)
    /\ odd' = odd \cup Overtaken(s) \cup (IF h[s].cmd = Unended THEN {"unended"} ELSE {})
                  \cup Wrapped(Cells(s), h[s].cnt)
    /\ UNCHANGED <<path, due, opens, typed>>

HistCancel(s) ==
    /\ h[s].pc = "edit"
    /\ Writes(s, <<Undo>>)
    /\ LET hp == h[s] IN
       Goes(s, [hp EXCEPT !.pc = "parse", !.cnt = @ + 1, !.ind = @ - 1,
                          !.cmds = SetCmd(@, hp.ind - 1, hp.cnt + 1)])
    /\ odd' = odd \cup Overtaken(s)
    /\ UNCHANGED <<path, due, opens, typed>>

\* The shell prompts: hist_eof() before a line is read.
Prompt(s) ==
    /\ h[s].pc = "run"
    /\ Goes(s, HistEof([h[s] EXCEPT !.cmd = 0], Cells(s), "ready"))
    /\ Reads(s)
    /\ odd' = odd \cup Wrapped(Cells(s), h[s].cnt)
    /\ UNCHANGED <<path, due, opens, typed>>

\* HISTFILE or HISTSIZE is assigned to (hist_close), or the shell ends; a
\* timer that is set stays with a running shell.
Close(s) ==
    /\ h[s].pc = "run"
    /\ \/ Goes(s, [h[s] EXCEPT !.pc = "reopen", !.ino = 0]) /\ UNCHANGED due
       \/ /\ Goes(s, [NewTable(0, 0, FALSE, None) EXCEPT !.pc = "off"])
          /\ due' = [due EXCEPT ![s] = 0]
    /\ ahead' = ahead \ {s} /\ fresh' = fresh \ {s}
    /\ UNCHANGED <<files, path, opens, typed, odd>>

-----------------------------------------------------------------------------
(* Time *)

\* The timer of a shell: the file that has the name now is touched.
HistTouch(s) ==
    /\ due[s] = 1
    /\ due' = [due EXCEPT ![s] = Recent]
    /\ files' = IF path = 0 THEN files ELSE [files EXCEPT ![path].age = 0]
    /\ Uses(s)
    /\ UNCHANGED <<path, h, ahead, opens, typed, odd>>

Waiting == {"off", "ready", "parse", "long", "run", "edit"}

\* Minutes pass only while shells wait for people and commands, and timers are
\* served before the next tick.
Tick ==
    /\ \A s \in Shells : h[s].pc \in Waiting /\ due[s] # 1
    /\ files' = [i \in 1..Len(files) |-> [files[i] EXCEPT !.age = IF @ < Recent THEN @ + 1 ELSE @]]
    /\ due' = [s \in Shells |-> IF due[s] = 0 THEN 0 ELSE due[s] - 1]
    /\ UNCHANGED <<path, h, ahead, fresh, opens, typed, odd>>

Step(s) ==
    \/ Open(s) \/ HistCheck(s) \/ PutStamp(s) \/ LoadNear(s) \/ LoadMore(s) \/ Clean(s)
    \/ Unlink(s) \/ Copy(s)
    \/ ReadLine(s) \/ Repair(s) \/ Piece(s)
    \/ FlushNothing(s) \/ FlushEmpty(s) \/ Flush(s) \/ HistWrite(s) \/ WriteFails(s)
    \/ HistEdit(s) \/ HistCancel(s) \/ Prompt(s) \/ Close(s) \/ HistTouch(s)

\* What follows on an odd case is not explored.
Next == odd = {} /\ (Tick \/ \E s \in Shells : Step(s))

Spec == Init /\ [][Next]_vars
-----------------------------------------------------------------------------
\* Types; a shell that has the file open has a file, and its offsets lie in it
\* unless it was overtaken.
TypeOK ==
    /\ path \in 0..Len(files) /\ Len(files) <= MaxFiles
    /\ \A i \in 1..Len(files) : files[i].age \in 0..Recent
    /\ typed \in 0..MaxCmds
    /\ due \in [Shells -> 0..Recent] /\ ahead \subseteq Shells /\ fresh \subseteq Shells
    /\ \A s \in Shells :
          h[s].pc \notin {"off", "reopen"} =>
             /\ h[s].ino \in 1..Len(files)
             /\ odd = {} => h[s].cnt <= Len(Cells(s)) + 1 /\ h[s].ind >= 0

\* The table a shell has built up piece by piece - from a marker near the end
\* at the start, by hist_eof() from where it last was, by its own writes and
\* cancellations, by the repair of a file that ends inside a command of its own or
\* of another, and by a trim - lists what the whole file means while a command
\* (fc, for one) runs: the last histsize commands, in order.  (Not after one of
\* the odd cases.)
TableMatchesFile ==
    TypeOK /\ (odd = {} => \A s \in Shells \ ahead :
        h[s].pc = "run" => Listed(h[s], Cells(s)) = Newest(Live(Cells(s)), Size))

\* Two shells that have read all of one file give the next command one number.
SameNumbers ==
    odd = {} => \A s, t \in Shells \ ahead :
        (h[s].pc = "run" /\ h[t].pc = "run" /\ h[s].ino = h[t].ino) => h[s].ind = h[t].ind

Attached(s) == h[s].pc \notin {"off", "reopen"} /\ h[s].ino = path

\* The name is never taken from the file of a running shell that has used it:
\* whoever trims finds it touched.  Two timings are left: the shell has opened
\* the file and its first touch is still to come, or the one that unlinks looked
\* at another file than the one that has the name by now.
InUseNotUnlinked ==
    [][\A s, t \in Shells :
        (path' # path /\ h'[s] # h[s] /\ h[s].ino = path /\ t # s /\ Attached(t))
            => t \in fresh]_vars

\* s copies a file that nobody has appended to since it read it, into an empty one.
Trims(s) == /\ h[s].pc = "copy" /\ h'[s].pc = "run" /\ Cells(s) = <<Stamp>>
            /\ Len(files[h[s].old.ino].cells) = h[s].old.cnt

OldLive(s) == Live(files[h[s].old.ino].cells)

\* Trimming keeps the order of the last histsize commands; whether the newest
\* of them is kept is the question of LastSaved.
TrimKeepsOlder ==
    [][odd' = {} => \A s \in Shells :
        Trims(s) => IsPrefix(Front(Newest(OldLive(s), Size)), Live(files'[h[s].ino].cells))]_vars

\* The commands that are in a file before the step and not after it.
Lost == UNION {ToSet(Live(files[i].cells)) \ ToSet(Live(files'[i].cells)) : i \in 1..Len(files)}

\* "The text of the last HISTSIZE commands entered from a terminal device is saved
\* in a history file": a trim takes all of them over, and what fc takes out is the
\* line with fc itself.
LastSaved ==
    [][\A s \in Shells :
        /\ Trims(s) => ToSet(Newest(OldLive(s), Size)) \subseteq ToSet(Live(files'[h[s].ino].cells))
        /\ h[s].pc = "edit" /\ h'[s].pc = "parse" => Lost \subseteq {h[s].cmd}]_vars
=============================================================================
