------------------------------ MODULE Subshell ------------------------------
(***************************************************************************)
(* Virtual subshells and signals (src/cmd/ksh93/sh/subshell.c and          *)
(* fault.c): ( ), $( ) and ${ } run in the process of the shell, with its  *)
(* signals.  On entry the traps are saved and reset, on exit they are put  *)
(* back; meanwhile sh_fault() only saves a signal in sh.savesig.  A signal *)
(* that a subshell has no trap for ends it and is sent again after it, so  *)
(* that it reaches the level that has a trap.                              *)
(*                                                                         *)
(* The model is the process of a script whose signals are all caught (by   *)
(* sh_sigdone()).  What the child of sh_subfork() does is not modelled: it *)
(* is a shell of its own.                                                  *)
(***************************************************************************)
EXTENDS Integers, FiniteSets, Sequences, SequencesExt

CONSTANTS Fatal,     \* signals with SH_SIGDONE: they end the shell
          Interrupt, \* SIGINT: it ends the command
          Ignored,   \* signals with SH_SIGIGNORE
          MaxDepth,  \* bound: virtual subshells inside each other
          MaxSends,  \* bound: signals sent to the shell
          MaxTraps   \* bound: traps set at the start, set or cleared later

Sigs == Fatal \cup Interrupt \cup Ignored
Off == "off"
Critical == "critical"

ASSUME ConstantsAssumption ==
    /\ Fatal \cap Interrupt = {} /\ Fatal \cap Ignored = {} /\ Interrupt \cap Ignored = {}
    /\ {Off, Critical} \cap Sigs = {}
    /\ {MaxDepth, MaxSends, MaxTraps} \subseteq Nat

VARIABLES pc,        \* where the innermost level is
          stack,     \* struct subshell of each level: kind, traps saved, jmpval, subpid
          left,      \* the subshell that has been left last, while sh_subshell() ends
          traps,     \* sh.st.trapcom: "none", "ign" (the empty string) or "cmd"
          noted,     \* signals with SH_SIGTRAP in sh.sigflag
          trapnote,  \* sh.trapnote
          savesig,   \* sh.savesig: Off (0), Critical (-1) or a signal
          lastsig,   \* sh.lastsig
          ignsig,    \* sh.ignsig
          nsig,      \* the local variable nsig: the signal saved, to be sent again, or Off
          pending,   \* signals the kernel has not yet delivered
          blocked,   \* the signal mask
          mine,      \* for each level with traps of its own: those it has set
          owed,      \* signals the main shell had a trap for when they were sent
          credit,    \* of each signal: times it was sent minus runs of its trap, at least -1
          sent,      \* signals sent so far
          changes,   \* traps set or cleared so far
          odd        \* cases met in which a signal is lost or repeated

vars == <<pc, stack, left, traps, noted, trapnote, savesig, lastsig, ignsig, nsig, pending, blocked,
          mine, owed, credit, sent, changes, odd>>

signals == <<pending, blocked>>
ghosts == <<mine, owed, credit, sent, changes>>

Kinds == {"sub", "share"}
Actions == {"none", "ign", "cmd"}
Frame(kind) == [kind |-> kind, saved |-> traps, jmp |-> "none", subpid |-> FALSE]
Exit(frame) == [kind |-> frame.kind, jmp |-> frame.jmp, subpid |-> frame.subpid]
Nothing == [kind |-> "top", jmp |-> "none", subpid |-> FALSE]

\* The script has set its first traps.
Init ==
    /\ pc = "cmd" /\ stack = <<>> /\ left = Nothing
    /\ traps \in [Sigs -> Actions]
    /\ changes = Cardinality({s \in Sigs : traps[s] # "none"}) /\ changes <= MaxTraps
    /\ noted = {} /\ trapnote = {} /\ savesig = Off /\ lastsig = Off /\ ignsig = Off /\ nsig = Off
    /\ pending = {} /\ blocked = {}
    /\ mine = <<traps>> /\ owed = {} /\ credit = [s \in Sigs |-> 0] /\ sent = 0
    /\ odd = {}

Inside == stack # <<>>
InSub == IF Inside THEN Last(stack).kind = "sub" ELSE FALSE

\* siglongjmp() to the innermost sh_subshell(), or out of the script.
Jump(subpid) ==
    IF Inside
    THEN /\ pc' = "leave" /\ left' = Nothing
         /\ stack' = [stack EXCEPT ![Len(stack)].jmp = "sub", ![Len(stack)].subpid = subpid \/ @]
    ELSE pc' = "gone" /\ UNCHANGED <<stack, left>>

-----------------------------------------------------------------------------
(* Signals *)

Send(s) ==
    /\ sent < MaxSends /\ pc # "gone" /\ pending \subseteq blocked /\ s \notin pending
    /\ sent' = sent + 1
    /\ pending' = pending \cup {s}
    /\ owed' = IF mine[1][s] = "cmd" THEN owed \cup {s} ELSE owed
    /\ credit' = [credit EXCEPT ![s] = @ + 1]
    /\ UNCHANGED <<pc, stack, left, traps, noted, trapnote, savesig, lastsig, ignsig, nsig, blocked, mine, changes, odd>>

Delivered(s) == s \in pending \ blocked /\ pending' = pending \ {s}

\* sh_fault() in a critical region: the signal is saved, unless it is ignored
\* by default.
FaultSaves(s) ==
    /\ Delivered(s) /\ savesig # Off
    /\ savesig' = IF s \in Ignored THEN savesig ELSE s
    /\ odd' = odd \cup (IF s \in Ignored THEN {"dropped"} ELSE {})
                  \cup (IF savesig \in Sigs \ {s} THEN {"overwritten"} ELSE {})
    /\ UNCHANGED <<pc, stack, left, traps, noted, trapnote, lastsig, ignsig, nsig, blocked>>
    /\ UNCHANGED ghosts

\* sh_subfork(), in the parent: the child goes on with the subshell, the parent
\* jumps to its end.
Subfork ==
    /\ savesig' = Critical
    /\ Jump(TRUE)

\* A signal that has a trap, in a subshell: it is forked, and the parent jumps out
\* of the handler, with the signal blocked.
FaultForks(s) ==
    /\ Delivered(s) /\ savesig = Off /\ Inside /\ traps[s] # "none" /\ s \notin Interrupt
    /\ Subfork /\ odd' = odd \cup {"forked"}
    /\ blocked' = blocked \cup {s} /\ nsig' = Off
    /\ UNCHANGED <<traps, noted, trapnote, lastsig, ignsig>>
    /\ UNCHANGED ghosts

\* No trap: a signal to be ignored is remembered in a subshell; sh.ignsig holds
\* one signal.
FaultIgnores(s) ==
    /\ Delivered(s) /\ savesig = Off
    /\ \/ traps[s] = "ign" /\ ~ (Inside /\ s \notin Interrupt) /\ UNCHANGED <<ignsig, odd>>
       \/ /\ traps[s] = "none" /\ s \in Ignored
          /\ IF Inside THEN /\ ignsig' = s
                            /\ odd' = odd \cup (IF ignsig \in Sigs \ {s} THEN {"overwritten"} ELSE {})
             ELSE UNCHANGED <<ignsig, odd>>
    /\ UNCHANGED <<pc, stack, left, traps, noted, trapnote, savesig, lastsig, nsig, blocked>>
    /\ UNCHANGED ghosts

SigSet == "SET" \in trapnote

\* sh.lastsig holds one signal; it counts when it is to end a command, or has ended
\* a subshell that is still to send it again.
LastCounts == SigSet \/ left.jmp = "sub" \/ (Inside /\ Last(stack).jmp = "sub")

Overwritten(s) == IF lastsig \in Sigs \ {s} /\ LastCounts THEN {"overwritten"} ELSE {}
SetLast(s) == lastsig' = s

\* No trap: a signal that ends the shell ends the subshell.  (A jump out of the end
\* of sh_subshell() leaves the signal there in nsig behind.)
FaultExits(s) ==
    /\ Delivered(s) /\ savesig = Off /\ traps[s] = "none" /\ s \in Fatal
    /\ SetLast(s)
    /\ IF Inside
       THEN /\ Jump(FALSE) /\ nsig' = Off
            /\ odd' = odd \cup Overwritten(s) \cup (IF nsig = Off THEN {} ELSE {"abandoned"})
            /\ UNCHANGED trapnote
       ELSE /\ trapnote' = trapnote \cup {"SET"} /\ odd' = odd \cup Overwritten(s)
            /\ UNCHANGED <<pc, stack, left, nsig>>
    /\ UNCHANGED <<traps, noted, savesig, ignsig, blocked>>
    /\ UNCHANGED ghosts

\* Otherwise it is noted: for its trap, while a simple command runs also in
\* sh.lastsig, or to end the command.
FaultNotes(s) ==
    /\ Delivered(s) /\ savesig = Off
    /\ \/ /\ traps[s] = "cmd" /\ ~ (Inside /\ s \notin Interrupt)
          /\ noted' = noted \cup {s} /\ trapnote' = trapnote \cup {"TRAP"}
          /\ \/ UNCHANGED <<lastsig, odd>>
             \/ pc = "run" /\ SetLast(s) /\ odd' = odd \cup Overwritten(s)
       \/ /\ traps[s] = "none" /\ s \in Interrupt
          /\ SetLast(s) /\ trapnote' = trapnote \cup {"SET"}
          /\ odd' = odd \cup Overwritten(s)
          /\ UNCHANGED noted
    /\ UNCHANGED <<pc, stack, left, traps, savesig, ignsig, nsig, blocked>>
    /\ UNCHANGED ghosts

\* A builtin of libcmd that asks to be told of signals is told, and nobody else.
FaultTells(s) ==
    /\ Delivered(s) /\ savesig = Off /\ pc = "run"
    /\ \/ traps[s] = "cmd" /\ ~ (Inside /\ s \notin Interrupt)
       \/ traps[s] = "none" /\ s \in Interrupt
    /\ SetLast(s)
    /\ odd' = odd \cup Overwritten(s) \cup {"told"}
    /\ UNCHANGED <<pc, stack, left, traps, noted, trapnote, savesig, ignsig, nsig, blocked>>
    /\ UNCHANGED ghosts

Fault(s) ==
    \/ FaultSaves(s) \/ FaultForks(s) \/ FaultIgnores(s)
    \/ FaultExits(s) \/ FaultNotes(s) \/ FaultTells(s)

\* The process runs when it has taken its signals; kill() of the shell to itself
\* returns after the handler.
Runs == pending \subseteq blocked

\* sh_sigcheck()
SigCheckExits == Jump(FALSE) /\ UNCHANGED <<traps, noted, trapnote, savesig, lastsig, ignsig, nsig>>

\* What sh_trap() is called for; its sh_exec() returns at once when a signal is to
\* end the command.
Due == IF trapnote = {} THEN {} ELSE {s \in noted : traps[s] = "cmd"}
Run == IF SigSet THEN {} ELSE Due

\* Faulty variant: the sh_exec() of a trap leaves sh.lastsig.
ChkTrapKeeps ==
    /\ IF trapnote = {} THEN UNCHANGED <<noted, trapnote>>
       ELSE noted' = {} /\ trapnote' = trapnote \ {"TRAP"}
    /\ owed' = owed \ Run
    /\ credit' = [s \in Sigs |-> IF s \in Run /\ credit[s] >= 0 THEN credit[s] - 1 ELSE credit[s]]
    /\ UNCHANGED lastsig

\* sh_chktrap(): the traps noted are run.  The sh_exec() of a trap clears sh.lastsig.
ChkTrap ==
    /\ IF trapnote = {} THEN UNCHANGED <<noted, trapnote>>
       ELSE noted' = {} /\ trapnote' = trapnote \ {"TRAP"}
    /\ lastsig' = IF Run = {} THEN lastsig ELSE Off
    /\ owed' = owed \ Run
    /\ credit' = [s \in Sigs |-> IF s \in Run /\ credit[s] >= 0 THEN credit[s] - 1 ELSE credit[s]]

\* A trap is not run; or the signal that has ended a subshell is no longer known.
TrapCases == (IF Due = Run THEN {} ELSE {"swallowed"})
             \cup (IF Run # {} /\ lastsig \in Sigs /\ left.jmp = "sub" THEN {"cleared"} ELSE {})

-----------------------------------------------------------------------------
(* Commands *)

\* sh_exec() begins.
Start ==
    /\ pc = "cmd" /\ Runs
    /\ \/ SigSet /\ SigCheckExits
       \/ /\ ~ SigSet /\ pc' = "start"
          /\ UNCHANGED <<stack, left, traps, noted, trapnote, savesig, lastsig, ignsig, nsig>>
    /\ UNCHANGED <<signals, ghosts, odd>>

\* It forgets the last signal, also one that has come since it was looked at.
Forget ==
    /\ pc = "start" /\ Runs
    /\ pc' = "run"
    /\ lastsig' = Off /\ odd' = odd \cup (IF lastsig \in Sigs /\ SigSet THEN {"erased"} ELSE {})
    /\ UNCHANGED <<stack, left, traps, noted, trapnote, savesig, ignsig, nsig, signals, ghosts>>

\* Faulty variant: sh_chktrap() is left to the next subshell.
EndNoTraps ==
    /\ pc = "run" /\ Runs
    /\ IF SigSet THEN Jump(FALSE) ELSE pc' = "cmd" /\ UNCHANGED <<stack, left>>
    /\ UNCHANGED <<traps, noted, trapnote, savesig, lastsig, ignsig, nsig, signals, ghosts, odd>>

\* sh_exec() ends: traps are run, then a signal noted ends the level.
End ==
    /\ pc = "run" /\ Runs
    /\ ChkTrap /\ odd' = odd \cup TrapCases
    /\ IF SigSet THEN Jump(FALSE) ELSE pc' = "cmd" /\ UNCHANGED <<stack, left>>
    /\ UNCHANGED <<traps, savesig, ignsig, nsig, signals, mine, sent, changes>>

\* The builtin trap; to set one forks a subshell.
Trap(s, a) ==
    /\ pc = "run" /\ Runs /\ a # traps[s] /\ changes < MaxTraps
    /\ changes' = changes + 1
    /\ \/ /\ a # "none" /\ InSub
          /\ Subfork
          /\ UNCHANGED <<traps, noted, mine, owed, odd>>
       \/ /\ a = "none" \/ ~ InSub
          /\ traps' = [traps EXCEPT ![s] = a]
          /\ noted' = IF a = "none" THEN noted \ {s} ELSE noted
          /\ mine' = [mine EXCEPT ![Len(mine)][s] = a]
          /\ owed' = IF Len(mine) = 1 THEN owed \ {s} ELSE owed
          /\ UNCHANGED <<pc, stack, left, savesig, odd>>
    /\ UNCHANGED <<trapnote, lastsig, ignsig, nsig, signals, credit, sent>>

-----------------------------------------------------------------------------
(* sh_subshell() *)

\* A subshell begins, unless a signal is to end the command.
Enter ==
    /\ pc = "run" /\ Runs /\ Len(stack) < MaxDepth
    /\ \/ SigSet /\ SigCheckExits
       \/ /\ ~ SigSet /\ pc' = "entry"
          /\ UNCHANGED <<stack, left, traps, noted, trapnote, savesig, lastsig, ignsig, nsig>>
    /\ UNCHANGED <<signals, ghosts, odd>>

\* The critical region of the entry begins; ${ } inside another subshell would have
\* been forked.
Push(kind) ==
    /\ pc = "entry" /\ Runs
    /\ kind = "share" => ~ InSub
    /\ pc' = "enter" /\ savesig' = Critical
    /\ stack' = Append(stack, Frame(kind))
    /\ UNCHANGED <<left, traps, noted, trapnote, lastsig, ignsig, nsig, signals, ghosts, odd>>

\* sh_sigreset(): traps go, except the ones that ignore.
Reset(t) == [s \in Sigs |-> IF t[s] = "cmd" THEN "none" ELSE t[s]]

\* The traps are saved and reset; ${ } keeps them.
Save ==
    /\ pc = "enter" /\ Runs
    /\ pc' = "begin"
    /\ IF Last(stack).kind = "share" THEN UNCHANGED <<traps, noted, trapnote, mine, odd>>
       ELSE /\ traps' = Reset(traps) /\ noted' = {s \in noted : traps[s] = "none"} /\ trapnote' = {}
            /\ mine' = Append(mine, Reset(traps))
            /\ odd' = odd \cup (IF trapnote = {} THEN {} ELSE {"wiped"})
    /\ UNCHANGED <<stack, left, savesig, lastsig, ignsig, nsig, signals, owed, credit, sent, changes>>

\* The commands of the subshell are to be run, unless a signal has come since.
Begin ==
    /\ pc = "begin" /\ Runs
    /\ pc' = IF savesig = Critical THEN "open" ELSE "leave"
    /\ UNCHANGED <<stack, left, traps, noted, trapnote, savesig, lastsig, ignsig, nsig, signals, ghosts, odd>>

\* sh.savesig is cleared, with a signal saved after it was looked at.
Erased == IF savesig \in Sigs \ {nsig} THEN {"erased"} ELSE {}

\* The critical region ends, and the commands are run.
TakeSignals ==
    /\ pc = "open" /\ Runs
    /\ pc' = "cmd"
    /\ savesig' = Off /\ odd' = odd \cup Erased
    /\ UNCHANGED <<stack, left, traps, noted, trapnote, lastsig, ignsig, nsig, signals, ghosts>>

\* The commands of the subshell are done, or it is left with exit.
Finish ==
    /\ pc = "cmd" /\ Inside /\ Runs
    /\ pc' = "leave"
    /\ UNCHANGED <<stack, left, traps, noted, trapnote, savesig, lastsig, ignsig, nsig, signals, ghosts, odd>>

\* The critical region of the exit begins.
Leave ==
    /\ pc = "leave" /\ Runs
    /\ pc' = "restore"
    /\ savesig' = IF savesig = Off THEN Critical ELSE savesig
    /\ UNCHANGED <<stack, left, traps, noted, trapnote, lastsig, ignsig, nsig, signals, ghosts, odd>>

\* Faulty variant: the traps of the outermost subshell's parent are put back.
RestoreFirst ==
    /\ pc = "restore" /\ Runs
    /\ pc' = "end"
    /\ IF Last(stack).kind = "share" THEN UNCHANGED <<traps, noted, trapnote, mine, odd>>
       ELSE /\ traps' = stack[1].saved /\ noted' = {s \in noted : traps[s] = "none"} /\ trapnote' = {}
            /\ mine' = Front(mine)
            /\ odd' = odd \cup (IF SigSet /\ Last(stack).jmp = "none" THEN {"late"} ELSE {})
    /\ UNCHANGED <<stack, left, savesig, lastsig, ignsig, nsig, signals, owed, credit, sent, changes>>

\* The traps are put back.
Restore ==
    /\ pc = "restore" /\ Runs
    /\ pc' = "end"
    /\ IF Last(stack).kind = "share" THEN UNCHANGED <<traps, noted, trapnote, mine, odd>>
       ELSE /\ traps' = Last(stack).saved
            /\ noted' = {s \in noted : traps[s] = "none"} /\ trapnote' = {}
            /\ mine' = Front(mine)
            /\ odd' = odd \cup (IF SigSet /\ Last(stack).jmp = "none" THEN {"late"} ELSE {})
    /\ UNCHANGED <<stack, left, savesig, lastsig, ignsig, nsig, signals, owed, credit, sent, changes>>

Kill(sigs) == pending' = pending \cup sigs /\ UNCHANGED blocked

\* The level is given up: a signal noted ends the one around it; otherwise
\* sh.savesig is read.
Return ==
    /\ pc = "end" /\ Runs
    /\ \/ /\ SigSet
          /\ LET outer == Front(stack) IN
             IF outer = <<>> THEN pc' = "gone" /\ stack' = outer
             ELSE pc' = "leave" /\ stack' = [outer EXCEPT ![Len(outer)].jmp = "sub"]
          /\ UNCHANGED <<left, trapnote, nsig, odd>>
       \/ /\ ~ SigSet /\ pc' = "clear" /\ left' = Exit(Last(stack)) /\ stack' = Front(stack)
          /\ trapnote' = {} /\ nsig' = IF savesig \in Sigs THEN savesig ELSE Off
          /\ odd' = odd \cup (IF trapnote = {} THEN {} ELSE {"wiped"})
    /\ UNCHANGED <<traps, noted, savesig, lastsig, ignsig, signals, ghosts>>

\* Faulty variant: sh.savesig is not cleared when there is no signal to send.
ClearSent ==
    /\ pc = "clear" /\ Runs
    /\ pc' = "send"
    /\ savesig' = (IF nsig = Off THEN savesig ELSE Off) /\ odd' = odd \cup Erased
    /\ UNCHANGED <<stack, left, traps, noted, trapnote, lastsig, ignsig, nsig, signals, ghosts>>

\* The critical region ends.
Clear ==
    /\ pc = "clear" /\ Runs
    /\ pc' = "send"
    /\ savesig' = Off /\ odd' = odd \cup Erased
    /\ UNCHANGED <<stack, left, traps, noted, trapnote, lastsig, ignsig, nsig, signals, ghosts>>

\* The signal that was read is sent again.
SendSaved ==
    /\ pc = "send" /\ Runs
    /\ pc' = "wait"
    /\ Kill({nsig} \cap Sigs) /\ nsig' = Off
    /\ UNCHANGED <<stack, left, traps, noted, trapnote, savesig, lastsig, ignsig, ghosts, odd>>

\* The child of sh_subfork() is waited for and traps are run; ${ } that an
\* interrupt has ended passes it on (others have lost the signal in the status).
Wait ==
    /\ pc = "wait" /\ Runs
    /\ pc' = "ignored"
    /\ ChkTrap
    /\ LET passed == IF left.kind = "share" /\ left.jmp = "sub" /\ ~ left.subpid
                     THEN {lastsig} \cap Interrupt ELSE {}
       IN  Kill(passed)
    /\ odd' = odd \cup TrapCases
    /\ UNCHANGED <<stack, left, traps, savesig, ignsig, nsig, mine, sent, changes>>

\* A signal that the subshell ignored is sent again.
SendIgnored ==
    /\ pc = "ignored" /\ Runs
    /\ pc' = "last"
    /\ Kill({ignsig} \cap Sigs)
    /\ UNCHANGED <<stack, left, traps, noted, trapnote, savesig, lastsig, ignsig, nsig, ghosts, odd>>

\* Faulty variant: the signal is sent again only at top level.
SendLastTop ==
    /\ pc = "last" /\ Runs
    /\ pc' = "run" /\ left' = Nothing
    /\ Kill(IF left.jmp = "sub" /\ ~ Inside THEN {lastsig} \cap Sigs ELSE {})
    /\ UNCHANGED <<stack, traps, noted, trapnote, savesig, lastsig, ignsig, nsig, ghosts, odd>>

\* The signal that has ended the subshell is sent again; the command that it is
\* part of goes on.
SendLast ==
    /\ pc = "last" /\ Runs
    /\ pc' = "run" /\ left' = Nothing
    /\ Kill(IF left.jmp = "sub" THEN {lastsig} \cap Sigs ELSE {})
    /\ UNCHANGED <<stack, traps, noted, trapnote, savesig, lastsig, ignsig, nsig, ghosts, odd>>

-----------------------------------------------------------------------------
\* A step of the process.
Step ==
    \/ \E s \in Sigs : Fault(s)
    \/ Start \/ Forget \/ End \/ \E s \in Sigs, a \in Actions : Trap(s, a)
    \/ Enter \/ \E kind \in Kinds : Push(kind)
    \/ Save \/ Begin \/ TakeSignals \/ Finish \/ Leave \/ Restore
    \/ Return \/ Clear \/ SendSaved \/ Wait \/ SendIgnored \/ SendLast

Next == Step \/ \E s \in Sigs : Send(s)

Spec == Init /\ [][Next]_vars

\* The process runs.
FairSpec == Spec /\ WF_vars(Step)
-----------------------------------------------------------------------------
\* Types; each level that is not ${ } has traps of its own.
TypeOK ==
    /\ pc \in {"cmd", "start", "run", "entry", "enter", "begin", "open", "leave", "restore", "end",
               "clear", "send", "wait", "ignored", "last", "gone"}
    /\ traps \in [Sigs -> Actions] /\ Len(stack) <= MaxDepth
    /\ noted \subseteq Sigs /\ trapnote \subseteq {"TRAP", "SET"}
    /\ savesig \in Sigs \cup {Off, Critical} /\ {lastsig, ignsig, nsig} \subseteq Sigs \cup {Off}
    /\ pending \subseteq Sigs /\ blocked \subseteq Sigs
    /\ pc \in {"cmd", "run"} => Len(mine) = 1 + Cardinality({i \in DOMAIN stack : stack[i].kind = "sub"})

\* However a subshell ends - by itself, by a signal at any moment, by a fork -
\* and however deep it is, commands run with the traps of their own level: those
\* before the subshell with what was changed since on that level.
TrapsRestored == pc \in {"cmd", "run"} => traps = Last(mine)

\* Whenever commands run, signals are taken and not just saved: no way out of
\* sh_subshell() leaves the critical region open, in which all but the last
\* signal would be lost.  (With the types.)
NotDeaf == TypeOK /\ (pc \in {"cmd", "start", "run", "entry", "send", "wait", "ignored", "last"} => savesig = Off)

\* A signal that the main shell has a trap for is not lost, whenever it arrives:
\* until the trap has run it waits to be delivered, is noted, is saved in a
\* critical region, or has ended a subshell that will send it again.
SignalKept ==
    odd = {} /\ pc # "gone" => \A s \in owed :
        \/ s \in pending \/ s \in {savesig, nsig, ignsig}
        \/ s \in noted /\ "TRAP" \in trapnote /\ traps[s] = "cmd"
        \/ lastsig = s /\ LastCounts

\* No trap runs more often than its signal was sent, whatever is sent again at
\* the ends of nested subshells, and however often: sh.lastsig may be left from a
\* signal that has been noted, and an interrupt that ends ${ } is sent twice.
\* (Not so for signals ignored by default, as sh.ignsig is never cleared.)
NoPhantom == \A s \in Sigs \ Ignored : credit[s] >= 0

\* A signal that the main shell has a trap for leads to a run of the trap, however
\* deep the subshells are and however long they would run, unless another signal
\* ends the script or one of the odd cases comes in between.  (A signal ignored by
\* default waits for the end of the subshell.)
TrapRuns ==
    \A s \in Sigs \ Ignored : s \in owed ~> (s \notin owed \/ odd # {} \/ pc = "gone")
=============================================================================
