---------------------------- MODULE UnstoppedProofs ----------------------------
(***************************************************************************)
(* Module JobTable as long as no process has been stopped: the statuses of *)
(* background jobs are kept, JOBMAX is respected, and no process joins a   *)
(* job started by "&".  (Module JobTable shows by its properties, and      *)
(* README.md says, what goes wrong when one is stopped.)                   *)
(*                                                                         *)
(* Core, of module JobTableProofs, is the ground for two invariants that   *)
(* need each other: Shape is where in the list the job of the running      *)
(* pipeline and those of "&" are, Books is what the flags, the saved       *)
(* statuses and job.numbjob know of the background jobs.                   *)
(***************************************************************************)
EXTENDS JobTableProofs

\* Where no foreground command or pipeline is under way.
Rest == {"idle", "jobmax", "waitany", "waitb", "fg"}

\* The jobs of one process of A.
Lone(A) == {<<p>> : p \in A}

\* With job control all jobs but the first are of "&", and so is the first
\* where none is run in the foreground; job.curpgid is then 0.
Shape ==
    /\ savepgid = None
    /\ pc \in Rest => job.curpgid = None
    /\ pc \in {"wait0", "fg"} => monitor
    /\ pc \in {"fork", "forklast", "wait", "last"} => wpid \notin amp
    /\ monitor => \A k \in DOMAIN job.pwlist : k # 1 \/ pc \in Rest => job.pwlist[k] \in Lone(amp)
    /\ monitor /\ pc \notin Rest =>
          1 \in DOMAIN job.pwlist /\ Members(job, 1) \cap amp = {}
    /\ monitor /\ pc \in {"fork", "wait"} => job.pwlist[1] = <<wpid>>
    /\ monitor /\ pc \in Running => job.curjob \in Members(job, 1)
    /\ monitor /\ pc = "pipe" => job.curpgid \in Members(job, 1)
    /\ monitor /\ pc \in {"forklast", "last", "wait0"} => wpid \in Members(job, 1)

Quiet == \A p \in Procs : state[p] # "stop" /\ "stopped" \notin job.flag[p]

\* Only jobs of "&" are in the background.
BgAmp == \A p \in Procs : "bg" \in job.flag[p] => p \in amp

BornAmp == \A p \in amp : state[p] # "unborn"

\* A status that can be asked for is saved, or will be.
Savable == \A p \in amp \ asked : \/ p \in job.saved
                                  \/ "exitsave" \in job.flag[p]
                                  \/ pc = "fg" /\ wpid = p

\* job.numbjob is not less than the number of background jobs not yet reaped.
Counted ==
    /\ Cardinality(amp \cap Live) <= job.numbjob
    /\ Cardinality(amp \cap Live) <= JOBMAX
    /\ ~ moved => /\ job.numbjob = Cardinality(amp \cap Live)
                  /\ \A p \in amp \cap Live : "bg" \in job.flag[p]

Books == Quiet /\ BgAmp /\ BornAmp /\ Savable /\ Counted

Unstopped == stopped = {} => Shape /\ Books

----------------------------------------------------------------------------
(* Tables from which only jobs that are done have gone.                    *)

\* u is t after an operation that forgets nothing that is still asked for.
Pruned(t, u) ==
    /\ \A i \in DOMAIN u.pwlist : \E l \in DOMAIN t.pwlist : u.pwlist[i] = t.pwlist[l]
    /\ u.curpgid \in {t.curpgid, None} /\ u.numbjob = t.numbjob
    /\ \A p \in t.saved : p \in u.saved
    /\ \A p \in Procs :
          /\ "stopped" \in u.flag[p] => "stopped" \in t.flag[p]
          /\ "done" \in u.flag[p] => "done" \in t.flag[p]
          /\ "bg" \in u.flag[p] => "bg" \in t.flag[p]
          /\ ("bg" \in t.flag[p] /\ "done" \notin t.flag[p] => "bg" \in u.flag[p])
          /\ "exitsave" \in t.flag[p] => "exitsave" \in u.flag[p] \/ p \in u.saved

LEMMA PrunedTwice ==
    ASSUME NEW t, NEW u, NEW v, Pruned(t, u), Pruned(u, v)
    PROVE  Pruned(t, v)
  BY DEF Pruned

\* The same list and flags.
LEMMA PrunedSame ==
    ASSUME NEW t, NEW u, u.pwlist = t.pwlist, u.flag = t.flag, u.saved = t.saved,
           u.curpgid \in {t.curpgid, None}, u.numbjob = t.numbjob
    PROVE  Pruned(t, u)
  BY DEF Pruned

LEMMA OffLess ==
    ASSUME NEW t, TableOK(t), NEW P, NEW F
    PROVE  \A p \in Procs : /\ Off(t, P, F).flag[p] \subseteq t.flag[p]
                            /\ p \notin P => Off(t, P, F).flag[p] = t.flag[p]
  <1> DEFINE u == Off(t, P, F)
  <1>1. \A p \in Procs : u.flag[p] = IF p \in P THEN t.flag[p] \ F ELSE t.flag[p]
    BY OffIs
  <1> HIDE DEF u
  <1>2. \A p \in Procs : u.flag[p] \subseteq t.flag[p] /\ (p \notin P => u.flag[p] = t.flag[p])
    BY <1>1
  <1> QED
    BY <1>2 DEF u

LEMMA PrunedOff ==
    ASSUME NEW t, TableOK(t), NEW P, NEW F, F \subseteq {"notify", "stopped"}
    PROVE  Pruned(t, Off(t, P, F)) /\ Off(t, P, F).pwlist = t.pwlist
  <1> DEFINE u == Off(t, P, F)
  <1>1. Alike(t, u) /\ u.pwlist = t.pwlist /\ u.curpgid = t.curpgid
    BY OffIs
  <1>2. \A p \in Procs : u.flag[p] = IF p \in P THEN t.flag[p] \ F ELSE t.flag[p]
    BY OffIs
  <1> HIDE DEF u
  <1>3. \A p \in Procs : \A f \in {"done", "bg", "exitsave"} : f \in u.flag[p] <=> f \in t.flag[p]
    BY <1>2
  <1>4. \A p \in Procs : "stopped" \in u.flag[p] => "stopped" \in t.flag[p]
    BY <1>2
  <1> QED
    BY <1>1, <1>3, <1>4 DEF Pruned, Alike, u

LEMMA PrunedDrop ==
    ASSUME NEW t, TableOK(t), NEW n \in BOOLEAN,
           NEW K, K \subseteq DOMAIN t.pwlist, \A k \in K : MayDrop(t, k, n)
    PROVE  Pruned(t, Drop(t, K))
  <1> DEFINE u == Drop(t, K)
             out == Out(t, K)
  <1>1. /\ u.numbjob = t.numbjob
        /\ u.saved = t.saved \cup {p \in out : "exitsave" \in t.flag[p]}
        /\ u.curpgid = IF 1 \in K THEN None ELSE t.curpgid
        /\ \A i \in DOMAIN u.pwlist : \E l \in DOMAIN t.pwlist \ K : u.pwlist[i] = t.pwlist[l]
    BY DropIs
  <1>2. \A p \in Procs : u.flag[p] = IF p \in out THEN {} ELSE t.flag[p]
    BY DropIs
  <1>3. \A p \in out : "done" \in t.flag[p]
    <2>1. \A k \in K : \A p \in Members(t, k) : "done" \in t.flag[p]
      BY DropsDone
    <2> QED
      BY <2>1 DEF Out
  <1> HIDE DEF u, out
  <1> QED
    BY <1>1, <1>2, <1>3 DEF Pruned, u

LEMMA PrunedUnpost ==
    ASSUME NEW t, TableOK(t), NEW n \in BOOLEAN, NEW k \in DOMAIN t.pwlist
    PROVE  Pruned(t, Unpost(t, k, n))
  <1>1. CASE MayDrop(t, k, n)
    <2>1. Pruned(t, Drop(t, {k}))
      BY <1>1, PrunedDrop
    <2> QED
      BY <1>1, <2>1 DEF Unpost
  <1>2. CASE ~ MayDrop(t, k, n)
    BY <1>2, PrunedSame DEF Unpost
  <1> QED
    BY <1>1, <1>2

LEMMA PrunedUnpostAll ==
    ASSUME NEW t, TableOK(t)
    PROVE  Pruned(t, UnpostAll(t))
  BY PrunedDrop DEF UnpostAll

\* The job of the pipeline that is run stays at the head of the list.
LEMMA HeadStays ==
    ASSUME NEW t, TableOK(t), 1 \in DOMAIN t.pwlist, t.curjob \in Members(t, 1)
    PROVE  /\ 1 \in DOMAIN UnpostAll(t).pwlist
           /\ UnpostAll(t).pwlist[1] = t.pwlist[1]
           /\ \A i \in DOMAIN UnpostAll(t).pwlist :
                 i # 1 => \E l \in DOMAIN t.pwlist \ {1} : UnpostAll(t).pwlist[i] = t.pwlist[l]
           /\ \A n \in BOOLEAN : ~ MayDrop(t, 1, n)
  <1> DEFINE K == {k \in DOMAIN t.pwlist : MayDrop(t, k, FALSE)}
             u == Drop(t, K)
  <1>1. \A n \in BOOLEAN : ~ MayDrop(t, 1, n)
    BY DEF MayDrop
  <1>2. 1 \in DOMAIN t.pwlist \ K /\ K \subseteq DOMAIN t.pwlist
    BY <1>1
  <1>3. UnpostAll(t) = u
    BY DEF UnpostAll
  <1> HIDE DEF K
  <1>4. /\ TableOK(u)
        /\ \A i \in DOMAIN u.pwlist : \E l \in DOMAIN t.pwlist \ K : u.pwlist[i] = t.pwlist[l]
        /\ 1 \in DOMAIN u.pwlist /\ u.pwlist[1] = t.pwlist[1]
    BY <1>2, DropIs
  <1> HIDE DEF u
  <1>5. \A i \in DOMAIN u.pwlist :
           i # 1 => \E l \in DOMAIN t.pwlist \ {1} : u.pwlist[i] = t.pwlist[l]
    <2> SUFFICES ASSUME NEW i \in DOMAIN u.pwlist, i # 1
                 PROVE  \E l \in DOMAIN t.pwlist \ {1} : u.pwlist[i] = t.pwlist[l]
      OBVIOUS
    <2>1. PICK l \in DOMAIN t.pwlist \ K : u.pwlist[i] = t.pwlist[l]
      BY <1>4
    <2>2. l # 1
      <3> SUFFICES ASSUME l = 1
                   PROVE  FALSE
        OBVIOUS
      <3>1. u.pwlist[i] = u.pwlist[1]
        BY <1>4, <2>1
      <3>2. ToSet(u.pwlist[i]) \cap ToSet(u.pwlist[1]) = {}
        BY <1>4 DEF TableOK, ListOK
      <3>3. Top(u, 1) \in Members(u, 1)
        BY <1>4, JobIs
      <3> QED
        BY <3>1, <3>2, <3>3 DEF Members
    <2> QED
      BY <2>1, <2>2
  <1> QED
    BY <1>1, <1>3, <1>4, <1>5

----------------------------------------------------------------------------
(* What keeps the books.                                                   *)

LEMMA OpenIs ==
    ASSUME Types
    PROVE  /\ IsFiniteSet(amp \cap Live) /\ Cardinality(amp \cap Live) \in Nat
           /\ Live \subseteq Procs
  <1>1. Live \subseteq Procs
    BY DEF Live, Types
  <1>2. amp \cap Live \in SUBSET Procs
    BY <1>1
  <1>3. IsFiniteSet(Procs)
    BY TableAssumption
  <1>4. IsFiniteSet(amp \cap Live)
    BY <1>2, <1>3, FS_Subset
  <1> QED
    BY <1>1, <1>4, FS_CardinalityType

\* A step that starts and reaps nothing.
LEMMA BooksTo ==
    ASSUME Core, Books, Live' = Live, amp' = amp, asked \subseteq asked',
           \A p \in Procs : /\ state'[p] = "stop" => state[p] = "stop"
                            /\ state'[p] = "unborn" => state[p] = "unborn",
           \A p \in Procs : "stopped" \in job'.flag[p] => "stopped" \in job.flag[p],
           \A p \in Procs : "bg" \in job'.flag[p] => "bg" \in job.flag[p] \/ p \in amp,
           \A p \in amp \ asked' :
              p \in job.saved \/ "exitsave" \in job.flag[p] \/ (pc = "fg" /\ wpid = p) =>
                 p \in job'.saved \/ "exitsave" \in job'.flag[p] \/ (pc' = "fg" /\ wpid' = p),
           job'.numbjob = job.numbjob \/ (Live = {} /\ job'.numbjob = 0),
           ~ moved' => ~ moved /\ \A p \in amp \cap Live :
                                     "bg" \in job.flag[p] => "bg" \in job'.flag[p]
    PROVE  Books'
  <1>1. Types
    BY DEF Core
  <1>2. Quiet'
    BY DEF Books, Quiet
  <1>3. BgAmp'
    BY DEF Books, BgAmp
  <1>4. BornAmp'
    BY <1>1 DEF Books, BornAmp, Types
  <1>5. Savable'
    BY DEF Books, Savable
  <1>6. Live' = Live
    OBVIOUS
  <1> DEFINE n == Cardinality(amp \cap Live)
  <1>7. Cardinality(amp' \cap Live') = n
    BY <1>6
  <1>8. n <= job.numbjob /\ n <= JOBMAX /\ (~ moved => job.numbjob = n)
    BY DEF Books, Counted
  <1>9. n <= job'.numbjob /\ (~ moved' => job'.numbjob = n)
    <2>1. CASE job'.numbjob = job.numbjob
      BY <1>8, <2>1
    <2>2. CASE Live = {} /\ job'.numbjob = 0
      <3>1. amp \cap Live = {}
        BY <2>2
      <3>2. n = 0
        BY <3>1, FS_EmptySet
      <3> HIDE DEF n
      <3> QED
        BY <2>2, <3>2
    <2> QED
      BY <2>1, <2>2
  <1>10. ~ moved' => \A p \in amp' \cap Live' : "bg" \in job'.flag[p]
    BY <1>6 DEF Books, Counted
  <1> HIDE DEF n
  <1>11. Counted'
    BY <1>7, <1>8, <1>9, <1>10 DEF Counted
  <1> QED
    BY <1>2, <1>3, <1>4, <1>5, <1>11 DEF Books

\* Jobs that are done go.
LEMMA BooksPruned ==
    ASSUME Core, Books, state' = state, news' = news, amp' = amp, asked \subseteq asked',
           Pruned(job, job'), ~ moved' => ~ moved,
           pc = "fg" => wpid \in asked' \/ (pc' = "fg" /\ wpid' = wpid)
    PROVE  Books'
  <1>1. Posted(job, state, news)
    BY CoreTable
  <1>2. \A p \in Procs : p \in Live => "done" \notin job.flag[p]
    BY <1>1 DEF Posted, Live
  <1>3. amp \subseteq Procs
    BY DEF Core, Types
  <1>4. \A p \in amp \cap Live : "bg" \in job.flag[p] => "bg" \in job'.flag[p]
    BY <1>2, <1>3 DEF Pruned
  <1>5. \A p \in amp \ asked' :
           p \in job.saved \/ "exitsave" \in job.flag[p] \/ (pc = "fg" /\ wpid = p) =>
              p \in job'.saved \/ "exitsave" \in job'.flag[p] \/ (pc' = "fg" /\ wpid' = p)
    BY <1>3 DEF Pruned
  <1>6. job'.numbjob = job.numbjob
    BY DEF Pruned
  <1>7. \A p \in Procs : "stopped" \in job'.flag[p] => "stopped" \in job.flag[p]
    BY DEF Pruned
  <1>8. \A p \in Procs : "bg" \in job'.flag[p] => "bg" \in job.flag[p] \/ p \in amp
    BY DEF Pruned
  <1>9. Live' = Live
    BY DEF Live
  <1> QED
    BY <1>4, <1>5, <1>6, <1>7, <1>8, <1>9, BooksTo

\* SIGCONT to processes of which none has stopped.
LEMMA NothingResumed ==
    ASSUME Types, Quiet, NEW P, P \subseteq Procs, Resume(P)
    PROVE  state' = state /\ news' = news /\ pgrp' = pgrp
  <1>1. /\ state' = [p \in Procs |-> IF p \in P /\ state[p] = "stop" THEN "run" ELSE state[p]]
        /\ news' = news \cup {p \in P : state[p] = "stop"}
        /\ pgrp' = pgrp
    BY DEF Resume
  <1>2. \A p \in Procs : state[p] # "stop"
    BY DEF Quiet
  <1>3. state' = [p \in Procs |-> state[p]]
    BY <1>1, <1>2
  <1>4. state \in [Procs -> States]
    BY DEF Types
  <1>5. {p \in P : state[p] = "stop"} = {}
    BY <1>2
  <1> QED
    BY <1>1, <1>3, <1>4, <1>5

\* job_unstop() then only takes P_NOTIFY off processes that are not there.
LEMMA NothingUnstopped ==
    ASSUME Types, Quiet, NEW t, TableOK(t), NEW k \in DOMAIN t.pwlist, Unstop(t, k),
           \A p \in Procs : "stopped" \notin t.flag[p]
    PROVE  /\ state' = state /\ news' = news /\ pgrp' = pgrp
           /\ job'.pwlist = t.pwlist /\ job'.curpgid = t.curpgid /\ job'.curjob = t.curjob
           /\ job'.saved = t.saved /\ job'.numbjob = t.numbjob
           /\ \A p \in Procs : job'.flag[p] = t.flag[p]
  <1> DEFINE S == {p \in Members(t, k) : "stopped" \in t.flag[p]}
             F == {"stopped", "notify"}
             G == IF S = {} THEN {} ELSE Group(pgrp[Top(t, k)])
  <1>1. job' = Off(t, S, F) /\ Resume(G)
    BY DEF Unstop
  <1>2. S = {}
    BY JobIs
  <1>3. G = {}
    BY <1>2
  <1> HIDE DEF S, F, G
  <1>4. state' = state /\ news' = news /\ pgrp' = pgrp
    BY <1>1, <1>3, NothingResumed
  <1> DEFINE u == Off(t, S, F)
  <1>5. Alike(t, u) /\ u.pwlist = t.pwlist /\ u.curpgid = t.curpgid
    BY OffIs
  <1>6. \A p \in Procs : u.flag[p] = t.flag[p]
    BY <1>2, OffLess
  <1> HIDE DEF u
  <1>7. job' = u
    BY <1>1 DEF u
  <1> QED
    BY <1>4, <1>5, <1>6, <1>7 DEF Alike

----------------------------------------------------------------------------
(* Steps where no foreground command or pipeline is under way.             *)

LEMMA ShapeRest ==
    ASSUME Shape, pc \in Rest, pc' \in Rest, monitor' = monitor, amp' = amp,
           savepgid' = savepgid, pc' = "fg" => monitor,
           job'.curpgid \in {job.curpgid, None},
           \A i \in DOMAIN job'.pwlist : \E l \in DOMAIN job.pwlist : job'.pwlist[i] = job.pwlist[l]
    PROVE  Shape'
  <1>1. savepgid' = None /\ job'.curpgid = None
    BY DEF Shape
  <1>2. monitor' => \A k \in DOMAIN job'.pwlist : job'.pwlist[k] \in Lone(amp')
    BY DEF Shape
  <1>3. pc' \notin {"fork", "forklast", "wait", "last", "wait0", "pipe", "end"}
    BY DEF Rest
  <1> QED
    BY <1>1, <1>2, <1>3 DEF Shape, Running

LEMMA RestTo ==
    ASSUME Core, Shape, Books, pc \in Rest, pc' \in Rest, Pruned(job, job'),
           monitor' = monitor, savepgid' = savepgid, state' = state, news' = news,
           amp' = amp, asked \subseteq asked',
           ~ moved' => ~ moved, pc' = "fg" => monitor,
           pc = "fg" => wpid \in asked' \/ (pc' = "fg" /\ wpid' = wpid)
    PROVE  Shape' /\ Books'
  <1>1. Books'
    BY BooksPruned
  <1>2. Shape'
    BY ShapeRest DEF Pruned
  <1> QED
    BY <1>1, <1>2

LEMMA QuietUnstopped ==
    ASSUME Core, Shape, Books, BgBegin \/ WaitAny \/ WaitAnyEnd
    PROVE  Shape' /\ Books'
  <1>1. /\ UNCHANGED <<monitor, chldtrap, state, news, pgrp, wpid, savepgid, ghosts>>
        /\ pc \in {"idle", "waitany"} /\ pc' \in {"jobmax", "waitany", "idle"}
        /\ job' = job \/ (Live = {} /\ job' = [job EXCEPT !.numbjob = 0])
    BY DEF BgBegin, WaitAny, WaitAnyEnd, kernel
  <1>2. /\ job'.pwlist = job.pwlist /\ job'.flag = job.flag /\ job'.saved = job.saved
        /\ job'.curpgid = job.curpgid
        /\ job'.numbjob = job.numbjob \/ (Live = {} /\ job'.numbjob = 0)
    <2>1. CASE job' = job
      BY <2>1
    <2>2. CASE Live = {} /\ job' = [job EXCEPT !.numbjob = 0]
      <3> DEFINE n == 0
      <3>1. job' = [job EXCEPT !.numbjob = n] /\ job \in Table
        BY <2>2, CoreTable
      <3> HIDE DEF n
      <3>2. /\ job'.pwlist = job.pwlist /\ job'.flag = job.flag /\ job'.saved = job.saved
            /\ job'.curpgid = job.curpgid /\ job'.numbjob = n
        BY <3>1 DEF Table
      <3> QED
        BY <2>2, <3>2 DEF n
    <2> QED
      BY <1>1, <2>1, <2>2
  <1>3. Shape'
    BY <1>1, <1>2, ShapeRest DEF Rest, ghosts
  <1>4. Books'
    <2>1. Live' = Live
      BY <1>1 DEF Live
    <2> QED
      BY <1>1, <1>2, <2>1, BooksTo DEF ghosts
  <1> QED
    BY <1>3, <1>4

LEMMA PrunedTrapped ==
    ASSUME NEW t, TableOK(t)
    PROVE  Pruned(t, Trapped(t))
  <1> DEFINE w == Trapped(t)
  <1>1. /\ TableOK(w) /\ Kept(t, w) /\ w.numbjob = t.numbjob
        /\ \A q \in Due(t) : InTable(t, q) /\ {"bg", "done"} \subseteq t.flag[q]
        /\ \A q \in Procs : w.flag[q] = IF q \in Due(t) THEN t.flag[q] \ {"bg"} ELSE t.flag[q]
    BY TrappedIs
  <1> HIDE DEF w
  <1>2. \A p \in Procs : \A f \in {"done", "stopped", "exitsave"} : f \in w.flag[p] <=> f \in t.flag[p]
    BY <1>1
  <1>3. \A p \in Procs : "bg" \in w.flag[p] => "bg" \in t.flag[p]
    BY <1>1
  <1>4. \A p \in Procs : "bg" \in t.flag[p] /\ "done" \notin t.flag[p] => "bg" \in w.flag[p]
    BY <1>1
  <1> QED
    BY <1>1, <1>2, <1>3, <1>4 DEF Pruned, Kept, w

LEMMA ChkTrapUnstopped ==
    ASSUME Core, Shape, Books, ChkTrap
    PROVE  Shape' /\ Books'
  <1> DEFINE f == FALSE
             t == [job EXCEPT !.note = f]
             w == Trapped(t)
  <1>1. job \in Table /\ TableOK(job)
    BY CoreTable
  <1>2. /\ pc = "idle" /\ job' = JobChldtrap(t, TRUE)
        /\ UNCHANGED <<monitor, chldtrap, kernel, pc, wpid, savepgid, ghosts>>
    BY DEF ChkTrap
  <1>3. f \in BOOLEAN
    OBVIOUS
  <1> HIDE DEF f
  <1>4. /\ t \in Table /\ t.pwlist = job.pwlist /\ t.flag = job.flag /\ t.saved = job.saved
        /\ t.curpgid = job.curpgid /\ t.numbjob = job.numbjob
    BY <1>1, <1>3 DEF Table
  <1>5. Pruned(job, t) /\ TableOK(t)
    BY <1>1, <1>4, PrunedSame DEF TableOK
  <1> HIDE DEF t
  <1>6. Pruned(t, w) /\ TableOK(w)
    BY <1>5, PrunedTrapped, TrappedIs
  <1> HIDE DEF w
  <1>7. Pruned(w, job')
    <2>1. CASE t.bckpid \in Due(t)
      <3> DEFINE k == JobOf(w, t.bckpid)
      <3>1. job' = Unpost(w, k, FALSE)
        BY <1>2, <1>5, <2>1, ChldtrapIs DEF w
      <3>2. k \in DOMAIN w.pwlist
        BY <1>5, <2>1, ChldtrapIs DEF w
      <3> HIDE DEF k
      <3>3. Pruned(w, Unpost(w, k, FALSE))
        BY <1>6, <3>2, PrunedUnpost
      <3> QED
        BY <3>1, <3>3
    <2>2. CASE t.bckpid \notin Due(t)
      <3>1. job' = w
        BY <1>2, <1>5, <2>2, ChldtrapIs DEF w
      <3> QED
        BY <3>1, PrunedSame
    <2> QED
      BY <2>1, <2>2
  <1>8. Pruned(job, job')
    BY <1>5, <1>6, <1>7, PrunedTwice
  <1> QED
    BY <1>2, <1>8, RestTo DEF Rest, kernel, ghosts

----------------------------------------------------------------------------
(* The kernel, and waitpid().                                              *)

\* A step that leaves the list and the groups alone.
LEMMA ShapeSame ==
    ASSUME Shape, monitor' = monitor, savepgid' = savepgid, pc' = pc, wpid' = wpid, amp' = amp,
           job'.pwlist = job.pwlist, job'.curpgid = job.curpgid, job'.curjob = job.curjob
    PROVE  Shape'
  BY DEF Shape, Members

LEMMA KernelUnstopped ==
    ASSUME Core, Shape, Books, NEW p \in Procs, Exit(p) \/ Cont(p)
    PROVE  Shape' /\ Books'
  <1>1. Types /\ state[p] # "stop"
    BY DEF Core, Books, Quiet
  <1>2. /\ state[p] = "run" /\ state' = [state EXCEPT ![p] = "dead"]
        /\ news' = news \cup {p}
        /\ UNCHANGED <<monitor, chldtrap, pgrp, job, pc, wpid, savepgid, ghosts>>
    BY <1>1 DEF Exit, Cont
  <1>3. state'[p] = "dead" /\ \A q \in Procs : q # p => state'[q] = state[q]
    BY <1>1, <1>2 DEF Types
  <1>4. Live' = Live
    BY <1>1, <1>2, <1>3 DEF Live, Types
  <1>5. Books'
    BY <1>2, <1>3, <1>4, BooksTo DEF ghosts
  <1>6. Shape'
    BY <1>2, ShapeSame DEF ghosts
  <1> QED
    BY <1>5, <1>6

\* The end of a background job is counted.
LEMMA ReapCounted ==
    ASSUME Core, Books, NEW p \in news, state[p] = "dead", state' = state, news' = news \ {p},
           amp' = amp, moved' = moved,
           job'.numbjob = (IF Live = {p} THEN 0
                           ELSE IF "bg" \in job.flag[p] THEN job.numbjob - 1 ELSE job.numbjob),
           job.numbjob \in Int,
           \A q \in Procs : q # p /\ "bg" \in job.flag[q] /\ "done" \notin job.flag[q]
                               => "bg" \in job'.flag[q]
    PROVE  Counted'
  <1> DEFINE O == amp \cap Live
             n == Cardinality(O)
             m == job.numbjob
  <1>1. Types /\ Posted(job, state, news)
    BY CoreTable
  <1>2. p \in Procs /\ p \in Live /\ IsFiniteSet(O) /\ n \in Nat
    BY <1>1, OpenIs DEF Types, Live
  <1>3. Live' = Live \ {p}
    BY <1>1 DEF Live, Types
  <1>4. amp' \cap Live' = O \ {p}
    BY <1>3
  <1>5. n <= m /\ n <= JOBMAX /\ (~ moved => m = n)
    BY DEF Books, Counted
  <1>6. \A q \in Procs : q \in Live => "done" \notin job.flag[q]
    BY <1>1 DEF Posted, Live
  <1>7. "bg" \in job.flag[p] => p \in O
    BY <1>2 DEF Books, BgAmp
  <1>8. ~ moved /\ p \in O => "bg" \in job.flag[p]
    BY DEF Books, Counted
  <1>9. ~ moved' => \A q \in amp' \cap Live' : "bg" \in job'.flag[q]
    <2> SUFFICES ASSUME ~ moved, NEW q \in O \ {p}
                 PROVE  "bg" \in job'.flag[q]
      BY <1>4
    <2>1. "bg" \in job.flag[q]
      BY DEF Books, Counted
    <2>2. q \in Procs /\ "done" \notin job.flag[q]
      BY <1>1, <1>6 DEF Types
    <2> QED
      BY <2>1, <2>2
  <1> HIDE DEF O
  <1>10. Cardinality(O \ {p}) = IF p \in O THEN n - 1 ELSE n
    BY <1>2, FS_RemoveElement
  <1>11. JOBMAX \in Nat
    BY TableAssumption
  <1>12. /\ Cardinality(O \ {p}) <= job'.numbjob
         /\ Cardinality(O \ {p}) <= JOBMAX
         /\ ~ moved => job'.numbjob = Cardinality(O \ {p})
    <2>1. CASE Live = {p}
      <3>1. O \ {p} = {}
        BY <2>1 DEF O
      <3>2. Cardinality(O \ {p}) = 0
        BY <3>1, FS_EmptySet
      <3>3. job'.numbjob = 0
        BY <2>1
      <3> QED
        BY <1>11, <3>2, <3>3
    <2>2. CASE Live # {p} /\ "bg" \in job.flag[p]
      <3>1. job'.numbjob = m - 1 /\ Cardinality(O \ {p}) = n - 1
        BY <1>7, <1>10, <2>2
      <3> HIDE DEF n, m
      <3> QED
        BY <1>2, <1>5, <1>11, <3>1 DEF m
    <2>3. CASE Live # {p} /\ "bg" \notin job.flag[p]
      <3>1. job'.numbjob = m
        BY <2>3
      <3>2. moved \/ p \notin O
        BY <1>8, <2>3
      <3> HIDE DEF n
      <3>3. Cardinality(O \ {p}) <= n /\ (~ moved => Cardinality(O \ {p}) = n)
        BY <1>2, <1>10, <3>2
      <3>4. Cardinality(O \ {p}) \in Int
        BY <1>2, <1>10
      <3> QED
        BY <1>2, <1>5, <1>11, <3>1, <3>3, <3>4
    <2> QED
      BY <2>1, <2>2, <2>3
  <1> QED
    BY <1>4, <1>9, <1>12 DEF Counted

LEMMA ReapUnstopped ==
    ASSUME Core, Shape, Books, NEW p \in Procs, NEW sig \in BOOLEAN, Reap(p, sig)
    PROVE  Shape' /\ Books'
  <1> DEFINE t == CASE state[p] = "stop" -> ReapStopped(job, p)
                    [] state[p] = "run"  -> ReapContinued(job, p)
                    [] state[p] = "dead" -> ReapExited(job, p, sig)
  <1>1. Types /\ TableOK(job) /\ job \in Table /\ Posted(job, state, news)
    BY CoreTable
  <1>2. /\ p \in news /\ news' = news \ {p}
        /\ job' = IF Live = {p} /\ state[p] = "dead" THEN [t EXCEPT !.numbjob = 0] ELSE t
        /\ UNCHANGED <<monitor, chldtrap, state, pgrp, pc, wpid, savepgid, ghosts>>
    BY DEF Reap
  <1>3. InTable(job, p) /\ state[p] \in {"run", "dead"}
    BY <1>1, <1>2 DEF Posted, Types, States, Books, Quiet
  <1>4. CASE state[p] = "run"
    <2> DEFINE F == {"notify", "stopped"}
               P == {p}
               o == Off(job, P, F)
    <2>1. job' = o
      BY <1>2, <1>4 DEF ReapContinued
    <2> HIDE DEF F, P
    <2>2. F \subseteq {"notify", "stopped"}
      BY DEF F
    <2>3. Pruned(job, o) /\ o.pwlist = job.pwlist
      BY <1>1, <2>2, PrunedOff
    <2>4. Alike(job, o) /\ o.curpgid = job.curpgid
      BY <1>1, OffIs
    <2> HIDE DEF o
    <2>5. Live' = Live
      BY <1>2, <1>4 DEF Live
    <2>6. Shape'
      BY <1>2, <2>1, <2>3, <2>4, ShapeSame DEF Alike, ghosts
    <2>7. \A q \in amp \ asked :
             q \in job.saved \/ "exitsave" \in job.flag[q] => q \in o.saved \/ "exitsave" \in o.flag[q]
      BY <1>1, <2>3 DEF Pruned, Types
    <2>8. \A q \in Procs : q \in Live => "done" \notin job.flag[q]
      BY <1>1 DEF Posted, Live
    <2>9. /\ \A q \in Procs : "stopped" \in o.flag[q] => "stopped" \in job.flag[q]
          /\ \A q \in Procs : "bg" \in o.flag[q] => "bg" \in job.flag[q]
          /\ \A q \in amp \cap Live : "bg" \in job.flag[q] => "bg" \in o.flag[q]
          /\ o.numbjob = job.numbjob
      BY <1>1, <2>3, <2>8 DEF Pruned, Types
    <2>10. Books'
      BY <1>2, <2>1, <2>5, <2>7, <2>9, BooksTo DEF ghosts
    <2> QED
      BY <2>6, <2>10
  <1>5. CASE state[p] = "dead"
    <2> DEFINE x == ReapExited(job, p, sig)
    <2>0. job' = IF Live = {p} THEN [x EXCEPT !.numbjob = 0] ELSE x
      BY <1>2, <1>5
    <2> HIDE DEF x
    <2>1. chldtrap \in BOOLEAN
      BY <1>1 DEF Types
    <2>2. TableOK(x) /\ Kept(job, x)
      BY <1>1, <1>3, <2>1, ExitedIs DEF x
    <2>3. x.numbjob = IF "bg" \in job.flag[p] THEN job.numbjob - 1 ELSE job.numbjob
      BY <1>1, <1>3, <2>1, ExitedIs DEF x
    <2>4. \A q \in Procs : /\ x.flag[q] \subseteq job.flag[q] \cup {"done", "notify"}
                           /\ q # p => x.flag[q] \subseteq job.flag[q]
                           /\ "exitsave" \in x.flag[q] <=> "exitsave" \in job.flag[q]
                           /\ (q # p /\ "bg" \in job.flag[q] /\ "done" \notin job.flag[q]
                                  => "bg" \in x.flag[q])
      BY <1>1, <1>3, <2>1, ExitedIs DEF x
    <2>5. /\ job'.pwlist = job.pwlist /\ job'.saved = job.saved /\ job'.curjob = job.curjob
          /\ job'.curpgid = job.curpgid /\ job'.flag = x.flag
          /\ job'.numbjob = IF Live = {p} THEN 0 ELSE x.numbjob
      <3> DEFINE n == 0
      <3>1. x \in Table
        BY <2>2 DEF TableOK
      <3>2. job' = [x EXCEPT !.numbjob = IF Live = {p} THEN n ELSE @]
        BY <2>0, <3>1 DEF Table
      <3> HIDE DEF n
      <3>3. /\ job'.pwlist = x.pwlist /\ job'.saved = x.saved /\ job'.curjob = x.curjob
            /\ job'.curpgid = x.curpgid /\ job'.flag = x.flag
            /\ job'.numbjob = IF Live = {p} THEN n ELSE x.numbjob
        BY <3>1, <3>2 DEF Table
      <3> QED
        BY <2>2, <3>3 DEF Kept, n
    <2>6. Shape'
      BY <1>2, <2>5, ShapeSame DEF ghosts
    <2>7. \A q \in Procs : /\ "stopped" \in x.flag[q] => "stopped" \in job.flag[q]
                           /\ "bg" \in x.flag[q] => "bg" \in job.flag[q]
      BY <2>4
    <2>8. Quiet' /\ BgAmp'
      BY <1>2, <2>5, <2>7 DEF Books, Quiet, BgAmp, ghosts
    <2>9. BornAmp'
      BY <1>2 DEF Books, BornAmp, ghosts
    <2>10. Savable'
      BY <1>1, <1>2, <2>4, <2>5 DEF Books, Savable, ghosts, Types
    <2>11. Counted'
      <3>1. job.numbjob \in Int
        BY <1>1 DEF Table
      <3>2. job'.numbjob = (IF Live = {p} THEN 0
                            ELSE IF "bg" \in job.flag[p] THEN job.numbjob - 1 ELSE job.numbjob)
        BY <2>3, <2>5
      <3>3. \A q \in Procs : q # p /\ "bg" \in job.flag[q] /\ "done" \notin job.flag[q]
                               => "bg" \in job'.flag[q]
        BY <2>4, <2>5
      <3> QED
        BY <1>2, <1>5, <3>1, <3>2, <3>3, ReapCounted DEF ghosts
    <2> QED
      BY <2>6, <2>8, <2>9, <2>10, <2>11 DEF Books
  <1> QED
    BY <1>3, <1>4, <1>5

----------------------------------------------------------------------------
(* The builtins and the prompt.                                            *)

LEMMA WaitPidUnstopped ==
    ASSUME Core, Shape, Books, NEW p \in Procs, WaitPid(p)
    PROVE  Shape' /\ Books'
  <1>1. Types /\ TableOK(job) /\ job \in Table
    BY CoreTable
  <1>2. /\ pc = "idle" /\ UNCHANGED <<monitor, chldtrap, savepgid, amp, stopped, moved>>
        /\ asked \subseteq asked'
    BY DEF WaitPid
  <1>3. CASE InTable(job, p)
    <2>1. /\ IF monitor THEN Unstop(job, JobOf(job, p)) ELSE UNCHANGED <<kernel, job>>
          /\ pc' = "waitb"
      BY <1>3 DEF WaitPid
    <2>2. /\ state' = state /\ news' = news
          /\ job'.pwlist = job.pwlist /\ job'.curpgid = job.curpgid
          /\ job'.saved = job.saved /\ job'.numbjob = job.numbjob
          /\ \A q \in Procs : job'.flag[q] = job.flag[q]
      <3>1. CASE monitor
        <4>1. JobOf(job, p) \in DOMAIN job.pwlist
          BY <1>1, <1>3, Where
        <4>2. \A q \in Procs : "stopped" \notin job.flag[q]
          BY DEF Books, Quiet
        <4>3. Quiet /\ Unstop(job, JobOf(job, p))
          BY <2>1, <3>1 DEF Books
        <4> QED
          BY <1>1, <4>1, <4>2, <4>3, NothingUnstopped
      <3>2. CASE ~ monitor
        BY <2>1, <3>2 DEF kernel
      <3> QED
        BY <3>1, <3>2
    <2>3. Pruned(job, job')
      BY <2>2 DEF Pruned
    <2> QED
      BY <1>2, <2>1, <2>2, <2>3, RestTo DEF Rest
  <1>4. CASE ~ InTable(job, p)
    <2>1. /\ job' = [job EXCEPT !.saved = @ \ {p}]
          /\ asked' = asked \cup {p}
          /\ UNCHANGED <<kernel, pc, wpid>>
      BY <1>4 DEF WaitPid
    <2>2. /\ job'.pwlist = job.pwlist /\ job'.flag = job.flag /\ job'.saved = job.saved \ {p}
          /\ job'.curpgid = job.curpgid /\ job'.numbjob = job.numbjob
      BY <1>1, <2>1 DEF Table
    <2>3. Shape'
      BY <1>2, <2>1, <2>2, ShapeRest DEF Rest
    <2>4. Live' = Live /\ state' = state
      BY <2>1 DEF Live, kernel
    <2>5. Books'
      BY <1>2, <2>1, <2>2, <2>4, BooksTo
    <2> QED
      BY <2>3, <2>5
  <1> QED
    BY <1>3, <1>4

LEMMA FgUnstopped ==
    ASSUME Core, Shape, Books, NEW k \in DOMAIN job.pwlist, Fg(k)
    PROVE  Shape' /\ Books'
  <1> DEFINE t == ToFront(job, k)
             p == FirstUnfinished(t, 1)
             P == {p}
             F == {"bg", "exitsave"}
             o == Off(t, P, F)
  <1>1. Types /\ TableOK(job) /\ job \in Table
    BY CoreTable
  <1>2. /\ pc = "idle" /\ monitor /\ moved' = TRUE
        /\ UNCHANGED <<monitor, chldtrap, savepgid, amp, asked, stopped>>
        /\ IF MayDrop(t, 1, TRUE)
           THEN job' = Drop(t, {1}) /\ UNCHANGED <<kernel, pc, wpid>>
           ELSE /\ Unstop(o, 1)
                /\ pc' = "fg" /\ wpid' = p
    BY DEF Fg
  <1>3. /\ TableOK(t) /\ Alike(job, t) /\ t.flag = job.flag
        /\ t.curpgid \in {job.curpgid, None}
        /\ 1 \in DOMAIN t.pwlist
        /\ \A i \in DOMAIN t.pwlist : \E l \in DOMAIN job.pwlist : t.pwlist[i] = job.pwlist[l]
    BY <1>1, FrontIs
  <1> HIDE DEF t, p, P, F
  <1>4. Pruned(job, t)
    BY <1>3 DEF Pruned, Alike
  <1>5. CASE MayDrop(t, 1, TRUE)
    <2>1. Pruned(t, Drop(t, {1}))
      BY <1>3, <1>5, PrunedDrop
    <2>2. Pruned(job, job')
      BY <1>2, <1>4, <1>5, <2>1, PrunedTwice
    <2> QED
      BY <1>2, <1>5, <2>2, RestTo DEF Rest, kernel
  <1>6. CASE ~ MayDrop(t, 1, TRUE)
    <2>1. TableOK(o) /\ Alike(t, o) /\ o.pwlist = t.pwlist /\ o.curpgid = t.curpgid
      BY <1>3, OffIs
    <2>2. \A q \in Procs : o.flag[q] \subseteq t.flag[q] /\ (q \notin P => o.flag[q] = t.flag[q])
      BY <1>3, OffLess
    <2>3. Unstop(o, 1) /\ pc' = "fg" /\ wpid' = p
      BY <1>2, <1>6
    <2> HIDE DEF o
    <2>4. \A q \in Procs : o.flag[q] \subseteq job.flag[q] /\ (q \notin P => o.flag[q] = job.flag[q])
      BY <1>3, <2>2
    <2>5. \A q \in Procs : "stopped" \notin o.flag[q]
      BY <2>4 DEF Books, Quiet
    <2>6. Quiet /\ 1 \in DOMAIN o.pwlist
      BY <1>3, <2>1 DEF Books
    <2>7. /\ state' = state /\ news' = news
          /\ job'.pwlist = o.pwlist /\ job'.curpgid = o.curpgid
          /\ job'.saved = o.saved /\ job'.numbjob = o.numbjob
          /\ \A q \in Procs : job'.flag[q] = o.flag[q]
      BY <1>1, <2>1, <2>3, <2>5, <2>6, NothingUnstopped
    <2>8. Shape'
      BY <1>2, <1>3, <2>1, <2>3, <2>7, ShapeRest DEF Rest
    <2>9. Live' = Live
      BY <2>7 DEF Live
    <2>10. job'.saved = job.saved /\ job'.numbjob = job.numbjob
      BY <1>3, <2>1, <2>7 DEF Alike
    <2>11. \A q \in amp \ asked' : q \in job.saved \/ "exitsave" \in job.flag[q] =>
                                     q \in job'.saved \/ "exitsave" \in job'.flag[q] \/ wpid' = q
      BY <1>1, <2>3, <2>4, <2>7, <2>10 DEF P, Types
    <2>12. \A q \in Procs : /\ "stopped" \in job'.flag[q] => "stopped" \in job.flag[q]
                            /\ "bg" \in job'.flag[q] => "bg" \in job.flag[q]
      BY <2>4, <2>7
    <2>13. Books'
      BY <1>2, <2>3, <2>7, <2>9, <2>10, <2>11, <2>12, BooksTo
    <2> QED
      BY <2>8, <2>13
  <1> QED
    BY <1>5, <1>6

LEMMA BgUnstopped ==
    ASSUME Core, Shape, Books, NEW k \in DOMAIN job.pwlist, Bg(k)
    PROVE  Shape' /\ Books'
  <1> DEFINE b == Top(job, k)
             P == {b}
             F == {"bg"}
             o == On(job, P, F)
             t == [o EXCEPT !.bckpid = b]
  <1>1. Types /\ TableOK(job)
    BY CoreTable
  <1>2. /\ pc = "idle" /\ monitor /\ moved' = TRUE
        /\ UNCHANGED <<monitor, chldtrap, pc, wpid, savepgid, amp, asked, stopped>>
        /\ IF "stopped" \in job.flag[b] THEN Unstop(t, k) ELSE job' = t /\ UNCHANGED kernel
    BY DEF Bg
  <1>3. b \in Procs /\ b \in amp
    <2>1. b \in Procs /\ b = job.pwlist[k][1]
      BY <1>1, JobIs
    <2>2. job.pwlist[k] \in Lone(amp)
      BY <1>2 DEF Shape, Rest
    <2> QED
      BY <2>1, <2>2 DEF Lone
  <1>4. job' = t /\ UNCHANGED kernel
    BY <1>2, <1>3 DEF Books, Quiet
  <1>5. F \subseteq Flags
    BY DEF Flags
  <1> HIDE DEF P, F
  <1>6. TableOK(o) /\ Alike(job, o) /\ o.pwlist = job.pwlist /\ o.curpgid = job.curpgid
    BY <1>1, <1>5, OnIs
  <1>7. \A q \in Procs : o.flag[q] = IF q \in P THEN job.flag[q] \cup F ELSE job.flag[q]
    BY <1>1, <1>5, OnIs
  <1> HIDE DEF o, b
  <1>8. /\ job'.pwlist = o.pwlist /\ job'.flag = o.flag /\ job'.saved = o.saved
        /\ job'.curpgid = o.curpgid /\ job'.curjob = o.curjob /\ job'.numbjob = o.numbjob
    BY <1>4, <1>6 DEF TableOK, Table
  <1>9. Shape'
    BY <1>2, <1>6, <1>8, ShapeSame DEF Alike
  <1>10. \A q \in Procs : /\ \A f \in {"stopped", "exitsave"} : f \in o.flag[q] <=> f \in job.flag[q]
                          /\ "bg" \in o.flag[q] => "bg" \in job.flag[q] \/ q \in P
    BY <1>7 DEF F
  <1>11. Live' = Live /\ state' = state
    BY <1>4 DEF Live, kernel
  <1>12. job'.saved = job.saved /\ job'.numbjob = job.numbjob
    BY <1>6, <1>8 DEF Alike
  <1>13. \A q \in amp \ asked' : "exitsave" \in job.flag[q] => "exitsave" \in job'.flag[q]
    BY <1>1, <1>8, <1>10 DEF Types
  <1>14. \A q \in Procs : /\ "stopped" \in job'.flag[q] => "stopped" \in job.flag[q]
                          /\ "bg" \in job'.flag[q] => "bg" \in job.flag[q] \/ q \in amp
    BY <1>3, <1>8, <1>10 DEF P
  <1>15. Books'
    BY <1>2, <1>11, <1>12, <1>13, <1>14, BooksTo
  <1> QED
    BY <1>9, <1>15

LEMMA KillContUnstopped ==
    ASSUME Core, Shape, Books, NEW k \in DOMAIN job.pwlist, KillCont(k)
    PROVE  Shape' /\ Books'
  <1> DEFINE S == {p \in Members(job, k) : "stopped" \in job.flag[p]}
             F == {"stopped", "notify"}
             G == Group(pgrp[Top(job, k)])
  <1>1. Types /\ TableOK(job) /\ Quiet
    BY CoreTable DEF Books
  <1>2. /\ pc = "idle" /\ job' = Off(job, S, F) /\ Resume(G)
        /\ UNCHANGED <<monitor, chldtrap, pc, wpid, savepgid, ghosts>>
    BY DEF KillCont
  <1>3. G \subseteq Procs /\ F \subseteq {"notify", "stopped"}
    BY <1>1 DEF Group, Live, Types
  <1> HIDE DEF S, F, G
  <1>4. Pruned(job, job')
    BY <1>1, <1>2, <1>3, PrunedOff
  <1>5. state' = state /\ news' = news
    BY <1>1, <1>2, <1>3, NothingResumed
  <1> QED
    BY <1>2, <1>4, <1>5, RestTo DEF Rest, ghosts

LEMMA ListingUnstopped ==
    ASSUME Core, Shape, Books, Jobs \/ Prompt
    PROVE  Shape' /\ Books'
  <1> DEFINE t(K) == Listed(job, K)
             u(K) == UnpostAll(t(K))
  <1>1. Types /\ TableOK(job)
    BY CoreTable
  <1>2. /\ pc = "idle"
        /\ UNCHANGED <<monitor, chldtrap, kernel, pc, wpid, savepgid, ghosts>>
    BY DEF Jobs, Prompt
  <1>3. \A K : Pruned(job, t(K)) /\ TableOK(t(K))
    BY <1>1, PrunedOff, OffIs DEF Listed
  <1> HIDE DEF t
  <1>4. \A K : Pruned(job, u(K)) /\ u(K) \in Table
    <2> TAKE K
    <2>1. Pruned(t(K), u(K))
      BY <1>3, PrunedUnpostAll
    <2>2. TableOK(u(K))
      BY <1>3, DropIs DEF UnpostAll
    <2> QED
      BY <1>3, <2>1, <2>2, PrunedTwice DEF TableOK
  <1>5. CASE Jobs
    <2>1. job' = u(DOMAIN job.pwlist)
      BY <1>5 DEF Jobs, t
    <2>2. Pruned(job, job')
      BY <1>4, <2>1
    <2> QED
      BY <1>2, <2>2, RestTo DEF Rest, kernel, ghosts
  <1>6. CASE Prompt
    <2> DEFINE K == {k \in DOMAIN job.pwlist : "notify" \in job.flag[Top(job, k)]}
               v == u(K)
               f == FALSE
    <2>1. job' = [v EXCEPT !.curpgid = None, !.note = f]
      BY <1>6 DEF Prompt, t
    <2>2. Pruned(job, v) /\ v \in Table
      BY <1>4
    <2> HIDE DEF K, v, f
    <2>3. /\ job'.pwlist = v.pwlist /\ job'.flag = v.flag /\ job'.saved = v.saved
          /\ job'.curpgid = None /\ job'.numbjob = v.numbjob
      BY <2>1, <2>2 DEF Table
    <2>4. Pruned(job, job')
      BY <2>2, <2>3, PrunedSame, PrunedTwice
    <2> QED
      BY <1>2, <2>4, RestTo DEF Rest, kernel, ghosts
  <1> QED
    BY <1>5, <1>6

----------------------------------------------------------------------------
(* New processes.                                                          *)

LEMMA PostHead ==
    ASSUME NEW t, TableOK(t), NEW p \in Procs, ~ InTable(t, p), NEW join,
           t.curjob # None => InTable(t, t.curjob)
    PROVE  LET u == JobPost(t, p, join) IN
           /\ join = None => u.pwlist[1] = <<p>> /\ Members(u, 1) = {p}
           /\ join # None /\ t.pwlist # <<>> =>
                 Members(u, 1) = {p} \cup Members(t, JoinedJob(t, join))
  <1> DEFINE u == JobPost(t, p, join)
             new == join = None \/ t.pwlist = <<>>
             k == JoinedJob(t, join)
             Others == \A i \in DOMAIN u.pwlist : i # 1 =>
                          \E l \in DOMAIN t.pwlist : u.pwlist[i] = t.pwlist[l] /\ (~ new => l # k)
  <1>1. /\ u.pwlist[1] = IF new THEN <<p>> ELSE <<p>> \o t.pwlist[k]
        /\ Members(u, 1) = IF new THEN {p} ELSE {p} \cup Members(t, k)
    <2> HIDE DEF Others, u
    <2>1. /\ TableOK(u) /\ Alike(t, u) /\ u.flag = t.flag /\ u.curpgid = t.curpgid
          /\ 1 \in DOMAIN u.pwlist
          /\ u.pwlist[1] = IF new THEN <<p>> ELSE <<p>> \o t.pwlist[k]
          /\ Members(u, 1) = IF new THEN {p} ELSE {p} \cup Members(t, k)
          /\ Others
          /\ \A x : InTable(u, x) <=> InTable(t, x) \/ x = p
      BY PostIs DEF Others, u
    <2> QED
      BY <2>1
  <1> HIDE DEF u, k
  <1> QED
    BY <1>1 DEF u, k

\* Where the new process is put: in a job of its own at the head of the list,
\* or in the job at the head.
LEMMA ForkHead ==
    ASSUME Core, NEW p \in Procs, NEW join \in Procs \cup {None},
           NEW flags, flags \subseteq Flags \ {"done"}, NEW cur \in {p, job.curjob},
           Fork(p, join, flags, cur)
    PROVE  /\ 1 \in DOMAIN job'.pwlist
           /\ join = None =>
                 /\ job'.pwlist[1] = <<p>> /\ Members(job', 1) = {p}
                 /\ \A i \in DOMAIN job'.pwlist : i # 1 =>
                       \E l \in DOMAIN job.pwlist : job'.pwlist[i] = job.pwlist[l]
           /\ 1 \in DOMAIN job.pwlist /\ join \in Members(job, 1) =>
                 /\ Members(job', 1) = {p} \cup Members(job, 1)
                 /\ \A i \in DOMAIN job'.pwlist : i # 1 =>
                       \E l \in DOMAIN job.pwlist \ {1} : job'.pwlist[i] = job.pwlist[l]
  <1> DEFINE u == JobPost(job, p, join)
  <1>1. TableOK(job) /\ Posted(job, state, news)
    BY CoreTable
  <1>2. ~ InTable(job, p) /\ job'.pwlist = u.pwlist /\ (job.curjob # None => InTable(job, job.curjob))
    BY <1>1, ForkIs DEF Posted
  <1>3. Members(job', 1) = Members(u, 1)
    BY <1>2 DEF Members
  <1>4. 1 \in DOMAIN u.pwlist
    BY <1>1, <1>2, PostIs
  <1>5. ASSUME join = None
        PROVE  /\ u.pwlist[1] = <<p>> /\ Members(u, 1) = {p}
               /\ \A i \in DOMAIN u.pwlist : i # 1 =>
                     \E l \in DOMAIN job.pwlist : u.pwlist[i] = job.pwlist[l]
    <2>1. u.pwlist[1] = <<p>>
      BY <1>1, <1>2, <1>5, PostHead
    <2>2. Members(u, 1) = {p}
      BY <1>1, <1>2, <1>5, PostHead
    <2>3. \A i \in DOMAIN u.pwlist : i # 1 =>
             \E l \in DOMAIN job.pwlist : u.pwlist[i] = job.pwlist[l]
      BY <1>1, <1>2, PostOthers
    <2> QED
      BY <2>1, <2>2, <2>3
  <1>6. ASSUME 1 \in DOMAIN job.pwlist, join \in Members(job, 1)
        PROVE  /\ Members(u, 1) = {p} \cup Members(job, 1)
               /\ \A i \in DOMAIN u.pwlist : i # 1 =>
                     \E l \in DOMAIN job.pwlist \ {1} : u.pwlist[i] = job.pwlist[l]
    <2>1. join \in Procs /\ InTable(job, join) /\ join # None /\ job.pwlist # <<>>
      BY <1>1, <1>6, JobIs, TableAssumption
    <2>2. JoinedJob(job, join) = 1
      BY <1>1, <1>6, <2>1, Where DEF JoinedJob
    <2>3. Members(u, 1) = {p} \cup Members(job, 1)
      <3>1. Members(u, 1) = {p} \cup Members(job, JoinedJob(job, join))
        BY <1>1, <1>2, <2>1, PostHead
      <3> QED
        BY <2>2, <3>1
    <2>4. \A i \in DOMAIN u.pwlist : i # 1 =>
             \E l \in DOMAIN job.pwlist :
                /\ u.pwlist[i] = job.pwlist[l]
                /\ join # None /\ job.pwlist # <<>> => l # JoinedJob(job, join)
      BY <1>1, <1>2, PostOthers
    <2> HIDE DEF u
    <2>5. \A i \in DOMAIN u.pwlist : i # 1 =>
             \E l \in DOMAIN job.pwlist \ {1} : u.pwlist[i] = job.pwlist[l]
      BY <2>1, <2>2, <2>4
    <2> QED
      BY <2>3, <2>5
  <1> HIDE DEF u
  <1> QED
    BY <1>2, <1>3, <1>4, <1>5, <1>6

\* A process that is not of "&".
LEMMA ForkBooks ==
    ASSUME Core, Books, NEW p \in Procs, NEW join \in Procs \cup {None},
           NEW flags, flags \subseteq Flags \ {"done"}, NEW cur \in {p, job.curjob},
           Fork(p, join, flags, cur), "bg" \notin flags, "stopped" \notin flags,
           amp' = amp, asked' = asked, moved' = moved, pc \in {"idle", "pipe"}
    PROVE  Books' /\ p \notin amp
  <1>1. Types
    BY DEF Core
  <1>2. /\ job'.flag[p] = flags
        /\ \A q \in Procs : q # p => job'.flag[q] = job.flag[q]
        /\ job'.saved = job.saved /\ job'.numbjob = job.numbjob
        /\ state[p] = "unborn" /\ p \notin news
        /\ state' = [state EXCEPT ![p] = "run"] /\ news' = news
    <2>1. job'.flag[p] = flags /\ job'.saved = job.saved
      BY ForkIs
    <2>2. \A q \in Procs : q # p => job'.flag[q] = job.flag[q]
      BY ForkIs
    <2>3. job'.numbjob = job.numbjob
      BY ForkIs
    <2>4. /\ state[p] = "unborn" /\ p \notin news
          /\ state' = [state EXCEPT ![p] = "run"] /\ news' = news
      BY ForkIs
    <2> QED
      BY <2>1, <2>2, <2>3, <2>4
  <1>3. p \notin amp
    BY <1>2 DEF Books, BornAmp
  <1>4. state'[p] = "run" /\ \A q \in Procs : q # p => state'[q] = state[q]
    BY <1>1, <1>2 DEF Types
  <1>5. amp' \cap Live' = amp \cap Live
    BY <1>1, <1>2, <1>3, <1>4 DEF Live, Types
  <1>6. Quiet'
    BY <1>2, <1>4 DEF Books, Quiet
  <1>7. BgAmp'
    BY <1>1, <1>2 DEF Books, BgAmp
  <1>8. BornAmp'
    BY <1>1, <1>3, <1>4 DEF Books, BornAmp, Types
  <1>9. Savable'
    BY <1>1, <1>2, <1>3 DEF Books, Savable, Types
  <1>10. \A q \in amp \cap Live : q # p /\ q \in Procs
    BY <1>1, <1>3 DEF Types
  <1>11. Counted'
    BY <1>2, <1>5, <1>10 DEF Books, Counted
  <1> QED
    BY <1>3, <1>6, <1>7, <1>8, <1>9, <1>11 DEF Books

LEMMA StartBgUnstopped ==
    ASSUME Core, Shape, Books, NEW p \in Procs, StartBg(p)
    PROVE  Shape' /\ Books'
  <1> DEFINE F == {"exitsave", "bg"}
  <1>1. Types /\ job \in Table
    BY CoreTable
  <1>2. /\ pc = "jobmax" /\ job.numbjob < JOBMAX /\ Fork(p, None, F, job.curjob)
        /\ pc' = "idle" /\ amp' = amp \cup {p}
        /\ UNCHANGED <<wpid, savepgid, asked, stopped, moved>>
    BY DEF StartBg
  <1>3. F \subseteq Flags \ {"done"} /\ "bg" \in F /\ "exitsave" \in F /\ "stopped" \notin F
    BY DEF Flags
  <1> HIDE DEF F
  <1>4. /\ job'.flag[p] = F
        /\ \A q \in Procs : q # p => job'.flag[q] = job.flag[q]
        /\ job'.saved = job.saved /\ job'.numbjob = job.numbjob + 1
        /\ job'.curpgid = job.curpgid
        /\ state[p] = "unborn" /\ p \notin news /\ monitor' = monitor
        /\ state' = [state EXCEPT ![p] = "run"] /\ news' = news
    BY <1>2, <1>3, ForkIs
  <1>5. /\ job'.pwlist[1] = <<p>>
        /\ \A i \in DOMAIN job'.pwlist : i # 1 =>
              \E l \in DOMAIN job.pwlist : job'.pwlist[i] = job.pwlist[l]
    BY <1>2, <1>3, ForkHead
  <1>6. p \notin amp
    BY <1>4 DEF Books, BornAmp
  <1>7. state'[p] = "run" /\ \A q \in Procs : q # p => state'[q] = state[q]
    BY <1>1, <1>4 DEF Types
  <1>8. Shape'
    <2>1. savepgid' = None /\ job'.curpgid = None
      BY <1>2, <1>4 DEF Shape, Rest
    <2>2. monitor' => \A k \in DOMAIN job'.pwlist : job'.pwlist[k] \in Lone(amp')
      BY <1>2, <1>4, <1>5 DEF Shape, Rest, Lone
    <2> QED
      BY <1>2, <2>1, <2>2 DEF Shape, Running, Rest
  <1>9. Quiet'
    BY <1>3, <1>4, <1>7 DEF Books, Quiet
  <1>10. BgAmp' /\ BornAmp'
    BY <1>1, <1>2, <1>4, <1>7 DEF Books, BgAmp, BornAmp, Types
  <1>11. Savable'
    BY <1>1, <1>2, <1>3, <1>4 DEF Books, Savable, Types
  <1>12. Counted'
    <2> DEFINE O == amp \cap Live
               n == Cardinality(O)
               m == job.numbjob
    <2>1. amp' \cap Live' = O \cup {p} /\ p \notin O
      BY <1>1, <1>2, <1>4, <1>6, <1>7 DEF Live, Types
    <2>2. IsFiniteSet(O) /\ n \in Nat
      BY <1>1, OpenIs
    <2>3. n <= m /\ n <= JOBMAX /\ (~ moved => m = n)
      BY DEF Books, Counted
    <2>4. Cardinality(O \cup {p}) = n + 1
      BY <2>1, <2>2, FS_AddElement
    <2>5. m \in Int /\ JOBMAX \in Nat
      BY <1>1, TableAssumption DEF Table
    <2>6. m < JOBMAX /\ job'.numbjob = m + 1
      BY <1>2, <1>4
    <2> HIDE DEF n, m
    <2>7. n + 1 <= m + 1 /\ n + 1 <= JOBMAX /\ (~ moved => m + 1 = n + 1)
      BY <2>2, <2>3, <2>5, <2>6
    <2>8. ~ moved' => \A q \in O \cup {p} : "bg" \in job'.flag[q]
      BY <1>1, <1>2, <1>3, <1>4 DEF Books, Counted, Types
    <2> HIDE DEF O
    <2> QED
      BY <1>2, <2>1, <2>4, <2>6, <2>7, <2>8 DEF Counted
  <1> QED
    BY <1>8, <1>9, <1>10, <1>11, <1>12 DEF Books

LEMMA ForkGroup ==
    ASSUME Core, NEW p \in Procs, NEW join \in Procs \cup {None},
           NEW flags, flags \subseteq Flags \ {"done"}, NEW cur \in {p, job.curjob},
           Fork(p, join, flags, cur)
    PROVE  /\ job'.curjob = cur
           /\ "bg" \notin flags /\ monitor =>
                 job'.curpgid \in {p, join} /\ (join = None => job'.curpgid = p)
  <1> DEFINE g == IF join # None /\ Group(join) # {} THEN join ELSE p
  <1>1. job'.curpgid = IF "bg" \notin flags /\ monitor THEN g ELSE job.curpgid
    BY ForkIs
  <1>2. job'.curjob = cur
    BY ForkIs
  <1> QED
    BY <1>1, <1>2

\* With job control, at the beginning of a pipeline and within it.
LEMMA ForkShape ==
    ASSUME Core, Shape, monitor, pc \in {"idle", "pipe"}, NEW p \in Procs, p \notin amp,
           NEW flags, flags \subseteq Flags \ {"done"}, "bg" \notin flags,
           NEW cur \in {p, job.curjob}, Fork(p, job.curpgid, flags, cur)
    PROVE  /\ 1 \in DOMAIN job'.pwlist /\ p \in Members(job', 1) /\ Members(job', 1) \cap amp = {}
           /\ \A k \in DOMAIN job'.pwlist : k # 1 => job'.pwlist[k] \in Lone(amp)
           /\ pc = "idle" => job'.pwlist[1] = <<p>>
           /\ pc = "pipe" => job.curjob \in Members(job', 1)
           /\ job'.curpgid \in Members(job', 1) /\ job'.curjob = cur
  <1> DEFINE join == job.curpgid
  <1>1. join \in Procs \cup {None}
    BY CoreTable
  <1>2. job'.curpgid \in {p, join} /\ (join = None => job'.curpgid = p) /\ job'.curjob = cur
    BY <1>1, ForkGroup
  <1>3. 1 \in DOMAIN job'.pwlist
    BY <1>1, ForkHead
  <1>4. join = None =>
           /\ job'.pwlist[1] = <<p>> /\ Members(job', 1) = {p}
           /\ \A i \in DOMAIN job'.pwlist : i # 1 =>
                 \E l \in DOMAIN job.pwlist : job'.pwlist[i] = job.pwlist[l]
    BY <1>1, ForkHead
  <1>5. 1 \in DOMAIN job.pwlist /\ join \in Members(job, 1) =>
           /\ Members(job', 1) = {p} \cup Members(job, 1)
           /\ \A i \in DOMAIN job'.pwlist : i # 1 =>
                 \E l \in DOMAIN job.pwlist \ {1} : job'.pwlist[i] = job.pwlist[l]
    BY <1>1, ForkHead
  <1>6. CASE pc = "idle"
    <2>1. join = None /\ \A k \in DOMAIN job.pwlist : job.pwlist[k] \in Lone(amp)
      BY <1>6 DEF Shape, Rest
    <2> QED
      BY <1>2, <1>3, <1>4, <1>6, <2>1
  <1>7. CASE pc = "pipe"
    <2>1. /\ 1 \in DOMAIN job.pwlist /\ join \in Members(job, 1)
          /\ Members(job, 1) \cap amp = {} /\ job.curjob \in Members(job, 1)
          /\ \A k \in DOMAIN job.pwlist : k # 1 => job.pwlist[k] \in Lone(amp)
      BY <1>7 DEF Shape, Rest, Running
    <2> QED
      BY <1>2, <1>3, <1>5, <1>7, <2>1
  <1> QED
    BY <1>6, <1>7

LEMMA StartUnstopped ==
    ASSUME Core, Shape, Books, NEW p \in Procs, StartFg(p) \/ PipeElement(p) \/ PipeLast(p)
    PROVE  Shape' /\ Books'
  <1>1. Types /\ job.curpgid \in Procs \cup {None} /\ job.curjob \in Procs \cup {None}
    BY CoreTable
  <1>2. PICK flags \in {{}, {"exitsave"}}, cur \in {p, job.curjob} :
           /\ Fork(p, job.curpgid, flags, cur)
           /\ pc = "idle" /\ pc' = "pipe" /\ monitor => cur = p
           /\ pc = "pipe" => cur = job.curjob
    <2>1. CASE StartFg(p)
      BY <2>1 DEF StartFg
    <2>2. CASE PipeElement(p)
      <3>1. /\ pc \in {"idle", "pipe"}
            /\ Fork(p, job.curpgid, {}, IF pc = "idle" /\ monitor THEN p ELSE job.curjob)
        BY <2>2 DEF PipeElement
      <3> QED
        BY <3>1
    <2>3. CASE PipeLast(p)
      BY <2>3 DEF PipeLast
    <2> QED
      BY <2>1, <2>2, <2>3
  <1>3. flags \subseteq Flags \ {"done"} /\ "bg" \notin flags /\ "stopped" \notin flags
    BY DEF Flags
  <1>4. /\ pc \in {"idle", "pipe"} /\ UNCHANGED ghosts
        /\ pc' \in {"fork", "pipe", "forklast"}
        /\ pc' \in {"fork", "forklast"} => wpid' = p
        /\ pc' = "fork" => pc = "idle"
        /\ pc' = "forklast" => pc = "pipe"
        /\ savepgid' \in {savepgid, job.curpgid}
        /\ pc = "pipe" => savepgid' = savepgid
    BY DEF StartFg, PipeElement, PipeLast
  <1>5. Books' /\ p \notin amp
    BY <1>1, <1>2, <1>3, <1>4, ForkBooks DEF ghosts
  <1>6. savepgid' = None
    BY <1>4 DEF Shape, Rest
  <1>7. monitor' = monitor
    BY <1>1, <1>2, <1>3, ForkIs
  <1>8. ASSUME monitor
        PROVE  /\ 1 \in DOMAIN job'.pwlist /\ p \in Members(job', 1)
               /\ Members(job', 1) \cap amp = {}
               /\ \A k \in DOMAIN job'.pwlist : k # 1 => job'.pwlist[k] \in Lone(amp)
               /\ pc = "idle" => job'.pwlist[1] = <<p>>
               /\ pc = "pipe" => job.curjob \in Members(job', 1)
               /\ job'.curpgid \in Members(job', 1) /\ job'.curjob = cur
    BY <1>2, <1>3, <1>4, <1>5, <1>8, ForkShape
  <1>9. Members(job, 1)' = Members(job', 1)
    BY DEF Members
  <1>10. pc' \notin Rest /\ pc' \notin {"wait", "last", "wait0", "fg", "end"}
    BY <1>4 DEF Rest
  <1>11. /\ pc' \in {"fork", "forklast", "wait", "last"} => wpid' \notin amp'
         /\ monitor' => \A k \in DOMAIN job'.pwlist : k # 1 \/ pc' \in Rest => job'.pwlist[k] \in Lone(amp')
         /\ monitor' => 1 \in DOMAIN job'.pwlist /\ Members(job, 1)' \cap amp' = {}
         /\ monitor' /\ pc' \in {"fork", "wait"} => job'.pwlist[1] = <<wpid'>>
         /\ monitor' /\ pc' \in Running => job'.curjob \in Members(job, 1)'
         /\ monitor' /\ pc' = "pipe" => job'.curpgid \in Members(job, 1)'
         /\ monitor' /\ pc' \in {"forklast", "last", "wait0"} => wpid' \in Members(job, 1)'
    <2>1. amp' = amp
      BY <1>4 DEF ghosts
    <2>2. pc' \in Running => pc' = "pipe" \/ pc = "pipe"
      BY <1>4 DEF Running
    <2> QED
      BY <1>2, <1>4, <1>5, <1>7, <1>8, <1>9, <1>10, <2>1, <2>2
  <1> QED
    BY <1>5, <1>6, <1>10, <1>11 DEF Shape

----------------------------------------------------------------------------
(* Pipelines and waits.                                                    *)

LEMMA WaitBeginUnstopped ==
    ASSUME Core, Shape, Books, WaitBegin
    PROVE  Shape' /\ Books'
  <1> DEFINE P == {wpid}
             F == {"exitsave"}
             t == Off(job, P, F)
  <1>1. Types /\ TableOK(job) /\ job \in Table
    BY CoreTable
  <1>2. /\ pc \in {"fork", "forklast"}
        /\ pc' = IF pc = "fork" THEN "wait" ELSE "last"
        /\ IF monitor THEN Unstop(t, JobOf(t, wpid)) ELSE job' = t /\ UNCHANGED kernel
        /\ UNCHANGED <<monitor, chldtrap, wpid, savepgid, ghosts>>
        /\ wpid \in Procs /\ InTable(job, wpid) /\ wpid \notin amp
    BY DEF WaitBegin, Core, Shape
  <1> HIDE DEF P, F
  <1>3. TableOK(t) /\ Alike(job, t) /\ t.pwlist = job.pwlist /\ t.curpgid = job.curpgid
    BY <1>1, OffIs
  <1>4. \A q \in Procs : t.flag[q] \subseteq job.flag[q] /\ (q \notin P => t.flag[q] = job.flag[q])
    BY <1>1, OffLess
  <1> HIDE DEF t
  <1>5. /\ state' = state /\ news' = news
        /\ job'.pwlist = t.pwlist /\ job'.curpgid = t.curpgid /\ job'.curjob = t.curjob
        /\ job'.saved = t.saved /\ job'.numbjob = t.numbjob
        /\ \A q \in Procs : job'.flag[q] = t.flag[q]
    <2>1. CASE monitor
      <3> DEFINE k == JobOf(t, wpid)
      <3>1. k \in DOMAIN t.pwlist
        BY <1>2, <1>3, SameList, Where
      <3>2. Quiet /\ Unstop(t, k)
        BY <1>2, <2>1 DEF Books
      <3>3. \A q \in Procs : "stopped" \notin t.flag[q]
        BY <1>4, <3>2 DEF Quiet
      <3> HIDE DEF k
      <3> QED
        BY <1>1, <1>3, <3>1, <3>2, <3>3, NothingUnstopped
    <2>2. CASE ~ monitor
      BY <1>2, <2>2 DEF kernel
    <2> QED
      BY <2>1, <2>2
  <1>6. Books'
    <2>1. Live' = Live
      BY <1>5 DEF Live
    <2>2. \A q \in amp : q \in Procs /\ job'.flag[q] = job.flag[q]
      BY <1>1, <1>2, <1>4, <1>5 DEF P, Types
    <2>3. \A q \in Procs : job'.flag[q] \subseteq job.flag[q]
      BY <1>4, <1>5
    <2>4. job'.saved = job.saved /\ job'.numbjob = job.numbjob
      BY <1>3, <1>5 DEF Alike
    <2>5. pc # "fg" /\ amp' = amp /\ asked' = asked /\ moved' = moved
      BY <1>2 DEF ghosts
    <2> QED
      BY <1>5, <2>1, <2>2, <2>3, <2>4, <2>5, BooksTo
  <1>7. /\ job'.pwlist = job.pwlist /\ job'.curpgid = job.curpgid /\ job'.curjob = job.curjob
        /\ amp' = amp /\ wpid' = wpid /\ savepgid' = savepgid /\ monitor' = monitor
    BY <1>2, <1>3, <1>5 DEF Alike, ghosts
  <1>8. Members(job, 1)' = Members(job, 1)
    BY <1>7 DEF Members
  <1>9. /\ pc \notin Rest /\ pc' \notin Rest /\ pc' \in {"wait", "last"}
        /\ (pc' = "wait" <=> pc = "fork") /\ (pc' = "last" <=> pc = "forklast")
    BY <1>2 DEF Rest
  <1>10. Shape'
    BY <1>2, <1>7, <1>8, <1>9 DEF Shape, Running
  <1> QED
    BY <1>6, <1>10

LEMMA PipeUnstopped ==
    ASSUME Core, Shape, Books, PipeBuiltin \/ PipeEnd
    PROVE  Shape' /\ Books'
  <1>1. Types /\ TableOK(job) /\ job \in Table
    BY CoreTable
  <1>2. CASE PipeBuiltin
    <2>1. /\ pc = "pipe" /\ job' = UnpostAll(job) /\ pc' = "end"
          /\ UNCHANGED <<monitor, chldtrap, kernel, wpid, savepgid, ghosts>>
      BY <1>2 DEF PipeBuiltin
    <2>2. Pruned(job, job')
      BY <1>1, <2>1, PrunedUnpostAll
    <2>3. Books'
      BY <2>1, <2>2, BooksPruned DEF kernel, ghosts
    <2>4. ASSUME monitor
          PROVE  /\ 1 \in DOMAIN job'.pwlist /\ job'.pwlist[1] = job.pwlist[1]
                 /\ \A i \in DOMAIN job'.pwlist :
                       i # 1 => \E l \in DOMAIN job.pwlist \ {1} : job'.pwlist[i] = job.pwlist[l]
                 /\ Members(job, 1)' = Members(job, 1)
                 /\ Members(job, 1) \cap amp = {} /\ job.curjob \in Members(job, 1)
      <3>1. /\ 1 \in DOMAIN job.pwlist /\ job.curjob \in Members(job, 1)
            /\ Members(job, 1) \cap amp = {}
        BY <2>1, <2>4 DEF Shape, Rest, Running
      <3> QED
        BY <1>1, <2>1, <3>1, HeadStays DEF Members
    <2>5. job'.curjob = job.curjob
      <3>1. PICK K : K = {k \in DOMAIN job.pwlist : MayDrop(job, k, FALSE)}
        OBVIOUS
      <3>2. job' = Drop(job, K) /\ K \subseteq DOMAIN job.pwlist
        BY <2>1, <3>1 DEF UnpostAll
      <3> QED
        BY <1>1, <3>2, DropIs
    <2>6. monitor => \A k \in DOMAIN job'.pwlist : k # 1 => job'.pwlist[k] \in Lone(amp)
      BY <2>4 DEF Shape
    <2>7. savepgid' = None /\ pc' \notin Rest /\ monitor' = monitor /\ amp' = amp
      BY <2>1 DEF Shape, Rest, ghosts
    <2>8. Shape'
      BY <2>1, <2>4, <2>5, <2>6, <2>7 DEF Shape
    <2> QED
      BY <2>3, <2>8
  <1>3. CASE PipeEnd /\ monitor
    <2> DEFINE k == JobOf(job, job.curjob)
    <2>1. /\ pc = "end" /\ 1 \in DOMAIN job.pwlist /\ job.curjob \in Members(job, 1)
          /\ Members(job, 1) \cap amp = {}
          /\ \A i \in DOMAIN job.pwlist : i # 1 => job.pwlist[i] \in Lone(amp)
      BY <1>3 DEF PipeEnd, Shape, Rest, Running
    <2>2. job.curjob # None /\ InTable(job, job.curjob)
      BY <1>1, <2>1, JobIs, TableAssumption
    <2>3. /\ job' = [job EXCEPT !.curjob = None]
          /\ wpid' = Top(job, k) /\ pc' = "wait0" /\ savepgid' = savepgid
          /\ UNCHANGED <<monitor, chldtrap, kernel, ghosts>>
      BY <1>3, <2>2 DEF PipeEnd
    <2>4. k = 1
      BY <1>1, <2>1, <2>2, Where
    <2>5. wpid' \in Members(job, 1)
      BY <1>1, <2>1, <2>3, <2>4, JobIs
    <2>6. /\ job'.pwlist = job.pwlist /\ job'.flag = job.flag /\ job'.saved = job.saved
          /\ job'.numbjob = job.numbjob /\ job'.curpgid = job.curpgid
      BY <1>1, <2>3 DEF Table
    <2>7. Pruned(job, job')
      BY <2>6, PrunedSame
    <2>8. Books'
      BY <2>1, <2>3, <2>7, BooksPruned DEF kernel, ghosts
    <2>9. Members(job, 1)' = Members(job, 1)
      BY <2>6 DEF Members
    <2>10. savepgid' = None /\ pc' \notin Rest /\ pc' \notin Running
      BY <2>3 DEF Shape, Rest, Running
    <2>11. Shape'
      BY <1>3, <2>1, <2>3, <2>5, <2>6, <2>9, <2>10 DEF Shape, ghosts
    <2> QED
      BY <2>8, <2>11
  <1>4. CASE PipeEnd /\ ~ monitor
    <2>1. /\ pc = "end" /\ job' = [job EXCEPT !.curpgid = savepgid, !.curjob = None]
          /\ pc' = "idle" /\ savepgid' = None
          /\ UNCHANGED <<monitor, chldtrap, kernel, ghosts>>
      BY <1>4 DEF PipeEnd
    <2>2. savepgid = None
      BY DEF Shape
    <2>3. /\ job'.pwlist = job.pwlist /\ job'.flag = job.flag /\ job'.saved = job.saved
          /\ job'.numbjob = job.numbjob /\ job'.curpgid = None
      BY <1>1, <2>1, <2>2 DEF Table
    <2>4. Pruned(job, job')
      BY <2>3, PrunedSame
    <2>5. Books'
      BY <2>1, <2>4, BooksPruned DEF kernel, ghosts
    <2>6. Shape'
      BY <1>4, <2>1, <2>3 DEF Shape
    <2> QED
      BY <2>5, <2>6
  <1> QED
    BY <1>2, <1>3, <1>4

LEMMA UnpostAllOK ==
    ASSUME NEW t, TableOK(t)
    PROVE  TableOK(UnpostAll(t)) /\ UnpostAll(t).curjob = t.curjob
  <1> DEFINE K == {k \in DOMAIN t.pwlist : MayDrop(t, k, FALSE)}
  <1>1. K \subseteq DOMAIN t.pwlist
    OBVIOUS
  <1>2. UnpostAll(t) = Drop(t, K)
    BY DEF UnpostAll
  <1> HIDE DEF K
  <1> QED
    BY <1>1, <1>2, DropIs

\* The foreground job, at the head of the list, is done and goes.
LEMMA HeadGone ==
    ASSUME NEW t, TableOK(t), 1 \in DOMAIN t.pwlist, MayDrop(t, 1, TRUE),
           NEW L, \A k \in DOMAIN t.pwlist : k # 1 => t.pwlist[k] \in L
    PROVE  LET u == UnpostAll(Unpost(t, 1, TRUE)) IN
           /\ u \in Table /\ u.curpgid = None
           /\ \A k \in DOMAIN u.pwlist : u.pwlist[k] \in L
  <1> DEFINE K == {1}
             w == Drop(t, K)
             u == UnpostAll(w)
  <1>1. Unpost(t, 1, TRUE) = w
    BY DEF Unpost
  <1>2. K \subseteq DOMAIN t.pwlist /\ 1 \in K
    OBVIOUS
  <1>3. /\ TableOK(w) /\ w.curpgid = None
        /\ \A i \in DOMAIN w.pwlist : \E l \in DOMAIN t.pwlist \ K : w.pwlist[i] = t.pwlist[l]
    BY <1>2, DropIs
  <1>4. \A i \in DOMAIN w.pwlist : w.pwlist[i] \in L
    BY <1>3
  <1> HIDE DEF w, K
  <1>5. TableOK(u)
    BY <1>3, UnpostAllOK
  <1>6. Pruned(w, u)
    BY <1>3, PrunedUnpostAll
  <1> HIDE DEF u
  <1>7. u.curpgid = None /\ \A k \in DOMAIN u.pwlist : u.pwlist[k] \in L
    BY <1>3, <1>4, <1>6 DEF Pruned
  <1> QED
    BY <1>1, <1>5, <1>7 DEF TableOK, u

\* What the end of job_wait() makes of the table t.
LEMMA ReturnIs ==
    ASSUME NEW t, TableOK(t), savepgid = None, Return(t)
    PROVE  /\ Pruned(t, job') /\ job'.pwlist = UnpostAll(t).pwlist /\ job'.curjob = t.curjob
           /\ pc = "wait0" => job'.curpgid = None
           /\ pc' = (IF pc = "last" THEN "end" ELSE "idle")
           /\ savepgid' = None
  <1> DEFINE u == UnpostAll(t)
  <1>1. TableOK(u) /\ Pruned(t, u) /\ u.curjob = t.curjob
    BY UnpostAllOK, PrunedUnpostAll
  <1>2. /\ job' = IF pc = "wait0" THEN [u EXCEPT !.curpgid = savepgid] ELSE u
        /\ pc' = (IF pc = "last" THEN "end" ELSE "idle")
        /\ savepgid' = None
    BY DEF Return
  <1> HIDE DEF u
  <1>3. CASE pc = "wait0"
    <2>1. u \in Table
      BY <1>1 DEF TableOK
    <2>2. /\ job'.pwlist = u.pwlist /\ job'.flag = u.flag /\ job'.saved = u.saved
          /\ job'.curpgid = None /\ job'.numbjob = u.numbjob /\ job'.curjob = u.curjob
      BY <1>2, <1>3, <2>1 DEF Table
    <2>3. Pruned(u, job')
      BY <2>2, PrunedSame
    <2> QED
      BY <1>1, <1>2, <2>2, <2>3, PrunedTwice DEF u
  <1>4. CASE pc # "wait0"
    BY <1>1, <1>2, <1>4 DEF u
  <1> QED
    BY <1>3, <1>4

\* The process that is waited for is done: its flags in the table t, of which
\* only jobs that are done go.
LEMMA DoneBooks ==
    ASSUME Core, Shape, Books, pc \in Waits, "done" \in job.flag[wpid],
           NEW saves, saves = (IF pc = "waitb" /\ IsTop(job, wpid) THEN {"exitsave"} ELSE {}),
           asked' = (IF IsTop(job, wpid) THEN asked \cup {wpid} ELSE asked),
           UNCHANGED <<monitor, chldtrap, kernel, amp, stopped, moved>>,
           Pruned(Off(job, {wpid}, {"notify"} \cup saves), job')
    PROVE  Books'
  <1> DEFINE P == {wpid}
             F == {"notify"} \cup saves
             t == Off(job, P, F)
  <1>1. /\ Types /\ TableOK(job) /\ Posted(job, state, news)
        /\ wpid \in Procs /\ InTable(job, wpid)
    BY CoreTable DEF Core
  <1>2. "bg" \notin F /\ "done" \notin F /\ ("exitsave" \in F => IsTop(job, wpid))
    OBVIOUS
  <1> HIDE DEF P, F
  <1>3. TableOK(t) /\ Alike(job, t) /\ t.pwlist = job.pwlist /\ t.curpgid = job.curpgid
    BY <1>1, OffIs
  <1>4. \A q \in Procs : t.flag[q] = IF q \in P THEN job.flag[q] \ F ELSE job.flag[q]
    BY <1>1, OffIs
  <1>5. Pruned(t, job')
    BY DEF P, F
  <1> HIDE DEF t
  <1>6. \A q \in Procs : /\ t.flag[q] \subseteq job.flag[q]
                         /\ "bg" \in job.flag[q] => "bg" \in t.flag[q]
                         /\ "exitsave" \in job.flag[q] /\ q \notin asked' => "exitsave" \in t.flag[q]
    BY <1>2, <1>4 DEF P
  <1>7. pc = "fg" => wpid \in asked'
    <2> SUFFICES ASSUME pc = "fg"
                 PROVE  IsTop(job, wpid)
      OBVIOUS
    <2> DEFINE k == JobOf(job, wpid)
    <2>1. k \in DOMAIN job.pwlist /\ wpid \in Members(job, k)
      BY <1>1, Where
    <2>2. job.pwlist[k] \in Lone(amp)
      BY <2>1 DEF Shape, Rest
    <2> HIDE DEF k
    <2>3. PICK a \in amp : job.pwlist[k] = <<a>>
      BY <2>2 DEF Lone
    <2>4. Len(job.pwlist[k]) = 1
      BY <2>3
    <2>5. Members(job, k) = {Top(job, k)}
      BY <1>1, <2>1, <2>4, JobIs
    <2> QED
      BY <1>1, <2>1, <2>5 DEF IsTop, k
  <1>8. amp \subseteq Procs
    BY <1>1 DEF Types
  <1>9. \A q \in Procs : q \in Live => "done" \notin job.flag[q]
    BY <1>1 DEF Posted, Live
  <1>10. \A q \in Procs : /\ "stopped" \in job'.flag[q] => "stopped" \in job.flag[q]
                          /\ "bg" \in job'.flag[q] => "bg" \in job.flag[q]
                          /\ ("bg" \in job.flag[q] /\ "done" \notin job.flag[q] => "bg" \in job'.flag[q])
    BY <1>5, <1>6 DEF Pruned
  <1>11. \A q \in amp \cap Live : "bg" \in job.flag[q] => "bg" \in job'.flag[q]
    BY <1>8, <1>9, <1>10
  <1>12. \A q \in amp \ asked' :
            q \in job.saved \/ "exitsave" \in job.flag[q] => q \in job'.saved \/ "exitsave" \in job'.flag[q]
    <2>1. job.saved = t.saved
      BY <1>3 DEF Alike
    <2> QED
      BY <2>1, <1>5, <1>6, <1>8 DEF Pruned
  <1>13. job'.numbjob = job.numbjob
    BY <1>3, <1>5 DEF Alike, Pruned
  <1>14. Live' = Live /\ state' = state /\ asked \subseteq asked' /\ amp' = amp /\ moved' = moved
    BY DEF Live, kernel
  <1> QED
    BY <1>7, <1>10, <1>11, <1>12, <1>13, <1>14, BooksTo

\* A wait for a foreground command or pipeline, with job control: its job is
\* the first, and is dropped unless the pipeline is still being run.
LEMMA DoneShape ==
    ASSUME Core, Shape, Books, monitor, pc \in {"wait", "last", "wait0"},
           "done" \in job.flag[wpid],
           NEW t, TableOK(t), t.pwlist = job.pwlist, t.curjob = job.curjob,
           \A q \in Procs : "bg" \in t.flag[q] => "bg" \in job.flag[q],
           "done" \in t.flag[wpid], "notify" \notin t.flag[wpid],
           pc = "wait0" => Unfinished(t, 1, TRUE) = {},
           UNCHANGED <<monitor, amp>>, Return(Unpost(t, 1, TRUE))
    PROVE  Shape'
  <1> DEFINE w == Unpost(t, 1, TRUE)
             u == UnpostAll(w)
  <1>1. /\ TableOK(job) /\ Types /\ savepgid = None
        /\ 1 \in DOMAIN job.pwlist /\ Members(job, 1) \cap amp = {}
        /\ \A k \in DOMAIN job.pwlist : k # 1 => job.pwlist[k] \in Lone(amp)
    BY CoreTable DEF Shape, Rest
  <1>2. wpid \in Members(job, 1) /\ wpid \in Procs
    <2>1. CASE pc = "wait"
      <3>1. job.pwlist[1] = <<wpid>>
        BY <2>1 DEF Shape
      <3>2. Top(job, 1) = wpid
        BY <1>1, <3>1, JobIs
      <3> QED
        BY <1>1, <3>2, JobIs
    <2>2. CASE pc \in {"last", "wait0"}
      BY <1>1, <2>2, JobIs DEF Shape
    <2> QED
      BY <2>1, <2>2
  <1>3. Members(t, 1) = Members(job, 1) /\ Top(t, 1) \in Members(job, 1)
    BY <1>1, JobIs, SameList
  <1>4. "bg" \notin t.flag[Top(t, 1)]
    <2>1. Top(t, 1) \notin amp /\ Top(t, 1) \in Procs
      BY <1>1, <1>3, JobIs
    <2> QED
      BY <2>1 DEF Books, BgAmp
  <1>5. TableOK(w) /\ w.curjob = t.curjob
    <2> DEFINE K == {1}
    <2>1. K \subseteq DOMAIN t.pwlist
      BY <1>1
    <2>2. w = t \/ w = Drop(t, K)
      BY DEF Unpost
    <2> HIDE DEF K, w
    <2> QED
      BY <2>1, <2>2, DropIs
  <1>6. /\ Pruned(w, job') /\ job'.pwlist = u.pwlist /\ job'.curjob = w.curjob
        /\ pc = "wait0" => job'.curpgid = None
        /\ pc' = (IF pc = "last" THEN "end" ELSE "idle")
        /\ savepgid' = None
    <2> HIDE DEF w
    <2>1. Return(w)
      BY DEF w
    <2> QED
      BY <1>1, <1>5, <2>1, ReturnIs
  <1>7. CASE pc \in {"wait", "wait0"}
    <2>1. job.curjob = None
      BY <1>7 DEF Core, Running
    <2>2. Unfinished(t, 1, TRUE) = {}
      <3>1. CASE pc = "wait"
        <4>0. job.pwlist[1] = <<wpid>>
          BY <3>1 DEF Shape
        <4>1. Len(job.pwlist[1]) = 1
          BY <4>0
        <4>2. Members(t, 1) = {wpid}
          BY <1>1, <1>2, <1>3, <4>1, JobIs
        <4> QED
          BY <1>4, <4>2 DEF Unfinished
      <3> QED
        BY <1>7, <3>1
    <2>3. None \notin Members(t, 1)
      BY <1>1, <1>3, JobIs, TableAssumption
    <2>4. MayDrop(t, 1, TRUE)
      BY <2>1, <2>2, <2>3 DEF MayDrop
    <2> DEFINE L == Lone(amp)
    <2>5. 1 \in DOMAIN t.pwlist /\ \A k \in DOMAIN t.pwlist : k # 1 => t.pwlist[k] \in L
      BY <1>1
    <2> HIDE DEF L
    <2>6. u.curpgid = None /\ \A k \in DOMAIN u.pwlist : u.pwlist[k] \in L
      BY <2>4, <2>5, HeadGone
    <2>7. w.curpgid = None
      <3> DEFINE K == {1}
      <3>1. w = Drop(t, K)
        BY <2>4 DEF Unpost
      <3>2. K \subseteq DOMAIN t.pwlist /\ 1 \in K
        BY <2>5
      <3> HIDE DEF K, w
      <3> QED
        BY <3>1, <3>2, DropIs
    <2> HIDE DEF w, u
    <2>8. job'.curpgid = None
      BY <1>6, <2>7 DEF Pruned
    <2>9. pc' = "idle" /\ \A k \in DOMAIN job'.pwlist : job'.pwlist[k] \in Lone(amp')
      BY <1>6, <1>7, <2>6 DEF L
    <2> QED
      BY <1>6, <2>8, <2>9 DEF Shape, Running, Rest
  <1>8. CASE pc = "last"
    <2>1. job.curjob \in Members(job, 1)
      BY <1>8 DEF Shape, Running
    <2>2. t.curjob \in Members(t, 1) /\ 1 \in DOMAIN t.pwlist
      BY <1>1, <1>3, <2>1
    <2>3. w = t
      BY <2>2, HeadStays DEF Unpost
    <2>4. /\ 1 \in DOMAIN u.pwlist /\ u.pwlist[1] = job.pwlist[1]
          /\ \A i \in DOMAIN u.pwlist :
                i # 1 => \E l \in DOMAIN job.pwlist \ {1} : u.pwlist[i] = job.pwlist[l]
      <3> DEFINE v == UnpostAll(t)
      <3>1. /\ 1 \in DOMAIN v.pwlist /\ v.pwlist[1] = t.pwlist[1]
            /\ \A i \in DOMAIN v.pwlist :
                  i # 1 => \E l \in DOMAIN t.pwlist \ {1} : v.pwlist[i] = t.pwlist[l]
        BY <2>2, HeadStays
      <3>2. u = v
        BY <2>3
      <3> HIDE DEF u, v
      <3> QED
        BY <3>1, <3>2
    <2> HIDE DEF w, u
    <2>5. /\ 1 \in DOMAIN job'.pwlist /\ Members(job, 1)' = Members(job, 1)
          /\ job'.curjob = job.curjob
          /\ \A i \in DOMAIN job'.pwlist : i # 1 => job'.pwlist[i] \in Lone(amp)
      BY <1>1, <1>5, <1>6, <2>4 DEF Members
    <2>6. pc' = "end" /\ monitor' = monitor /\ amp' = amp
      BY <1>6, <1>8
    <2> QED
      BY <1>1, <1>6, <2>1, <2>5, <2>6 DEF Shape, Rest, Running
  <1> QED
    BY <1>7, <1>8

LEMMA WaitDoneUnstopped ==
    ASSUME Core, Shape, Books, WaitDone
    PROVE  Shape' /\ Books'
  <1> DEFINE k == JobOf(job, wpid)
             saves == IF pc = "waitb" /\ IsTop(job, wpid) THEN {"exitsave"} ELSE {}
             P == {wpid}
             F == {"notify"} \cup saves
             t == Off(job, P, F)
             w == Unpost(t, k, TRUE)
  <1>1. /\ Types /\ TableOK(job) /\ Posted(job, state, news)
        /\ wpid \in Procs /\ InTable(job, wpid)
        /\ ~ monitor => job.curpgid = None
    BY CoreTable DEF Core, WaitDone
  <1>2. /\ pc \in Waits /\ "done" \in job.flag[wpid]
        /\ IF pc \in {"wait0", "fg"} /\ Unfinished(t, k, TRUE) # {}
           THEN /\ wpid' = FirstUnfinished(t, k)
                /\ job' = t
                /\ UNCHANGED <<pc, savepgid>>
           ELSE Return(w)
        /\ asked' = IF IsTop(job, wpid) THEN asked \cup {wpid} ELSE asked
        /\ UNCHANGED <<monitor, chldtrap, kernel, amp, stopped, moved>>
    BY DEF WaitDone
  <1>3. k \in DOMAIN job.pwlist /\ wpid \in Members(job, k)
        /\ \A l \in DOMAIN job.pwlist : wpid \in Members(job, l) => l = k
    BY <1>1, Where
  <1>4. "bg" \notin F /\ "done" \notin F /\ "notify" \in F
    OBVIOUS
  <1> HIDE DEF P, F
  <1>5. TableOK(t) /\ t.pwlist = job.pwlist /\ t.curjob = job.curjob /\ t.curpgid = job.curpgid
    BY <1>1, OffIs DEF Alike
  <1>6. \A q \in Procs : t.flag[q] = IF q \in P THEN job.flag[q] \ F ELSE job.flag[q]
    BY <1>1, OffIs
  <1> HIDE DEF t, k
  <1>7. /\ \A q \in Procs : "bg" \in t.flag[q] => "bg" \in job.flag[q]
        /\ "done" \in t.flag[wpid] /\ "notify" \notin t.flag[wpid]
    BY <1>1, <1>2, <1>4, <1>6 DEF P
  <1>8. savepgid = None
    BY DEF Shape
  <1>9. TableOK(w) /\ Pruned(t, w)
    <2>1. Pruned(t, w)
      BY <1>3, <1>5, PrunedUnpost
    <2> DEFINE K == {k}
    <2>2. K \subseteq DOMAIN t.pwlist
      BY <1>3, <1>5
    <2>3. w = t \/ w = Drop(t, K)
      BY DEF Unpost
    <2> HIDE DEF K, w
    <2> QED
      BY <1>5, <2>1, <2>2, <2>3, DropIs
  <1> HIDE DEF w
  <1>10. Pruned(t, job')
    <2>1. CASE job' = t
      BY <2>1, PrunedSame
    <2>2. CASE Return(w)
      BY <1>8, <1>9, <2>2, ReturnIs, PrunedTwice
    <2> QED
      BY <1>2, <2>1, <2>2
  <1>11. Books'
    BY <1>2, <1>10, DoneBooks DEF t, P, F
  <1>12. CASE pc \in {"waitb", "fg"}
    <2>1. pc' \in {"idle", "fg"} /\ (pc' = "fg" => pc = "fg") /\ savepgid' = None
      BY <1>2, <1>8, <1>9, <1>12, ReturnIs
    <2>2. /\ job'.curpgid \in {job.curpgid, None}
          /\ \A i \in DOMAIN job'.pwlist : \E l \in DOMAIN job.pwlist : job'.pwlist[i] = job.pwlist[l]
      BY <1>5, <1>10 DEF Pruned
    <2>3. pc' = "fg" => monitor
      BY <2>1 DEF Shape
    <2>4. Shape'
      BY <1>2, <1>8, <1>12, <2>1, <2>2, <2>3, ShapeRest DEF Rest
    <2> QED
      BY <1>11, <2>4
  <1>13. CASE pc \in {"wait", "last", "wait0"} /\ ~ monitor
    <2>1. pc # "wait0" /\ pc' \in {"idle", "end"} /\ savepgid' = None
      BY <1>2, <1>8, <1>9, <1>13, ReturnIs DEF Shape
    <2>2. job'.curpgid = None
      BY <1>1, <1>5, <1>10, <1>13 DEF Pruned
    <2>3. Shape'
      BY <1>2, <1>13, <2>1, <2>2 DEF Shape
    <2> QED
      BY <1>11, <2>3
  <1>14. CASE pc \in {"wait", "last", "wait0"} /\ monitor
    <2>1. k = 1 /\ 1 \in DOMAIN job.pwlist
      <3>1. 1 \in DOMAIN job.pwlist /\ \A i \in DOMAIN job.pwlist : i # 1 => job.pwlist[i] \in Lone(amp)
        BY <1>14 DEF Shape, Rest
      <3>2. CASE pc = "wait"
        <4>1. job.pwlist[1] = <<wpid>>
          BY <1>14, <3>2 DEF Shape
        <4>2. wpid \in Members(job, 1)
          BY <1>1, <3>1, <4>1, JobIs
        <4> QED
          BY <1>3, <3>1, <4>2
      <3>3. CASE pc \in {"last", "wait0"}
        BY <1>3, <1>14, <3>1, <3>3 DEF Shape
      <3> QED
        BY <1>14, <3>2, <3>3
    <2>2. CASE ~ (pc = "wait0" /\ Unfinished(t, k, TRUE) # {})
      <3>1. Return(Unpost(t, 1, TRUE))
        BY <1>2, <1>14, <2>1, <2>2 DEF w
      <3> QED
        BY <1>2, <1>5, <1>7, <1>11, <1>14, <2>1, <2>2, <3>1, DoneShape
    <2>3. CASE pc = "wait0" /\ Unfinished(t, k, TRUE) # {}
      <3>1. /\ wpid' = FirstUnfinished(t, 1) /\ job' = t /\ pc' = pc /\ savepgid' = savepgid
            /\ UNCHANGED <<monitor, amp>>
        BY <1>2, <2>1, <2>3
      <3>2. wpid' \in Members(t, 1)
        BY <1>5, <2>1, <2>3, <3>1, FirstIs
      <3>3. Members(job, 1)' = Members(job, 1) /\ Members(t, 1) = Members(job, 1)
        BY <1>5, <3>1 DEF Members
      <3>4. Shape'
        BY <1>5, <1>14, <2>3, <3>1, <3>2, <3>3 DEF Shape, Rest, Running
      <3> QED
        BY <1>11, <3>4
    <2> QED
      BY <2>2, <2>3
  <1> QED
    BY <1>2, <1>12, <1>13, <1>14 DEF Waits

\* Without a process that has stopped, job_wait() is not left for that.
LEMMA WaitEndUnstopped ==
    ASSUME Core, Shape, Books, WaitInterrupted \/ WaitStopped
    PROVE  Shape' /\ Books'
  <1>1. Types /\ TableOK(job) /\ wpid \in Procs
    BY CoreTable DEF Core, WaitInterrupted, WaitStopped, Waits
  <1>2. ~ WaitStopped
    BY <1>1 DEF WaitStopped, Books, Quiet
  <1>3. /\ pc = "waitb" /\ Return(job)
        /\ UNCHANGED <<monitor, chldtrap, kernel, ghosts>>
    BY <1>2 DEF WaitInterrupted
  <1>4. savepgid = None
    BY DEF Shape
  <1>5. Pruned(job, job') /\ pc' = "idle" /\ savepgid' = None
    BY <1>1, <1>3, <1>4, ReturnIs
  <1> QED
    BY <1>3, <1>4, <1>5, RestTo DEF Rest, kernel, ghosts

----------------------------------------------------------------------------
(* The invariant.                                                          *)

LEMMA InitUnstopped == Init => Unstopped
  <1> SUFFICES ASSUME Init
               PROVE  Shape /\ Books
    BY DEF Unstopped
  <1>1. /\ job.pwlist = <<>> /\ job.flag = [p \in Procs |-> {}]
        /\ job.curpgid = None /\ job.curjob = None /\ job.numbjob = 0
        /\ state = [p \in Procs |-> "unborn"]
        /\ pc = "idle" /\ savepgid = None /\ amp = {}
    BY DEF Init
  <1>2. Shape
    BY <1>1 DEF Shape, Rest, Running
  <1>3. Quiet /\ BgAmp /\ BornAmp /\ Savable
    BY <1>1 DEF Quiet, BgAmp, BornAmp, Savable
  <1>4. Cardinality(amp \cap Live) = 0
    <2>1. amp \cap Live = {}
      BY <1>1
    <2> QED
      BY <2>1, FS_EmptySet
  <1>5. Counted
    BY <1>1, <1>4, TableAssumption DEF Counted
  <1> QED
    BY <1>2, <1>3, <1>5 DEF Books

LEMMA StepUnstopped ==
    ASSUME Core, Unstopped, [Next]_vars
    PROVE  Unstopped'
  <1> SUFFICES ASSUME stopped' = {}
               PROVE  Shape' /\ Books'
    BY DEF Unstopped
  <1>0. stopped = {}
    <2>1. CASE \E p \in Procs : Stop(p)
      BY <2>1 DEF Stop
    <2>2. CASE ~ \E p \in Procs : Stop(p)
      <3>1. CASE UNCHANGED vars
        BY <3>1 DEF vars, ghosts
      <3>2. CASE \E p \in Procs : Exit(p) \/ Cont(p)
        BY <3>2 DEF Exit, Cont, ghosts
      <3>3. CASE \E p \in Procs : HandlerReap(p) \/ WaitReap(p) \/ JobmaxReap(p)
        BY <3>3 DEF HandlerReap, WaitReap, JobmaxReap, Reap, ghosts
      <3>4. CASE \E p \in Procs : StartBg(p) \/ StartFg(p) \/ PipeElement(p) \/ PipeLast(p)
        BY <3>4 DEF StartBg, StartFg, PipeElement, PipeLast, ghosts
      <3>5. CASE \/ \E p \in Procs : WaitPid(p)
                 \/ \E k \in DOMAIN job.pwlist : Fg(k) \/ Bg(k) \/ KillCont(k)
        BY <3>5 DEF WaitPid, Fg, Bg, KillCont, ghosts
      <3>6. CASE \/ ChkTrap \/ BgBegin \/ WaitBegin \/ PipeBuiltin \/ PipeEnd
                 \/ WaitDone \/ WaitStopped \/ WaitInterrupted \/ WaitAnyEnd
                 \/ WaitAny \/ Jobs \/ Prompt
        BY <3>6 DEF ChkTrap, BgBegin, WaitBegin, PipeBuiltin, PipeEnd, WaitDone, WaitStopped,
                    WaitInterrupted, WaitAnyEnd, WaitAny, Jobs, Prompt, ghosts
      <3> QED
        BY <2>2, <3>1, <3>2, <3>3, <3>4, <3>5, <3>6 DEF Next, Shell
    <2> QED
      BY <2>1, <2>2
  <1>1. Shape /\ Books
    BY <1>0 DEF Unstopped
  <1>2. CASE UNCHANGED vars
    <2>1. /\ Live' = Live /\ amp' = amp /\ asked' = asked /\ state' = state /\ job' = job
          /\ pc' = pc /\ wpid' = wpid /\ moved' = moved /\ monitor' = monitor
          /\ savepgid' = savepgid
      BY <1>2 DEF vars, ghosts, kernel, Live
    <2> QED
      BY <1>1, <2>1, BooksTo, ShapeSame
  <1>3. CASE \E p \in Procs : Exit(p) \/ Stop(p) \/ Cont(p)
    <2>1. ~ \E p \in Procs : Stop(p)
      BY DEF Stop
    <2> QED
      BY <1>1, <1>3, <2>1, KernelUnstopped
  <1>4. CASE \E p \in Procs : HandlerReap(p) \/ WaitReap(p) \/ JobmaxReap(p)
    <2>1. PICK p \in Procs, sig \in BOOLEAN : Reap(p, sig)
      BY <1>4 DEF HandlerReap, WaitReap, JobmaxReap
    <2> QED
      BY <1>1, <2>1, ReapUnstopped
  <1>5. CASE \E p \in Procs : StartBg(p) \/ StartFg(p) \/ PipeElement(p) \/ PipeLast(p)
    BY <1>1, <1>5, StartBgUnstopped, StartUnstopped
  <1>6. CASE \E p \in Procs : WaitPid(p)
    BY <1>1, <1>6, WaitPidUnstopped
  <1>7. CASE \E k \in DOMAIN job.pwlist : Fg(k) \/ Bg(k) \/ KillCont(k)
    BY <1>1, <1>7, FgUnstopped, BgUnstopped, KillContUnstopped
  <1>8. CASE BgBegin \/ WaitAny \/ WaitAnyEnd
    BY <1>1, <1>8, QuietUnstopped
  <1>9. CASE \/ ChkTrap \/ WaitBegin \/ PipeBuiltin \/ PipeEnd
             \/ WaitDone \/ WaitStopped \/ WaitInterrupted \/ Jobs \/ Prompt
    BY <1>1, <1>9, ChkTrapUnstopped, WaitBeginUnstopped, PipeUnstopped, WaitDoneUnstopped,
       WaitEndUnstopped, ListingUnstopped
  <1> QED
    BY <1>2, <1>3, <1>4, <1>5, <1>6, <1>7, <1>8, <1>9 DEF Next, Shell

\* As long as no process has been stopped, the list has its shape and the
\* books are right.
THEOREM UnstoppedInvariant == Spec => [](Core /\ Unstopped)
  <1>1. Core /\ Unstopped /\ [Next]_vars => Core' /\ Unstopped'
    BY StepCore, StepUnstopped
  <1> QED
    BY InitCore, InitUnstopped, <1>1, PTL DEF Spec

\* The status of a background job can be asked for until it is delivered, as
\* long as no process is stopped: for any number of processes and any JOBMAX.
THEOREM StatusesKept == Spec => []StatusKeptUnlessStopped
  <1>1. Core /\ Unstopped => StatusKeptUnlessStopped
    <2> SUFFICES ASSUME Core, Shape, Books
                 PROVE  StatusKept
      BY DEF Unstopped, StatusKeptUnlessStopped
    <2>1. /\ amp \subseteq Procs
          /\ \A p \in Procs : job.flag[p] # {} => InTable(job, p)
          /\ pc = "fg" => InTable(job, wpid)
      BY CoreTable DEF Core, Types, Waits
    <2> QED
      BY <2>1 DEF StatusKept, Books, Savable
  <1> QED
    BY UnstoppedInvariant, <1>1, PTL

\* JOBMAX limits the number of background jobs, as long as no process is
\* stopped; without fg and bg, job.numbjob is their number.
THEOREM JobLimit == Spec => []JobmaxUnlessStopped
  <1>1. Core /\ Unstopped => JobmaxUnlessStopped
    <2> SUFFICES ASSUME Core, Shape, Books
                 PROVE  /\ JobmaxRespected
                        /\ ~ moved => job.numbjob = Cardinality(amp \cap Live)
      BY DEF Unstopped, JobmaxUnlessStopped
    <2>1. Types /\ IsFiniteSet(amp \cap Live) /\ Cardinality(amp \cap Live) \in Nat
      BY OpenIs DEF Core
    <2>2. Background \subseteq amp \cap Live
      BY <2>1 DEF Background, Live, Types
    <2>3. Cardinality(Background) <= Cardinality(amp \cap Live) /\ Cardinality(Background) \in Nat
      BY <2>1, <2>2, FS_Subset, FS_CardinalityType
    <2>4. Cardinality(amp \cap Live) <= JOBMAX /\ JOBMAX \in Nat
      BY TableAssumption DEF Books, Counted
    <2>5. JobmaxRespected
      BY <2>1, <2>3, <2>4 DEF JobmaxRespected
    <2> QED
      BY <2>5 DEF Books, Counted
  <1> QED
    BY UnstoppedInvariant, <1>1, PTL

\* No process joins a job that was started by "&", as long as no process is
\* stopped.
THEOREM AmpersandAlone == Spec => []AmpAloneUnlessStopped
  <1>1. Core /\ Unstopped => AmpAloneUnlessStopped
    <2> SUFFICES ASSUME Core, Shape, Books, NEW k \in DOMAIN job.pwlist,
                        Members(job, k) \cap amp # {}
                 PROVE  Len(job.pwlist[k]) = 1
      BY DEF Unstopped, AmpAloneUnlessStopped, AmpAlone
    <2>1. CASE monitor
      <3>1. job.pwlist[k] \in Lone(amp)
        BY <2>1 DEF Shape
      <3> QED
        BY <3>1 DEF Lone
    <2>2. CASE ~ monitor
      <3>1. Singles(job)
        BY <2>2 DEF Core, Good, InScript
      <3> QED
        BY <3>1 DEF Singles
    <2> QED
      BY <2>1, <2>2
  <1> QED
    BY UnstoppedInvariant, <1>1, PTL

=============================================================================
