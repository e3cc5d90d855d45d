----------------------------- MODULE JobNumbers -----------------------------
(***************************************************************************)
(* Job numbers (%1, %2, ...) of src/cmd/ksh93/sh/jobs.c, and the one that  *)
(* is kept: job.curjobid, the pipeline that the shell waits for.           *)
(*                                                                         *)
(* job.freejobs is a bit vector of BYTE(child_max) words, one bit for each *)
(* number in use, and one word more that stops the search; job_alloc() and *)
(* job_free() keep it.  It is modelled by the set of numbers whose bit is  *)
(* on: number n has its bit in word (n-1) / CHAR_BIT.                      *)
(*                                                                         *)
(* Pipelines run as in a shell with the monitor option and without         *)
(* pipefail: the outermost pipeline is waited for as a whole, and its last *)
(* element runs in the shell itself, nested pipelines included.            *)
(***************************************************************************)
EXTENDS Integers, Sequences

CONSTANTS Jobs,      \* jobs that may be started
          CHAR_BIT,  \* bits in a word
          ChildMax,  \* sh.lim.child_max
          MaxNest,   \* bound: pipelines inside pipelines
          NoJob

ASSUME NumbersAssumption == /\ CHAR_BIT \in Nat \ {0}
                            /\ ChildMax \in Nat \ {0}
                            /\ MaxNest \in Nat
                            /\ NoJob \notin Jobs

VARIABLES used,     \* numbers whose bit is set in job.freejobs
          jobid,    \* p_job of every job in the table, 0 if it is not there
          done,     \* jobs in the table that job_unpost() would remove
          curjobid, \* job.curjobid
          saved,    \* savejobid of every pipeline being run, innermost first
          waitall,  \* job.waitall: elements but the last are being started
          owner,    \* the job of the outermost pipeline (not in the code)
          full,     \* no free bit was found at least once (not in the code)
          nested    \* a pipeline inside the outermost one has ended since
                    \* that one began (not in the code)

pipe == <<saved, waitall, nested>>
vars == <<used, jobid, done, curjobid, saved, waitall, owner, full, nested>>

Words == (ChildMax + CHAR_BIT - 1) \div CHAR_BIT

Numbers == 1 .. Words * CHAR_BIT

Posted == {j \in Jobs : jobid[j] # 0}

\* The numbers of one word of the vector.
Word(w) == (w * CHAR_BIT + 1) .. (w * CHAR_BIT + CHAR_BIT)

Init ==
    /\ used = {}
    /\ jobid = [j \in Jobs |-> 0]
    /\ done = {}
    /\ curjobid = 0
    /\ saved = <<>>
    /\ waitall = FALSE
    /\ owner = NoJob
    /\ full = FALSE
    /\ nested = FALSE

-----------------------------------------------------------------------------
(* job_alloc() and job_post() *)

\* job_alloc(): the first word with a free slot, and in it the lowest bit.
LowestFree == {n \in Numbers \ used : \A k \in Numbers \ used : n <= k}

\* The first process of the outermost pipeline makes its job the current one;
\* the others join that job and need no number.
MayPost(j) == jobid[j] = 0 /\ (waitall => curjobid = 0)

Current(j, n) == /\ curjobid' = IF waitall THEN n ELSE curjobid
                 /\ owner' = IF waitall THEN j ELSE owner

\* Faulty variant: the bit of the number is not set.
PostUnmarked(j) ==
    /\ MayPost(j)
    /\ \E n \in LowestFree : /\ jobid' = [jobid EXCEPT ![j] = n]
                            /\ Current(j, n)
    /\ UNCHANGED <<used, done, pipe, full>>

\* A job is posted, and there is a free bit.
Post(j) ==
    /\ MayPost(j)
    /\ \E n \in LowestFree : /\ used' = used \cup {n}
                            /\ jobid' = [jobid EXCEPT ![j] = n]
                            /\ Current(j, n)
    /\ UNCHANGED <<done, pipe, full>>

\* job_unpost() returns NULL for a finished job.  The job stays in the table,
\* and its number stays in use, if it is the current pipeline.
Removed(j) == IF jobid[j] = curjobid THEN {} ELSE {j}

\* All bits are on: job_alloc() tries to unpost jobs by increasing number...
Candidates == {n \in 1 .. ChildMax - 1 : \E j \in done : jobid[j] = n}

StopAt == IF Candidates = {} THEN {ChildMax}
          ELSE {n \in Candidates : \A k \in Candidates : n <= k}

\* ...and takes the word that it computes from the number where it stopped.
\* The mask runs off a full word: the bit it then sets is lost.
Pick(w, u) ==
    IF Word(w) \subseteq u THEN {w * CHAR_BIT + CHAR_BIT + 1}
    ELSE {n \in Word(w) \ u : \A k \in Word(w) \ u : n <= k}

\* Faulty variant: the word after the last one is taken for one of them.
PostFullBeyond(j) ==
    /\ MayPost(j)
    /\ LowestFree = {}
    /\ \E stop \in StopAt :
          LET w == stop \div CHAR_BIT IN
          /\ w <= Words
          /\ \E out \in IF Candidates = {} THEN {{}}
                        ELSE {Removed(k) : k \in {i \in done : jobid[i] = stop}} :
                LET u == used \ {jobid[k] : k \in out} IN
                /\ done' = done \ out
                /\ \E n \in Pick(w, u) :
                      /\ used' = u \cup (Word(w) \cap {n})
                      /\ jobid' = [k \in Jobs |-> IF k = j THEN n
                                    ELSE IF k \in out THEN 0 ELSE jobid[k]]
                      /\ Current(j, n)
    /\ full' = TRUE
    /\ UNCHANGED pipe

PostFull(j) ==
    /\ MayPost(j)
    /\ LowestFree = {}
    /\ \E stop \in StopAt :
          LET w == stop \div CHAR_BIT IN
          /\ w < Words                  \* else job_wait(1), and try again
          /\ \E out \in IF Candidates = {} THEN {{}}
                        ELSE {Removed(k) : k \in {i \in done : jobid[i] = stop}} :
                LET u == used \ {jobid[k] : k \in out} IN
                /\ done' = done \ out
                /\ \E n \in Pick(w, u) :
                      /\ used' = u \cup (Word(w) \cap {n})
                      /\ jobid' = [k \in Jobs |-> IF k = j THEN n
                                    ELSE IF k \in out THEN 0 ELSE jobid[k]]
                      /\ Current(j, n)
    /\ full' = TRUE
    /\ UNCHANGED pipe

-----------------------------------------------------------------------------
(* Jobs end, and leave the table *)

\* All processes of a job have ended and been reported.
Finish(j) ==
    /\ j \in Posted \ done
    /\ done' = done \cup {j}
    /\ UNCHANGED <<used, jobid, curjobid, pipe, owner, full>>

Leave(j) ==
    /\ used' = used \ {jobid[j]}
    /\ jobid' = [jobid EXCEPT ![j] = 0]
    /\ done' = done \ {j}

\* Faulty variant: the current pipeline is removed like any other job.
UnpostCurrent(j) ==
    /\ j \in done
    /\ Leave(j)
    /\ UNCHANGED <<curjobid, pipe, owner, full>>

\* job_unpost() removes a finished job, and job_free() clears its bit.
Unpost(j) ==
    /\ j \in done
    /\ jobid[j] # curjobid
    /\ Leave(j)
    /\ UNCHANGED <<curjobid, pipe, owner, full>>

-----------------------------------------------------------------------------
(* Pipelines: sh_exec(), case TFIL *)

PipeBegin ==
    /\ ~waitall
    /\ Len(saved) < MaxNest
    /\ saved' = <<curjobid>> \o saved
    /\ curjobid' = 0
    /\ waitall' = (saved = <<>>)
    /\ UNCHANGED <<used, jobid, done, owner, full, nested>>

\* All elements but the last are started; the last runs in the shell.
PipeLast ==
    /\ waitall
    /\ curjobid # 0
    /\ waitall' = FALSE
    /\ UNCHANGED <<used, jobid, done, curjobid, saved, owner, full, nested>>

\* A nested pipeline ends: job.curjobid is what it was before.
PipeEndNested ==
    /\ Len(saved) > 1
    /\ curjobid' = Head(saved)
    /\ saved' = Tail(saved)
    /\ nested' = TRUE
    /\ UNCHANGED <<used, jobid, done, waitall, owner, full>>

\* The outermost pipeline ends with job_wait(0): if the current job is in the
\* table it is waited for and removed.
PipeEnd ==
    /\ Len(saved) = 1
    /\ ~waitall
    /\ IF \E j \in Posted : jobid[j] = curjobid
       THEN \E j \in done : jobid[j] = curjobid /\ Leave(j)
       ELSE UNCHANGED <<used, jobid, done>>
    /\ curjobid' = Head(saved)
    /\ saved' = <<>>
    /\ owner' = NoJob
    /\ nested' = FALSE
    /\ UNCHANGED <<waitall, full>>

Next ==
    \/ \E j \in Jobs : Post(j) \/ PostFull(j) \/ Finish(j) \/ Unpost(j)
    \/ PipeBegin \/ PipeLast \/ PipeEndNested \/ PipeEnd

Spec == Init /\ [][Next]_vars

-----------------------------------------------------------------------------
\* Types: job.freejobs has no bit outside its words, and only jobs in the
\* table are finished.
TypeOK ==
    /\ used \subseteq Numbers
    /\ jobid \in [Jobs -> Nat]
    /\ done \subseteq Posted
    /\ curjobid \in Nat
    /\ saved \in Seq(Nat)
    /\ waitall \in BOOLEAN
    /\ owner \in Jobs \cup {NoJob}
    /\ full \in BOOLEAN
    /\ nested \in BOOLEAN

\* No two jobs in the table have the same number: job_alloc() returns unused
\* numbers, and %n names one job.
UniqueNumbers == \A i, j \in Posted : jobid[i] = jobid[j] => i = j

\* As long as every search has found a free bit, numbers are unique and the
\* bit vector says exactly which numbers the jobs in the table have.
UniqueUntilFull == ~full => UniqueNumbers /\ used = {jobid[j] : j \in Posted}

\* The job that the end of a pipeline waits for is the one of that pipeline,
\* not another that has got its number since.
WaitsForOwnJob == \A j \in Posted : jobid[j] = curjobid => full \/ j = owner

\* A pipeline that no other pipeline ran inside of waits for its own job: its
\* number in job.curjobid keeps job_unpost() from giving it back.
OwnJobUnlessNested == nested \/ WaitsForOwnJob
=============================================================================
