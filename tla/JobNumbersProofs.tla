-------------------------- MODULE JobNumbersProofs --------------------------
(***************************************************************************)
(* Job numbers are unique until the bit vector is full, for any number of  *)
(* jobs, any width of its words and any limit on children.                 *)
(***************************************************************************)
EXTENDS JobNumbers, SequenceTheorems, TLAPS

----------------------------------------------------------------------------
(* The arithmetic of words and numbers.                                    *)

\* A sequence that has elements is not the empty one.
LEMMA NonEmpty ==
    ASSUME NEW s, Len(s) \in Nat, Len(s) # 0
    PROVE  s # <<>>
  <1>1. Len(<<>>) = 0
    OBVIOUS
  <1> QED
    BY <1>1

\* There is at least one word.
LEMMA WordsNat == Words \in Nat
  BY NumbersAssumption DEF Words

\* The word computed from a job number.
LEMMA DivNat ==
    ASSUME NEW n \in Nat
    PROVE  n \div CHAR_BIT \in Nat
  BY NumbersAssumption

\* The numbers of a word of the vector are numbers.
LEMMA WordNumbers ==
    ASSUME NEW w \in Nat, w < Words
    PROVE  Word(w) \subseteq Numbers
  <1>1. Words \in Nat /\ CHAR_BIT \in Nat /\ CHAR_BIT # 0
    BY WordsNat, NumbersAssumption
  <1>2. w * CHAR_BIT \in Nat /\ Words * CHAR_BIT \in Nat
    BY <1>1
  <1>3. (w + 1) * CHAR_BIT = w * CHAR_BIT + CHAR_BIT
    BY <1>1
  <1>4. (w + 1) * CHAR_BIT <= Words * CHAR_BIT
    BY <1>1
  <1> QED
    BY <1>1, <1>2, <1>3, <1>4 DEF Word, Numbers

\* What job_alloc() picks from a word.
LEMMA PickNat ==
    ASSUME NEW w \in Nat, NEW u, NEW n \in Pick(w, u)
    PROVE  n \in Nat /\ n # 0
  <1>1. CHAR_BIT \in Nat /\ w * CHAR_BIT \in Nat
    BY NumbersAssumption
  <1> QED
    BY <1>1 DEF Pick, Word

\* A new number is a number, and no job has it.
LEMMA FreeNumber ==
    ASSUME NEW n \in LowestFree
    PROVE  n \in Numbers /\ n \notin used /\ n \in Nat /\ n # 0
  BY WordsNat, NumbersAssumption DEF LowestFree, Numbers

----------------------------------------------------------------------------
(* The inductive invariant: the types and the bit vector together.         *)

IInv == TypeOK /\ UniqueUntilFull

\* The table is empty at the start.
LEMMA InitOK ==
    ASSUME Init
    PROVE  IInv
  <1>1. Posted = {} /\ jobid \in [Jobs -> Nat]
    BY DEF Init, Posted
  <1>2. <<>> \in Seq(Nat)
    OBVIOUS
  <1>3. TypeOK
    BY <1>1, <1>2 DEF Init, TypeOK
  <1>4. UniqueUntilFull
    BY <1>1 DEF Init, UniqueUntilFull, UniqueNumbers
  <1> QED
    BY <1>3, <1>4 DEF IInv

\* A job with a new number joins the table.
LEMMA PostOK ==
    ASSUME IInv, NEW j \in Jobs, Post(j)
    PROVE  IInv'
  <1>1. PICK n \in LowestFree : /\ used' = used \cup {n}
                               /\ jobid' = [jobid EXCEPT ![j] = n]
                               /\ Current(j, n)
    BY DEF Post
  <1>2. n \in Numbers /\ n \notin used /\ n \in Nat /\ n # 0
    BY FreeNumber
  <1>3. jobid[j] = 0 /\ jobid \in [Jobs -> Nat]
    BY DEF Post, MayPost, IInv, TypeOK
  <1>4. Posted' = Posted \cup {j} /\ j \notin Posted
    BY <1>1, <1>2, <1>3 DEF Posted
  <1>5. jobid'[j] = n /\ \A i \in Posted : jobid'[i] = jobid[i]
    BY <1>1, <1>3, <1>4 DEF Posted
  <1>6. TypeOK'
    <2>1. jobid' \in [Jobs -> Nat]
      BY <1>1, <1>2, <1>3
    <2>2. curjobid' \in Nat /\ owner' \in Jobs \cup {NoJob}
      BY <1>1, <1>2 DEF Current, IInv, TypeOK
    <2>3. used' \subseteq Numbers /\ done' \subseteq Posted'
      BY <1>1, <1>2, <1>4 DEF Post, IInv, TypeOK, Numbers, Words
    <2> QED
      BY <2>1, <2>2, <2>3 DEF Post, pipe, IInv, TypeOK, Numbers, Words
  <1>7. UniqueUntilFull'
    <2> SUFFICES ASSUME ~full
                 PROVE  UniqueNumbers' /\ used' = {jobid'[i] : i \in Posted'}
      BY DEF UniqueUntilFull, Post
    <2>1. used = {jobid[i] : i \in Posted} /\ UniqueNumbers
      BY DEF IInv, UniqueUntilFull
    <2>2. used' = {jobid'[i] : i \in Posted'}
      BY <1>1, <1>4, <1>5, <2>1
    <2>3. UniqueNumbers'
      BY <1>2, <1>4, <1>5, <2>1 DEF UniqueNumbers
    <2> QED
      BY <2>2, <2>3
  <1> QED
    BY <1>6, <1>7 DEF IInv

\* The vector is full: only the types are kept.
LEMMA PostFullOK ==
    ASSUME IInv, NEW j \in Jobs, PostFull(j)
    PROVE  IInv'
  <1>1. PICK stop \in StopAt :
          LET w == stop \div CHAR_BIT IN
          /\ w < Words
          /\ \E out \in IF Candidates = {} THEN {{}}
                        ELSE {Removed(k) : k \in {i \in done : jobid[i] = stop}} :
                LET u == used \ {jobid[k] : k \in out} IN
                /\ done' = done \ out
                /\ \E n \in Pick(w, u) :
                      /\ used' = u \cup (Word(w) \cap {n})
                      /\ jobid' = [k \in Jobs |-> IF k = j THEN n
                                    ELSE IF k \in out THEN 0 ELSE jobid[k]]
                      /\ Current(j, n)
    BY DEF PostFull
  <1> DEFINE w == stop \div CHAR_BIT
  <1>2. stop \in Nat
    BY NumbersAssumption DEF StopAt, Candidates
  <1>3. w \in Nat /\ w < Words
    BY <1>1, <1>2, DivNat
  <1> HIDE DEF w
  <1>4. \E out \in IF Candidates = {} THEN {{}}
                   ELSE {Removed(k) : k \in {i \in done : jobid[i] = stop}} :
                LET u == used \ {jobid[k] : k \in out} IN
                /\ done' = done \ out
                /\ \E n \in Pick(w, u) :
                      /\ used' = u \cup (Word(w) \cap {n})
                      /\ jobid' = [k \in Jobs |-> IF k = j THEN n
                                    ELSE IF k \in out THEN 0 ELSE jobid[k]]
                      /\ Current(j, n)
    BY <1>1 DEF w
  <1>5. PICK out : /\ done' = done \ out
                   /\ \E n \in Pick(w, used \ {jobid[k] : k \in out}) :
                      /\ used' = (used \ {jobid[k] : k \in out}) \cup (Word(w) \cap {n})
                      /\ jobid' = [k \in Jobs |-> IF k = j THEN n
                                    ELSE IF k \in out THEN 0 ELSE jobid[k]]
                      /\ Current(j, n)
    BY <1>4
  <1> DEFINE u == used \ {jobid[k] : k \in out}
  <1>6. PICK n \in Pick(w, u) :
                      /\ used' = u \cup (Word(w) \cap {n})
                      /\ jobid' = [k \in Jobs |-> IF k = j THEN n
                                    ELSE IF k \in out THEN 0 ELSE jobid[k]]
                      /\ Current(j, n)
    BY <1>5
  <1>7. n \in Nat /\ n # 0
    BY <1>3, PickNat
  <1>8. jobid' \in [Jobs -> Nat]
    BY <1>6, <1>7 DEF IInv, TypeOK
  <1>9. used' \subseteq Numbers
    <2>1. u \subseteq Numbers
      BY DEF IInv, TypeOK
    <2>2. Word(w) \subseteq Numbers
      BY <1>3, WordNumbers
    <2> QED
      BY <1>6, <2>1, <2>2
  <1>10. done' \subseteq Posted'
    BY <1>5, <1>6, <1>7 DEF IInv, TypeOK, Posted
  <1>11. curjobid' \in Nat /\ owner' \in Jobs \cup {NoJob}
    BY <1>6, <1>7 DEF Current, IInv, TypeOK
  <1>12. TypeOK'
    BY <1>8, <1>9, <1>10, <1>11 DEF PostFull, pipe, IInv, TypeOK, Numbers, Words
  <1>13. UniqueUntilFull'
    BY DEF UniqueUntilFull, PostFull
  <1> QED
    BY <1>12, <1>13 DEF IInv

\* A job leaves the table and gives its number back.
LEMMA LeaveOK ==
    ASSUME IInv, NEW j \in done, Leave(j), full' = full
    PROVE  /\ used' \subseteq Numbers /\ jobid' \in [Jobs -> Nat]
           /\ done' \subseteq Posted' /\ UniqueUntilFull'
  <1>1. j \in Posted /\ j \in Jobs /\ jobid \in [Jobs -> Nat] /\ used \subseteq Numbers
    BY DEF IInv, TypeOK, Posted
  <1>2. used' = used \ {jobid[j]} /\ jobid' = [jobid EXCEPT ![j] = 0]
    BY DEF Leave
  <1>3. jobid' \in [Jobs -> Nat] /\ used' \subseteq Numbers
    BY <1>1, <1>2
  <1>4. Posted' = Posted \ {j} /\ \A i \in Posted' : jobid'[i] = jobid[i]
    BY <1>1, <1>2 DEF Posted
  <1>5. done' \subseteq Posted'
    BY <1>4 DEF Leave, IInv, TypeOK
  <1>6. UniqueUntilFull'
    <2> SUFFICES ASSUME ~full
                 PROVE  UniqueNumbers' /\ used' = {jobid'[i] : i \in Posted'}
      BY DEF UniqueUntilFull
    <2>1. used = {jobid[i] : i \in Posted} /\ UniqueNumbers
      BY DEF IInv, UniqueUntilFull
    <2>2. \A i \in Posted' : jobid[i] # jobid[j]
      BY <1>1, <1>4, <2>1 DEF UniqueNumbers
    <2>3. used' = {jobid'[i] : i \in Posted'}
      BY <1>1, <1>2, <1>4, <2>1, <2>2
    <2>4. UniqueNumbers'
      BY <1>4, <2>1 DEF UniqueNumbers
    <2> QED
      BY <2>3, <2>4
  <1> QED
    BY <1>3, <1>5, <1>6

\* Steps that leave the table and the vector alone.
LEMMA TableSame ==
    ASSUME IInv, UNCHANGED <<used, jobid, full>>, done' \subseteq Posted
    PROVE  /\ used' \subseteq Numbers /\ jobid' \in [Jobs -> Nat]
           /\ done' \subseteq Posted' /\ UniqueUntilFull'
  BY DEF IInv, TypeOK, Posted, UniqueUntilFull, UniqueNumbers

\* Every step keeps the types and the bit vector.
LEMMA StepOK ==
    ASSUME IInv, [Next]_vars
    PROVE  IInv'
  <1>0. /\ TypeOK /\ done \subseteq Posted /\ saved \in Seq(Nat)
    BY DEF IInv, TypeOK
  <1> DEFINE T == /\ used' \subseteq Numbers /\ jobid' \in [Jobs -> Nat]
                  /\ done' \subseteq Posted' /\ UniqueUntilFull'
             R == /\ curjobid' \in Nat /\ saved' \in Seq(Nat) /\ waitall' \in BOOLEAN
                  /\ owner' \in Jobs \cup {NoJob} /\ full' \in BOOLEAN
                  /\ nested' \in BOOLEAN
  <1>1. T /\ R => IInv'
    BY DEF IInv, TypeOK, Numbers, Words
  <1>2. ASSUME NEW j \in Jobs, Finish(j)
        PROVE  T /\ R
    BY <1>0, <1>2, TableSame DEF Finish, pipe, TypeOK
  <1>3. ASSUME NEW j \in Jobs, Unpost(j)
        PROVE  T /\ R
    <2>1. T
      BY <1>3, LeaveOK DEF Unpost
    <2> QED
      BY <1>0, <1>3, <2>1 DEF Unpost, pipe, TypeOK
  <1>4. ASSUME PipeBegin
        PROVE  T /\ R
    <2>1. T
      BY <1>0, <1>4, TableSame DEF PipeBegin
    <2>2. saved' \in Seq(Nat)
      <3>1. <<curjobid>> \in Seq(Nat)
        BY <1>0 DEF TypeOK
      <3>2. <<curjobid>> \o saved \in Seq(Nat)
        BY <1>0, <3>1, ConcatProperties
      <3> QED
        BY <1>4, <3>2 DEF PipeBegin
    <2>3. curjobid' \in Nat /\ waitall' \in BOOLEAN
      BY <1>4 DEF PipeBegin
    <2> QED
      BY <1>0, <1>4, <2>1, <2>2, <2>3 DEF PipeBegin, TypeOK
  <1>5. ASSUME PipeLast
        PROVE  T /\ R
    BY <1>0, <1>5, TableSame DEF PipeLast, TypeOK
  <1>6. ASSUME PipeEndNested
        PROVE  T /\ R
    <2>1. T
      BY <1>0, <1>6, TableSame DEF PipeEndNested
    <2>2. saved # <<>> /\ Head(saved) \in Nat /\ Tail(saved) \in Seq(Nat)
      <3>0. Len(saved) > 1 /\ Len(saved) \in Nat
        BY <1>0, <1>6, LenProperties DEF PipeEndNested
      <3>1. saved # <<>>
        BY <3>0, NonEmpty
      <3> QED
        BY <1>0, <3>1, HeadTailProperties
    <2> QED
      BY <1>0, <1>6, <2>1, <2>2 DEF PipeEndNested, TypeOK
  <1>7. ASSUME PipeEnd
        PROVE  T /\ R
    <2>1. T
      <3>1. CASE \E j \in Posted : jobid[j] = curjobid
        BY <1>7, <3>1, LeaveOK DEF PipeEnd
      <3>2. CASE ~ \E j \in Posted : jobid[j] = curjobid
        BY <1>0, <1>7, <3>2, TableSame DEF PipeEnd
      <3> QED
        BY <3>1, <3>2
    <2>2. Head(saved) \in Nat
      <3>0. Len(saved) = 1
        BY <1>7 DEF PipeEnd
      <3>1. saved # <<>>
        BY <3>0, NonEmpty
      <3> QED
        BY <1>0, <3>1, HeadTailProperties
    <2>3. saved' \in Seq(Nat)
      BY <1>7 DEF PipeEnd
    <2> QED
      BY <1>0, <1>7, <2>1, <2>2, <2>3 DEF PipeEnd, TypeOK
  <1>8. ASSUME UNCHANGED vars
        PROVE  T /\ R
    <2>1. T
      BY <1>0, <1>8, TableSame DEF vars
    <2> QED
      BY <1>0, <1>8, <2>1 DEF vars, TypeOK
  <1> HIDE DEF T, R
  <1> QED
    BY <1>1, <1>2, <1>3, <1>4, <1>5, <1>6, <1>7, <1>8, PostOK, PostFullOK DEF Next

\* Types and the bit vector are kept by every behaviour.
THEOREM Invariance == Spec => []IInv
  BY InitOK, StepOK, PTL DEF Spec

\* job.freejobs never gets a bit outside its words, even when job_alloc() has
\* computed a wrong word, and job numbers are positive.
THEOREM NumberTypes == Spec => []TypeOK
  <1>1. IInv => TypeOK
    BY DEF IInv
  <1> QED
    BY <1>1, Invariance, PTL

\* Until the vector is full for the first time, job numbers are unique and
\* the vector is exactly the set of numbers in use.
THEOREM NumbersUnique == Spec => []UniqueUntilFull
  <1>1. IInv => UniqueUntilFull
    BY DEF IInv
  <1> QED
    BY <1>1, Invariance, PTL
----------------------------------------------------------------------------
(* The pipeline that is waited for.  Outside pipelines job.curjobid is 0,  *)
(* so the last value to be restored is 0; and while no nested pipeline has *)
(* ended, job.curjobid is the number of the pipeline's own job.            *)

Track ==
    /\ saved = <<>> => curjobid = 0 /\ ~waitall
    /\ saved # <<>> => saved[Len(saved)] = 0
    /\ ~full /\ ~nested /\ curjobid # 0 => owner \in Jobs /\ jobid[owner] = curjobid

\* A new job is the current one, or is not the one that is.
LEMMA PostTrack ==
    ASSUME IInv, Track, NEW j \in Jobs, Post(j)
    PROVE  Track'
  <1>1. PICK n \in LowestFree : /\ used' = used \cup {n}
                               /\ jobid' = [jobid EXCEPT ![j] = n]
                               /\ Current(j, n)
    BY DEF Post
  <1>2. jobid[j] = 0 /\ jobid \in [Jobs -> Nat]
    BY DEF Post, MayPost, IInv, TypeOK
  <1>3. UNCHANGED <<saved, waitall, nested, full>>
    BY DEF Post, pipe
  <1>4. CASE waitall
    BY <1>1, <1>2, <1>3, <1>4 DEF Track, Current
  <1>5. CASE ~waitall
    BY <1>1, <1>2, <1>3, <1>5 DEF Track, Current
  <1> QED
    BY <1>4, <1>5

\* The job that leaves is not the current one, unless it is waited for.
LEMMA UnpostTrack ==
    ASSUME IInv, Track, NEW j \in Jobs, Unpost(j)
    PROVE  Track'
  <1>1. jobid' = [jobid EXCEPT ![j] = 0] /\ jobid[j] # curjobid
    BY DEF Unpost, Leave
  <1>2. UNCHANGED <<curjobid, saved, waitall, nested, owner, full>>
    BY DEF Unpost, pipe
  <1>3. jobid \in [Jobs -> Nat]
    BY DEF IInv, TypeOK
  <1> QED
    BY <1>1, <1>2, <1>3 DEF Track

\* All numbers are in use: nothing is claimed of the current one.
LEMMA PostFullTrack ==
    ASSUME IInv, Track, NEW j \in Jobs, PostFull(j)
    PROVE  Track'
  <1>1. UNCHANGED <<saved, waitall, nested>> /\ full' = TRUE
    BY DEF PostFull, pipe
  <1>2. \E n : Current(j, n)
    BY DEF PostFull
  <1>3. ~waitall => curjobid' = curjobid
    BY <1>2 DEF Current
  <1> QED
    BY <1>1, <1>3 DEF Track

\* Pipelines begin with the number 0 and give back what they have saved.
LEMMA PipeTrack ==
    ASSUME IInv, Track, PipeBegin \/ PipeLast \/ PipeEndNested \/ PipeEnd
    PROVE  Track'
  <1>0. saved \in Seq(Nat) /\ curjobid \in Nat
    BY DEF IInv, TypeOK
  <1>1. CASE PipeBegin
    <2>1. <<curjobid>> \in Seq(Nat) /\ Len(<<curjobid>>) = 1
      BY <1>0
    <2>2. saved' \in Seq(Nat) /\ Len(saved') = 1 + Len(saved)
      BY <1>0, <1>1, <2>1, ConcatProperties DEF PipeBegin
    <2>3. saved'[Len(saved')] = 0
      <3>1. CASE saved = <<>>
        <4>1. curjobid = 0 /\ Len(saved) = 0
          BY <3>1 DEF Track
        <4> QED
          BY <1>0, <1>1, <2>1, <2>2, <4>1, ConcatProperties DEF PipeBegin
      <3>2. CASE saved # <<>>
        <4>1. saved[Len(saved)] = 0 /\ Len(saved) \in Nat /\ Len(saved) # 0
          BY <1>0, <3>2, EmptySeq, LenProperties DEF Track
        <4> QED
          BY <1>0, <1>1, <2>1, <2>2, <4>1, ConcatProperties DEF PipeBegin
      <3> QED
        BY <3>1, <3>2
    <2>4. saved' # <<>>
      BY <1>0, <2>2, LenProperties, NonEmpty
    <2> QED
      BY <1>1, <2>3, <2>4 DEF Track, PipeBegin
  <1>2. CASE PipeLast
    BY <1>2 DEF Track, PipeLast
  <1>3. CASE PipeEndNested
    <2>1. Len(saved) > 1 /\ saved' = Tail(saved) /\ nested' = TRUE
      BY <1>3 DEF PipeEndNested
    <2>2. saved # <<>> /\ Len(saved) \in Nat
      BY <1>0, <2>1, LenProperties, NonEmpty
    <2>3. saved[Len(saved)] = 0
      BY <2>2 DEF Track
    <2>4. Len(Tail(saved)) = Len(saved) - 1
          /\ \A i \in 1 .. Len(saved) - 1 : Tail(saved)[i] = saved[i + 1]
      BY <1>0, <2>2, HeadTailProperties
    <2>5. Len(saved') = Len(saved) - 1 /\ saved'[Len(saved')] = 0
      <3>1. Len(saved) - 1 \in 1 .. Len(saved) - 1 /\ (Len(saved) - 1) + 1 = Len(saved)
        BY <2>1, <2>2
      <3>2. Tail(saved)[Len(saved) - 1] = saved[(Len(saved) - 1) + 1]
        BY <2>4, <3>1
      <3> QED
        BY <2>1, <2>3, <2>4, <3>1, <3>2
    <2>6. saved' # <<>>
      BY <2>1, <2>2, <2>5, NonEmpty
    <2> QED
      BY <2>1, <2>5, <2>6 DEF Track
  <1>4. CASE PipeEnd
    <2>1. Len(saved) = 1 /\ saved' = <<>> /\ curjobid' = Head(saved) /\ ~waitall'
      BY <1>4 DEF PipeEnd
    <2>2. saved # <<>>
      BY <2>1, NonEmpty
    <2>3. Head(saved) = 0
      BY <1>0, <2>1, <2>2 DEF Track
    <2> QED
      BY <2>1, <2>3 DEF Track
  <1> QED
    BY <1>1, <1>2, <1>3, <1>4

\* Every step keeps track.
LEMMA StepTrack ==
    ASSUME IInv, Track, [Next]_vars
    PROVE  Track'
  <1>1. ASSUME NEW j \in Jobs, Finish(j)
        PROVE  Track'
    BY <1>1 DEF Finish, pipe, Track
  <1>2. ASSUME UNCHANGED vars
        PROVE  Track'
    BY <1>2 DEF vars, Track
  <1> QED
    BY <1>1, <1>2, PostTrack, PostFullTrack, UnpostTrack, PipeTrack DEF Next

\* A pipeline that no other pipeline ran inside of waits for its own job, not
\* for one that has got its number: unique numbers and Track together.
THEOREM OwnJob == Spec => []OwnJobUnlessNested
  <1>1. Init => Track
    BY DEF Init, Track
  <1>2. IInv /\ Track => OwnJobUnlessNested
    <2> SUFFICES ASSUME IInv, Track, ~nested, ~full,
                        NEW j \in Posted, jobid[j] = curjobid
                 PROVE  j = owner
      BY DEF OwnJobUnlessNested, WaitsForOwnJob
    <2>1. curjobid # 0
      BY DEF Posted
    <2>2. owner \in Posted /\ jobid[owner] = curjobid
      BY <2>1 DEF Track, Posted
    <2> QED
      BY <2>2 DEF IInv, UniqueUntilFull, UniqueNumbers
  <1>3. IInv /\ Track /\ [Next]_vars => Track'
    BY StepTrack
  <1> QED
    BY <1>1, <1>2, <1>3, Invariance, PTL DEF Spec
=============================================================================
