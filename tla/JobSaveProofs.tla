--------------------------- MODULE JobSaveProofs ---------------------------
(***************************************************************************)
(* Theorems about the saved statuses of JobSave, for every limit on the    *)
(* number of children, any depth of subshells and any number of forks.     *)
(***************************************************************************)
EXTENDS JobSave, SequenceTheorems, FiniteSetTheorems,
        WellFoundedInduction, TLAPS

----------------------------------------------------------------------------
(* The helpers of job_chksave().                                           *)

\* A non-empty set of naturals has the least element job_chksave() stops at.
LEMMA LeastIn ==
    ASSUME NEW n \in Nat, NEW S, S \subseteq 1 .. n, S # {}
    PROVE  Least(S) \in S
  <1> DEFINE Below == {1 .. i : i \in S}
             R == StrictSubsetOrdering(1 .. n)
             F == FiniteSubsetsOf(1 .. n)
  <1>1. IsWellFoundedOn(R, F)
    BY FS_StrictSubsetOrderingWellFounded
  <1>2. Below \subseteq F
    <2>1. \A i \in S : 1 .. i \subseteq 1 .. n
      OBVIOUS
    <2>2. \A i \in S : IsFiniteSet(1 .. i)
      BY FS_Interval
    <2> QED
      BY <2>1, <2>2 DEF FiniteSubsetsOf
  <1>3. Below # {}
    OBVIOUS
  <1>4. \E X \in Below : \A Y \in Below : ~ (<<Y, X>> \in R)
    <2> HIDE DEF Below, R, F
    <2> QED
      BY <1>1, <1>2, <1>3, WFMin
  <1>5. PICK x \in S : \A y \in S : ~ (<<1 .. y, 1 .. x>> \in R)
    BY <1>4
  <1>6. ASSUME NEW y \in S
        PROVE  x <= y
    <2>1. SUFFICES ASSUME y < x
                   PROVE  FALSE
      OBVIOUS
    <2>2. 1 .. y \subseteq 1 .. x /\ 1 .. y # 1 .. x
      BY <2>1
    <2>3. 1 .. y \in SUBSET (1 .. n) /\ 1 .. x \in SUBSET (1 .. n)
      OBVIOUS
    <2>4. <<1 .. y, 1 .. x>> \in R
      BY <2>2, <2>3 DEF StrictSubsetOrdering
    <2> QED
      BY <2>4, <1>5
  <1> QED
    BY <1>5, <1>6 DEF Least

\* Taking one node off a list shortens it by one.
LEMMA RemoveOne ==
    ASSUME NEW s \in Seq(Node), NEW i \in 1 .. Len(s)
    PROVE  /\ RemoveAt(s, i) \in Seq(Node)
           /\ Len(RemoveAt(s, i)) = Len(s) - 1
  <1> DEFINE a == SubSeq(s, 1, i - 1)
             b == SubSeq(s, i + 1, Len(s))
  <1>1. a \in Seq(Node) /\ Len(a) = i - 1
    BY SubSeqProperties
  <1>2. b \in Seq(Node) /\ Len(b) = Len(s) - i
    BY SubSeqProperties
  <1> HIDE DEF a, b
  <1>3. a \o b \in Seq(Node) /\ Len(a \o b) = Len(a) + Len(b)
    BY <1>1, <1>2, ConcatProperties
  <1>4. Len(a \o b) = Len(s) - 1
    BY <1>1, <1>2, <1>3
  <1> QED
    BY <1>3, <1>4 DEF RemoveAt, a, b
----------------------------------------------------------------------------
(* Stores: the lists with their counters, and the pool.                    *)

Covered(s) == \A k \in 1 .. Len(s.levels) : Len(s.levels[k].list) <= s.levels[k].count

Pooled(s) == 0 <= s.free /\ s.free <= s.nfree /\ s.nfree <= NJOB_SAVELIST

Good(s) == s \in Store /\ s.levels # <<>> /\ Covered(s) /\ Pooled(s)

\* The current list has room for one more node under its counter.
Slack(s) == Len(s.levels[1].list) < s.levels[1].count

\* Replacing one level of a chain.
LEMMA LevelSet ==
    ASSUME NEW ls \in Seq(Level), NEW k \in 1 .. Len(ls), NEW lv \in Level
    PROVE  /\ [ls EXCEPT ![k] = lv] \in Seq(Level)
           /\ Len([ls EXCEPT ![k] = lv]) = Len(ls)
           /\ [ls EXCEPT ![k] = lv][k] = lv
           /\ \A j \in 1 .. Len(ls) : j # k => [ls EXCEPT ![k] = lv][j] = ls[j]
  <1>1. ls \in [1 .. Len(ls) -> Level] /\ Len(ls) \in Nat
    OBVIOUS
  <1> QED
    BY <1>1

\* A level is a record of a counter and a list.
LEMMA LevelType ==
    ASSUME NEW ls \in Seq(Level), NEW k \in 1 .. Len(ls)
    PROVE  /\ ls[k] \in Level
           /\ ls[k].count \in Int
           /\ ls[k].list \in Seq(Node)
           /\ Len(ls[k].list) \in Nat
  <1>1. ls[k] \in Level
    OBVIOUS
  <1> QED
    BY <1>1 DEF Level

\* Taking a node off any list keeps the store good.
LEMMA UnlinkGood ==
    ASSUME NEW s, Good(s), NEW k \in 1 .. Len(s.levels),
           NEW i \in 1 .. Len(s.levels[k].list)
    PROVE  /\ Good(Unlink(s, k, i))
           /\ Len(Unlink(s, k, i).levels) = Len(s.levels)
           /\ s.nfree <= Unlink(s, k, i).nfree
           /\ Slack(s) /\ k = 1 => Slack(Unlink(s, k, i))
  <1> DEFINE ls == s.levels
             lv == [count |-> ls[k].count - 1, list |-> RemoveAt(ls[k].list, i)]
             ms == [ls EXCEPT ![k] = lv]
             u == Unlink(s, k, i)
  <1>1. /\ ls \in Seq(Level) /\ s.free \in Int /\ s.nfree \in Int
        /\ Len(ls) \in Nat /\ ls # <<>>
    BY DEF Good, Store
  <1>2. /\ ls[k].count \in Int /\ ls[k].list \in Seq(Node)
        /\ Len(ls[k].list) \in Nat
    BY <1>1, LevelType
  <1>3. /\ RemoveAt(ls[k].list, i) \in Seq(Node)
        /\ Len(RemoveAt(ls[k].list, i)) = Len(ls[k].list) - 1
    BY <1>2, RemoveOne
  <1>4. lv \in Level
    BY <1>2, <1>3 DEF Level
  <1>5. /\ ms \in Seq(Level) /\ Len(ms) = Len(ls) /\ ms[k] = lv
        /\ \A j \in 1 .. Len(ls) : j # k => ms[j] = ls[j]
    <2> HIDE DEF lv
    <2> QED
      BY <1>1, <1>4, LevelSet
  <1>6. ms # <<>>
    BY <1>1, <1>5
  <1>7. /\ u.levels = ms
        /\ u.free = s.free + IF s.nfree < NJOB_SAVELIST THEN 1 ELSE 0
        /\ u.nfree = s.nfree + IF s.nfree < NJOB_SAVELIST THEN 1 ELSE 0
        /\ u = [levels |-> ms, free |-> u.free, nfree |-> u.nfree]
    BY DEF Unlink
  <1> HIDE DEF ms, u
  <1>8. u \in Store
    BY <1>1, <1>5, <1>7 DEF Store
  <1>9. ls[k].count >= Len(ls[k].list) /\ \A j \in 1 .. Len(ls) : Len(ls[j].list) <= ls[j].count
    BY <1>1, <1>2 DEF Good, Covered
  <1>10. Covered(u)
    <2> SUFFICES ASSUME NEW j \in 1 .. Len(ls)
                 PROVE  Len(ms[j].list) <= ms[j].count
      BY <1>5, <1>7 DEF Covered
    <2>1. CASE j = k
      BY <2>1, <1>2, <1>3, <1>5, <1>9
    <2>2. CASE j # k
      BY <2>2, <1>5, <1>9
    <2> QED
      BY <2>1, <2>2
  <1>11. Pooled(u) /\ s.nfree <= u.nfree
    BY <1>1, <1>7, ConstantsAssumption DEF Good, Pooled
  <1>12. Slack(s) /\ k = 1 => Slack(u)
    BY <1>2, <1>3, <1>5, <1>7 DEF Slack
  <1> QED
    BY <1>5, <1>6, <1>7, <1>8, <1>10, <1>11, <1>12 DEF Good, u

\* job_chksave() keeps the store good, never takes a node out of the pool, and
\* keeps the room that jobsave_create() has made when it drops the oldest.
LEMMA ChkSaveGood ==
    ASSUME NEW s, Good(s), NEW p
    PROVE  /\ Good(ChkSave(s, p))
           /\ Len(ChkSave(s, p).levels) = Len(s.levels)
           /\ s.nfree <= ChkSave(s, p).nfree
           /\ Slack(s) /\ p = Oldest => Slack(ChkSave(s, p))
  <1>1. s.levels \in Seq(Level) /\ Len(s.levels) \in Nat /\ s.nfree \in Int
    BY DEF Good, Store
  <1>2. CASE Hits(s, p) = {}
    BY <1>1, <1>2 DEF ChkSave
  <1>3. CASE Hits(s, p) # {}
    <2> DEFINE k == Least(Hits(s, p))
               i == Least(Stops(s.levels[k], p))
    <2>1. Hits(s, p) \subseteq 1 .. Len(s.levels)
      BY DEF Hits
    <2>2. k \in Hits(s, p)
      BY <1>1, <1>3, <2>1, LeastIn
    <2>3. /\ k \in 1 .. Len(s.levels)
          /\ Stops(s.levels[k], p) # {}
          /\ p = Oldest => k = 1
      BY <2>2 DEF Hits
    <2> HIDE DEF k
    <2>4. Len(s.levels[k].list) \in Nat
      BY <1>1, <2>3, LevelType
    <2>5. Stops(s.levels[k], p) \subseteq 1 .. Len(s.levels[k].list)
      BY DEF Stops
    <2>6. i \in 1 .. Len(s.levels[k].list)
      BY <2>3, <2>4, <2>5, LeastIn
    <2> HIDE DEF i
    <2>7. ChkSave(s, p) = Unlink(s, k, i)
      BY <1>3 DEF ChkSave, k, i
    <2> QED
      BY <2>3, <2>6, <2>7, UnlinkGood
  <1> QED
    BY <1>2, <1>3

\* Replacing the current level only.
LEMMA FirstLevel ==
    ASSUME NEW s, Good(s), NEW lv \in Level, Len(lv.list) <= lv.count
    PROVE  /\ Good([s EXCEPT !.levels = [@ EXCEPT ![1] = lv]])
           /\ [s EXCEPT !.levels = [@ EXCEPT ![1] = lv]].levels[1] = lv
           /\ [s EXCEPT !.levels = [@ EXCEPT ![1] = lv]].nfree = s.nfree
           /\ Len([s EXCEPT !.levels = [@ EXCEPT ![1] = lv]].levels) = Len(s.levels)
  <1> DEFINE ls == s.levels
             ms == [ls EXCEPT ![1] = lv]
             u == [s EXCEPT !.levels = [@ EXCEPT ![1] = lv]]
  <1>1. /\ ls \in Seq(Level) /\ s.free \in Int /\ s.nfree \in Int
        /\ Len(ls) \in Nat /\ ls # <<>> /\ 1 \in 1 .. Len(ls)
    BY DEF Good, Store
  <1>2. /\ ms \in Seq(Level) /\ Len(ms) = Len(ls) /\ ms[1] = lv
        /\ \A j \in 1 .. Len(ls) : j # 1 => ms[j] = ls[j]
    BY <1>1, LevelSet
  <1>3. u.levels = ms /\ u.free = s.free /\ u.nfree = s.nfree
    BY DEF Good, Store
  <1>4. u \in Store
    <2> HIDE DEF ms
    <2>1. u = [s EXCEPT !.levels = ms]
      BY DEF ms
    <2> QED
      BY <1>2, <2>1 DEF Good, Store
  <1> HIDE DEF ms, u
  <1>5. ms # <<>>
    BY <1>1, <1>2
  <1>6. Covered(u)
    <2>1. \A j \in 1 .. Len(ls) : Len(ls[j].list) <= ls[j].count
      BY DEF Good, Covered
    <2> QED
      BY <1>2, <1>3, <2>1 DEF Covered
  <1> QED
    BY <1>2, <1>3, <1>4, <1>5, <1>6 DEF Good, Pooled, u

\* jobsave_create(): counting the new status keeps the store good.
LEMMA CountUpGood ==
    ASSUME NEW s, Good(s)
    PROVE  /\ Good(CountUp(s)) /\ Slack(CountUp(s))
           /\ Len(CountUp(s).levels) = Len(s.levels)
           /\ CountUp(s).nfree = s.nfree
  <1> DEFINE ls == s.levels
             lv == [ls[1] EXCEPT !.count = @ + 1]
             u == [s EXCEPT !.levels = [@ EXCEPT ![1] = lv]]
  <1>1. ls \in Seq(Level) /\ Len(ls) \in Nat /\ 1 \in 1 .. Len(ls)
    BY DEF Good, Store
  <1>2. ls[1] \in Level /\ ls[1].count \in Int /\ Len(ls[1].list) \in Nat
    BY <1>1, LevelType
  <1>3. lv \in Level /\ lv.list = ls[1].list /\ lv.count = ls[1].count + 1
    BY <1>2 DEF Level
  <1>4. Len(lv.list) < lv.count
    BY <1>1, <1>2, <1>3 DEF Good, Covered
  <1>5. CountUp(s) = u
    BY DEF CountUp
  <1> HIDE DEF lv
  <1>6. Good(u) /\ u.levels[1] = lv /\ u.nfree = s.nfree /\ Len(u.levels) = Len(ls)
    <2>1. lv.count \in Int /\ Len(lv.list) \in Nat
      BY <1>2, <1>3
    <2> QED
      BY <1>3, <1>4, <2>1, FirstLevel
  <1> QED
    BY <1>4, <1>5, <1>6 DEF Slack

\* jobsave_create(): dropping the oldest status when the limit is reached.
LEMMA EvictGood ==
    ASSUME NEW s, Good(s), Slack(s)
    PROVE  /\ Good(Evict(s)) /\ Slack(Evict(s))
           /\ Len(Evict(s).levels) = Len(s.levels)
           /\ s.nfree <= Evict(s).nfree
  <1>1. s.nfree \in Int
    BY DEF Good, Store
  <1> QED
    BY <1>1, ChkSaveGood DEF Evict

\* jobsave_create(): a node comes from the pool or from malloc().
LEMMA TakeNodeGood ==
    ASSUME NEW b, Good(b), NEW s, Good(s), Slack(s), b.nfree <= s.nfree
    PROVE  /\ Good(TakeNode(b, s)) /\ Slack(TakeNode(b, s))
           /\ Len(TakeNode(b, s).levels) = Len(s.levels)
  <1> DEFINE u == TakeNode(b, s)
  <1>1. /\ s \in Store /\ b \in Store
        /\ b.free \in Int /\ b.nfree \in Int /\ s.free \in Int /\ s.nfree \in Int
    BY DEF Good, Store
  <1>2. CASE b.free > 0
    <2>1. /\ u = [levels |-> s.levels, free |-> b.free - 1, nfree |-> s.nfree - 1]
      BY <1>2 DEF TakeNode
    <2>2. /\ u \in Store /\ u.levels = s.levels
          /\ u.free = b.free - 1 /\ u.nfree = s.nfree - 1
      BY <1>1, <2>1 DEF Store
    <2> HIDE DEF u
    <2>3. Pooled(u)
      BY <1>1, <1>2, <2>2, ConstantsAssumption DEF Good, Pooled
    <2> QED
      BY <2>2, <2>3 DEF Good, Covered, Slack, u
  <1>3. CASE ~(b.free > 0)
    BY <1>3 DEF TakeNode
  <1> QED
    BY <1>2, <1>3

\* jobsave_create(): the new node becomes the head of the current list.
LEMMA PrependGood ==
    ASSUME NEW s, Good(s), Slack(s), NEW p \in Pids, NEW v \in Vals
    PROVE  /\ Good(Prepend(s, p, v))
           /\ Len(Prepend(s, p, v).levels) = Len(s.levels)
  <1> DEFINE n == [pid |-> p, val |-> v]
             ls == s.levels
             lv == [ls[1] EXCEPT !.list = <<n>> \o @]
             u == [s EXCEPT !.levels = [@ EXCEPT ![1] = lv]]
  <1>1. ls \in Seq(Level) /\ Len(ls) \in Nat /\ 1 \in 1 .. Len(ls)
    BY DEF Good, Store
  <1>2. /\ ls[1] \in Level /\ ls[1].count \in Int
        /\ ls[1].list \in Seq(Node) /\ Len(ls[1].list) \in Nat
    BY <1>1, LevelType
  <1>3. <<n>> \in Seq(Node) /\ Len(<<n>>) = 1
    BY DEF Node
  <1>4. /\ <<n>> \o ls[1].list \in Seq(Node)
        /\ Len(<<n>> \o ls[1].list) = 1 + Len(ls[1].list)
    <2> HIDE DEF n
    <2> QED
      BY <1>2, <1>3, ConcatProperties
  <1>5. /\ lv \in Level /\ lv.count = ls[1].count
        /\ lv.list = <<n>> \o ls[1].list
    <2> HIDE DEF n
    <2> QED
      BY <1>2, <1>4 DEF Level
  <1>6. Len(lv.list) <= lv.count
    BY <1>2, <1>4, <1>5 DEF Slack
  <1>7. Prepend(s, p, v) = u
    BY DEF Prepend
  <1> HIDE DEF lv
  <1>8. Good(u) /\ Len(u.levels) = Len(ls)
    BY <1>5, <1>6, FirstLevel
  <1> QED
    BY <1>7, <1>8

\* jobsave_create() keeps the store good.
LEMMA JobsaveCreateGood ==
    ASSUME NEW s, Good(s), NEW p \in Pids, NEW v \in Vals
    PROVE  /\ Good(JobsaveCreate(s, p, v))
           /\ Len(JobsaveCreate(s, p, v).levels) = Len(s.levels)
  <1> DEFINE a == ChkSave(s, p)
             b == CountUp(a)
             c == Evict(b)
             d == TakeNode(s, c)
  <1>1. Good(a) /\ Len(a.levels) = Len(s.levels) /\ s.nfree <= a.nfree
    BY ChkSaveGood
  <1> HIDE DEF a
  <1>2. Good(b) /\ Slack(b) /\ Len(b.levels) = Len(a.levels) /\ b.nfree = a.nfree
    BY <1>1, CountUpGood
  <1> HIDE DEF b
  <1>3. Good(c) /\ Slack(c) /\ Len(c.levels) = Len(b.levels) /\ b.nfree <= c.nfree
    BY <1>2, EvictGood
  <1> HIDE DEF c
  <1>4. s.nfree \in Int /\ a.nfree \in Int /\ c.nfree \in Int
    BY <1>1, <1>3 DEF Good, Store
  <1>5. s.nfree <= c.nfree
    BY <1>1, <1>2, <1>3, <1>4
  <1>6. Good(d) /\ Slack(d) /\ Len(d.levels) = Len(c.levels)
    BY <1>3, <1>5, TakeNodeGood
  <1> HIDE DEF d
  <1>7. JobsaveCreate(s, p, v) = Prepend(d, p, v)
    BY DEF JobsaveCreate, a, b, c, d
  <1> QED
    BY <1>1, <1>2, <1>3, <1>6, <1>7, PrependGood

\* init_savelist() fills the pool, not beyond NJOB_SAVELIST.
LEMMA InitSavelistGood ==
    ASSUME NEW s, Good(s)
    PROVE  /\ Good(InitSavelist(s))
           /\ Len(InitSavelist(s).levels) = Len(s.levels)
  <1> DEFINE u == InitSavelist(s)
  <1>1. s \in Store /\ s.free \in Int /\ s.nfree \in Int
    BY DEF Good, Store
  <1>2. CASE s.nfree < NJOB_SAVELIST
    <2>1. u = [levels |-> s.levels, free |-> s.free + (NJOB_SAVELIST - s.nfree),
               nfree |-> NJOB_SAVELIST]
      BY <1>2 DEF InitSavelist
    <2>2. /\ u \in Store /\ u.levels = s.levels
          /\ u.free = s.free + (NJOB_SAVELIST - s.nfree) /\ u.nfree = NJOB_SAVELIST
      BY <1>1, <2>1, ConstantsAssumption DEF Store
    <2> HIDE DEF u
    <2>3. Pooled(u)
      BY <1>1, <1>2, <2>2, ConstantsAssumption DEF Good, Pooled
    <2> QED
      BY <2>2, <2>3 DEF Good, Covered, u
  <1>3. CASE ~(s.nfree < NJOB_SAVELIST)
    BY <1>3 DEF InitSavelist
  <1> QED
    BY <1>2, <1>3

\* job_clear() empties the current list and keeps its counter.
LEMMA JobClearGood ==
    ASSUME NEW s, Good(s)
    PROVE  /\ Good(JobClear(s))
           /\ Len(JobClear(s).levels) = Len(s.levels)
  <1> DEFINE ls == s.levels
             lv == [ls[1] EXCEPT !.list = <<>>]
             u == [s EXCEPT !.levels = [@ EXCEPT ![1] = lv]]
  <1>1. ls \in Seq(Level) /\ Len(ls) \in Nat /\ 1 \in 1 .. Len(ls)
    BY DEF Good, Store
  <1>2. ls[1] \in Level /\ ls[1].count \in Int /\ Len(ls[1].list) \in Nat
    BY <1>1, LevelType
  <1>3. <<>> \in Seq(Node) /\ Len(<<>>) = 0
    OBVIOUS
  <1>4. lv \in Level /\ lv.count = ls[1].count /\ lv.list = <<>>
    BY <1>2, <1>3 DEF Level
  <1>5. Len(lv.list) <= lv.count
    BY <1>1, <1>2, <1>3, <1>4 DEF Good, Covered
  <1>6. JobClear(s) = InitSavelist(u)
    BY DEF JobClear
  <1> HIDE DEF lv
  <1>7. Good(u) /\ Len(u.levels) = Len(ls)
    BY <1>4, <1>5, FirstLevel
  <1> HIDE DEF u
  <1> QED
    BY <1>6, <1>7, InitSavelistGood

\* The clearing that _sh_fork() makes before the next post.
LEMMA ClearedGood ==
    ASSUME NEW s, Good(s)
    PROVE  Good(Cleared(s)) /\ Len(Cleared(s).levels) = Len(s.levels)
  BY JobClearGood DEF Cleared

\* What a search returns is a saved status or the answer for an unknown ID.
LEMMA ChkSaveValType ==
    ASSUME NEW s, Good(s), NEW p
    PROVE  ChkSaveVal(s, p) \in Vals \cup {Unknown}
  <1>1. s.levels \in Seq(Level) /\ Len(s.levels) \in Nat
    BY DEF Good, Store
  <1>2. CASE Hits(s, p) = {}
    BY <1>2 DEF ChkSaveVal
  <1>3. CASE Hits(s, p) # {}
    <2> DEFINE k == Least(Hits(s, p))
               i == Least(Stops(s.levels[k], p))
    <2>1. Hits(s, p) \subseteq 1 .. Len(s.levels)
      BY DEF Hits
    <2>2. k \in Hits(s, p)
      BY <1>1, <1>3, <2>1, LeastIn
    <2>3. k \in 1 .. Len(s.levels) /\ Stops(s.levels[k], p) # {}
      BY <2>2 DEF Hits
    <2> HIDE DEF k
    <2>4. s.levels[k].list \in Seq(Node) /\ Len(s.levels[k].list) \in Nat
      BY <1>1, <2>3, LevelType
    <2>5. Stops(s.levels[k], p) \subseteq 1 .. Len(s.levels[k].list)
      BY DEF Stops
    <2>6. i \in 1 .. Len(s.levels[k].list)
      BY <2>3, <2>4, <2>5, LeastIn
    <2> HIDE DEF i
    <2>7. s.levels[k].list[i] \in Node
      BY <2>4, <2>6
    <2>8. ChkSaveVal(s, p) = s.levels[k].list[i].val
      BY <1>3 DEF ChkSaveVal, HitNode, k, i
    <2> QED
      BY <2>7, <2>8 DEF Node
  <1> QED
    BY <1>2, <1>3

\* What a good store says of the variables it is made of.
LEMMA GoodFields ==
    ASSUME NEW s, Good(s)
    PROVE  /\ Good([levels |-> s.levels, free |-> s.free, nfree |-> s.nfree])
           /\ s.levels \in Seq(Level) /\ s.levels # <<>>
           /\ s.free \in Int /\ s.nfree \in Int
  <1>1. s \in Store
    BY DEF Good
  <1>2. s = [levels |-> s.levels, free |-> s.free, nfree |-> s.nfree]
    BY <1>1 DEF Store
  <1> QED
    BY <1>1, <1>2 DEF Good, Store

\* Joined counters cover joined lists.
LEMMA AddBounds ==
    ASSUME NEW a \in Int, NEW b \in Int, NEW c \in Int, NEW d \in Int,
           a <= c, b <= d
    PROVE  a + b <= c + d
  OBVIOUS

\* The length of the levels left after the current one.
LEMMA RestLength ==
    ASSUME NEW a \in Nat, a >= 2
    PROVE  (IF 3 <= a THEN a - 3 + 1 ELSE 0) = a - 2
  OBVIOUS

\* The levels below the two that job_subrestore() joins.
LEMMA RestLevels ==
    ASSUME NEW ls \in Seq(Level), Len(ls) >= 2
    PROVE  /\ SubSeq(ls, 3, Len(ls)) \in Seq(Level)
           /\ Len(SubSeq(ls, 3, Len(ls))) = Len(ls) - 2
           /\ \A i \in 1 .. Len(ls) - 2 : SubSeq(ls, 3, Len(ls))[i] = ls[i + 2]
  <1> DEFINE r == SubSeq(ls, 3, Len(ls))
  <1>1. Len(ls) \in Nat /\ \A i \in 3 .. Len(ls) : ls[i] \in Level
    OBVIOUS
  <1>2. /\ r \in Seq(Level)
        /\ Len(r) = IF 3 <= Len(ls) THEN Len(ls) - 3 + 1 ELSE 0
        /\ \A i \in 1 .. Len(ls) - 3 + 1 : r[i] = ls[3 + i - 1]
    BY <1>1, SubSeqProperties
  <1> HIDE DEF r
  <1>3. Len(r) = Len(ls) - 2
    BY <1>1, <1>2, RestLength
  <1>4. ASSUME NEW i \in 1 .. Len(ls) - 2
        PROVE  r[i] = ls[i + 2]
    <2>1. i \in 1 .. Len(ls) - 3 + 1 /\ 3 + i - 1 = i + 2
      BY <1>1
    <2> QED
      BY <1>2, <2>1
  <1> QED
    BY <1>2, <1>3, <1>4 DEF r

\* The two lists joined by job_subrestore() are covered by the joint counter.
LEMMA JoinGood ==
    ASSUME NEW ls \in Seq(Level), NEW f, NEW n, Len(ls) >= 2,
           Good([levels |-> ls, free |-> f, nfree |-> n])
    PROVE  LET j  == [count |-> ls[1].count + ls[2].count,
                      list  |-> ls[1].list \o ls[2].list]
               ms == <<j>> \o SubSeq(ls, 3, Len(ls))
           IN  /\ Good([levels |-> ms, free |-> f, nfree |-> n])
               /\ Len(ms) = Len(ls) - 1
  <1> DEFINE j  == [count |-> ls[1].count + ls[2].count,
                    list  |-> ls[1].list \o ls[2].list]
             r  == SubSeq(ls, 3, Len(ls))
             ms == <<j>> \o r
             s  == [levels |-> ls, free |-> f, nfree |-> n]
  <1>1. Len(ls) \in Nat /\ 1 \in 1 .. Len(ls) /\ 2 \in 1 .. Len(ls)
    OBVIOUS
  <1>2. /\ ls[1].count \in Int /\ ls[2].count \in Int
        /\ ls[1].list \in Seq(Node) /\ ls[2].list \in Seq(Node)
        /\ Len(ls[1].list) \in Nat /\ Len(ls[2].list) \in Nat
    BY <1>1, LevelType
  <1>3. \A k \in 1 .. Len(ls) : Len(ls[k].list) <= ls[k].count
    BY DEF Good, Covered
  <1>4. /\ ls[1].list \o ls[2].list \in Seq(Node)
        /\ Len(ls[1].list \o ls[2].list) = Len(ls[1].list) + Len(ls[2].list)
    BY <1>2, ConcatProperties
  <1>5. j \in Level /\ Len(j.list) <= j.count
    <2> DEFINE l == ls[1].list \o ls[2].list
               c == ls[1].count + ls[2].count
    <2>1. l \in Seq(Node) /\ c \in Int
      BY <1>2, <1>4
    <2>2. Len(l) <= c
      <3>1. Len(ls[1].list) <= ls[1].count /\ Len(ls[2].list) <= ls[2].count
        BY <1>1, <1>3
      <3> HIDE DEF l
      <3>2. Len(l) = Len(ls[1].list) + Len(ls[2].list)
        BY <1>4 DEF l
      <3>3. Len(ls[1].list) + Len(ls[2].list) <= ls[1].count + ls[2].count
        <4> DEFINE x == ls[1]
                   y == ls[2]
        <4> HIDE DEF x, y
        <4>1. /\ x.count \in Int /\ y.count \in Int
              /\ Len(x.list) \in Int /\ Len(y.list) \in Int
              /\ Len(x.list) <= x.count /\ Len(y.list) <= y.count
          BY <1>2, <3>1 DEF x, y
        <4>2. Len(x.list) + Len(y.list) <= x.count + y.count
          BY <4>1, AddBounds
        <4> QED
          BY <4>2 DEF x, y
      <3> HIDE DEF c
      <3>4. c = ls[1].count + ls[2].count
        BY DEF c
      <3> QED
        BY <3>2, <3>3, <3>4
    <2>3. j = [count |-> c, list |-> l]
      OBVIOUS
    <2> HIDE DEF l, c, j
    <2> QED
      BY <2>1, <2>2, <2>3 DEF Level
  <1> HIDE DEF j
  <1>6. /\ r \in Seq(Level)
        /\ Len(r) = Len(ls) - 2
        /\ \A i \in 1 .. Len(ls) - 2 : r[i] = ls[i + 2]
    BY RestLevels
  <1> HIDE DEF r
  <1>7. <<j>> \in Seq(Level) /\ Len(<<j>>) = 1 /\ <<j>>[1] = j
    BY <1>5
  <1>8. /\ ms \in Seq(Level)
        /\ Len(ms) = Len(<<j>>) + Len(r)
        /\ \A i \in 1 .. Len(<<j>>) + Len(r) :
              ms[i] = IF i <= Len(<<j>>) THEN <<j>>[i] ELSE r[i - Len(<<j>>)]
    BY <1>6, <1>7, ConcatProperties
  <1> HIDE DEF ms
  <1>9. Len(ms) = Len(ls) - 1 /\ ms # <<>>
    BY <1>1, <1>6, <1>7, <1>8
  <1>10. ASSUME NEW k \in 1 .. Len(ms)
         PROVE  Len(ms[k].list) <= ms[k].count
    <2>1. CASE k = 1
      <3>1. 1 \in 1 .. Len(<<j>>) + Len(r) /\ 1 <= Len(<<j>>)
        BY <1>1, <1>6, <1>7
      <3>2. ms[1] = j
        BY <3>1, <1>7, <1>8
      <3> QED
        BY <2>1, <3>2, <1>5
    <2>2. CASE k # 1
      <3>1. k - 1 \in 1 .. Len(ls) - 2 /\ k + 1 \in 1 .. Len(ls)
        BY <2>2, <1>1, <1>9
      <3>2. ms[k] = r[k - 1]
        BY <2>2, <1>1, <1>6, <1>7, <1>8, <1>9
      <3>3. r[k - 1] = ls[k + 1]
        BY <3>1, <1>1, <1>6
      <3> QED
        BY <3>1, <3>2, <3>3, <1>3
    <2> QED
      BY <2>1, <2>2
  <1>11. Good([levels |-> ms, free |-> f, nfree |-> n])
    BY <1>8, <1>9, <1>10 DEF Good, Covered, Pooled, Store
  <1> QED
    BY <1>9, <1>11 DEF ms, r, j

\* A new level with an empty list.
LEMMA PushGood ==
    ASSUME NEW ls \in Seq(Level), NEW f, NEW n,
           Good([levels |-> ls, free |-> f, nfree |-> n])
    PROVE  LET ms == <<[count |-> 0, list |-> <<>>]>> \o ls
           IN  /\ Good([levels |-> ms, free |-> f, nfree |-> n])
               /\ Len(ms) = Len(ls) + 1
  <1> DEFINE j  == [count |-> 0, list |-> <<>>]
             ms == <<j>> \o ls
  <1>1. <<>> \in Seq(Node) /\ Len(<<>>) = 0 /\ Len(ls) \in Nat
    OBVIOUS
  <1>2. j \in Level /\ Len(j.list) <= j.count
    BY <1>1 DEF Level
  <1> HIDE DEF j
  <1>3. <<j>> \in Seq(Level) /\ Len(<<j>>) = 1 /\ <<j>>[1] = j
    BY <1>2
  <1>4. /\ ms \in Seq(Level)
        /\ Len(ms) = Len(<<j>>) + Len(ls)
        /\ \A i \in 1 .. Len(<<j>>) + Len(ls) :
              ms[i] = IF i <= Len(<<j>>) THEN <<j>>[i] ELSE ls[i - Len(<<j>>)]
    BY <1>3, ConcatProperties
  <1> HIDE DEF ms
  <1>5. \A k \in 1 .. Len(ls) : Len(ls[k].list) <= ls[k].count
    BY DEF Good, Covered
  <1>6. Len(ms) = Len(ls) + 1 /\ ms # <<>>
    BY <1>1, <1>3, <1>4
  <1>7. ASSUME NEW k \in 1 .. Len(ms)
        PROVE  Len(ms[k].list) <= ms[k].count
    <2>1. CASE k = 1
      <3>1. 1 \in 1 .. Len(<<j>>) + Len(ls) /\ 1 <= Len(<<j>>)
        BY <1>1, <1>3
      <3>2. ms[1] = j
        BY <3>1, <1>3, <1>4
      <3> QED
        BY <2>1, <3>2, <1>2
    <2>2. CASE k # 1
      <3>1. k - 1 \in 1 .. Len(ls) /\ ms[k] = ls[k - 1]
        BY <2>2, <1>1, <1>3, <1>4, <1>6
      <3> QED
        BY <3>1, <1>5
    <2> QED
      BY <2>1, <2>2
  <1>8. Good([levels |-> ms, free |-> f, nfree |-> n])
    BY <1>4, <1>6, <1>7 DEF Good, Covered, Pooled, Store
  <1> QED
    BY <1>6, <1>8 DEF ms, j

----------------------------------------------------------------------------
(* The inductive invariant and its theorems.                               *)

IInv == TypeOK /\ Good(Store0)

\* A step that replaces the store by a good one of as many levels.
LEMMA StoreStep ==
    ASSUME IInv, NEW s, Good(s), Len(s.levels) = Len(levels), SetStore(s)
    PROVE  /\ Good(Store0)'
           /\ levels' \in Seq(Level) /\ levels' # <<>>
           /\ free' \in Int /\ nfree' \in Int
           /\ Len(levels') = Len(levels)
  <1>1. levels' = s.levels /\ free' = s.free /\ nfree' = s.nfree
    BY DEF SetStore
  <1>2. Good([levels |-> s.levels, free |-> s.free, nfree |-> s.nfree])
    BY GoodFields
  <1>3. Good([levels |-> levels', free |-> free', nfree |-> nfree'])
    BY <1>1, <1>2
  <1>4. Good(Store0)'
    BY <1>3 DEF Store0, Good, Covered, Pooled
  <1> QED
    BY <1>1, <1>4, GoodFields

\* The rest of the type invariant after a step that leaves own alone.
LEMMA SameDepth ==
    ASSUME IInv, Len(levels') = Len(levels), own' = own
    PROVE  own' \in 0 .. (Len(levels') - 1)
  BY DEF IInv, TypeOK

\* Every step keeps the inductive invariant.
LEMMA StepOK ==
    ASSUME IInv, [Next]_vars
    PROVE  IInv'
  <1> USE DEF IInv
  <1>0. /\ Good(Store0) /\ TypeOK
        /\ Store0.levels = levels /\ Store0.free = free /\ Store0.nfree = nfree
        /\ Store0 = [levels |-> levels, free |-> free, nfree |-> nfree]
    BY DEF Store0
  <1>1. ASSUME NEW p \in Pids, Post(p)
        PROVE  IInv'
    <2> DEFINE a == Cleared(Store0)
               b == InitSavelist(a)
               c == ChkSave(b, p)
    <2>1. Good(a) /\ Len(a.levels) = Len(levels)
      BY <1>0, ClearedGood
    <2> HIDE DEF a
    <2>2. Good(b) /\ Len(b.levels) = Len(levels)
      BY <2>1, InitSavelistGood
    <2> HIDE DEF b
    <2>3. Good(c) /\ Len(c.levels) = Len(levels)
      BY <2>2, ChkSaveGood
    <2> HIDE DEF c
    <2>4. SetStore(c)
      BY <1>1 DEF Post, a, b, c
    <2>5. /\ Good(Store0)' /\ levels' \in Seq(Level) /\ levels' # <<>>
          /\ free' \in Int /\ nfree' \in Int /\ Len(levels') = Len(levels)
      BY <2>3, <2>4, StoreStep
    <2>6. own' \in 0 .. (Len(levels') - 1)
      BY <1>1, <2>5, SameDepth DEF Post
    <2> QED
      BY <1>0, <1>1, <2>5, <2>6 DEF Post, TypeOK
  <1>2. ASSUME NEW p \in Pids, UnpostWaited(p)
        PROVE  IInv'
    BY <1>0, <1>2 DEF UnpostWaited, TypeOK, Store0, Good, Covered, Pooled, Store
  <1>3. ASSUME NEW p \in Pids, Wait(p)
        PROVE  IInv'
    <2> DEFINE c == ChkSave(Store0, p)
    <2>1. Good(c) /\ Len(c.levels) = Len(levels)
      BY <1>0, ChkSaveGood
    <2> HIDE DEF c
    <2>2. SetStore(c)
      BY <1>3 DEF Wait, c
    <2>3. /\ Good(Store0)' /\ levels' \in Seq(Level) /\ levels' # <<>>
          /\ free' \in Int /\ nfree' \in Int /\ Len(levels') = Len(levels)
      BY <2>1, <2>2, StoreStep
    <2>4. own' \in 0 .. (Len(levels') - 1)
      BY <1>3, <2>3, SameDepth DEF Wait
    <2>5. exitval' \in Vals \cup {Unknown}
      BY <1>0, <1>3, ChkSaveValType DEF Wait
    <2> QED
      BY <1>0, <1>3, <2>3, <2>4, <2>5 DEF Wait, TypeOK
  <1>4. ASSUME NEW p \in Pids, NEW v \in Vals, Unpost(p, v)
        PROVE  IInv'
    <2> DEFINE c == JobsaveCreate(Store0, p, v)
    <2>1. Good(c) /\ Len(c.levels) = Len(levels)
      BY <1>0, JobsaveCreateGood
    <2> HIDE DEF c
    <2>2. SetStore(c)
      BY <1>4 DEF Unpost, c
    <2>3. /\ Good(Store0)' /\ levels' \in Seq(Level) /\ levels' # <<>>
          /\ free' \in Int /\ nfree' \in Int /\ Len(levels') = Len(levels)
      BY <2>1, <2>2, StoreStep
    <2>4. own' \in 0 .. (Len(levels') - 1)
      BY <1>4, <2>3, SameDepth DEF Unpost
    <2> QED
      BY <1>0, <1>4, <2>3, <2>4 DEF Unpost, TypeOK
  <1>5. ASSUME NEW p \in Pids, NEW v \in Vals, ReapUnknown(p, v)
        PROVE  IInv'
    <2> DEFINE a == IF v = 0 THEN ChkSave(Store0, p) ELSE Store0
               b == Cleared(a)
               c == JobsaveCreate(b, p, v)
    <2>1. Good(a) /\ Len(a.levels) = Len(levels)
      BY <1>0, ChkSaveGood
    <2> HIDE DEF a
    <2>2. Good(b) /\ Len(b.levels) = Len(levels)
      BY <2>1, ClearedGood
    <2> HIDE DEF b
    <2>3. Good(c) /\ Len(c.levels) = Len(levels)
      BY <2>2, JobsaveCreateGood
    <2> HIDE DEF c
    <2>4. SetStore(c)
      BY <1>5 DEF ReapUnknown, a, b, c
    <2>5. /\ Good(Store0)' /\ levels' \in Seq(Level) /\ levels' # <<>>
          /\ free' \in Int /\ nfree' \in Int /\ Len(levels') = Len(levels)
      BY <2>3, <2>4, StoreStep
    <2>6. own' \in 0 .. (Len(levels') - 1)
      BY <1>5, <2>5, SameDepth DEF ReapUnknown
    <2> QED
      BY <1>0, <1>5, <2>5, <2>6 DEF ReapUnknown, TypeOK
  <1>6. CASE SubSave
    <2> DEFINE ms == <<[count |-> 0, list |-> <<>>]>> \o levels
    <2>1. /\ Good([levels |-> ms, free |-> free, nfree |-> nfree])
          /\ Len(ms) = Len(levels) + 1
      BY <1>0, PushGood DEF TypeOK
    <2> HIDE DEF ms
    <2>2. levels' = ms /\ free' = free /\ nfree' = nfree /\ own' = own + 1
      BY <1>6 DEF SubSave, ms
    <2>3. Good([levels |-> levels', free |-> free', nfree |-> nfree'])
      BY <2>1, <2>2
    <2>4. /\ Good(Store0)' /\ levels' \in Seq(Level) /\ levels' # <<>>
      BY <2>3 DEF Store0, Good, Covered, Pooled, Store
    <2>5. own' \in 0 .. (Len(levels') - 1)
      BY <1>0, <2>1, <2>2 DEF TypeOK
    <2> QED
      BY <1>0, <1>6, <2>4, <2>5 DEF SubSave, TypeOK
  <1>7. CASE SubRestore
    <2> DEFINE ms == <<[count |-> levels[1].count + levels[2].count,
                        list  |-> levels[1].list \o levels[2].list]>>
                     \o SubSeq(levels, 3, Len(levels))
    <2>0. Len(levels) >= 2 /\ levels \in Seq(Level) /\ Len(levels) \in Nat
      BY <1>0, <1>7 DEF SubRestore, TypeOK
    <2>1. /\ Good([levels |-> ms, free |-> free, nfree |-> nfree])
          /\ Len(ms) = Len(levels) - 1
      BY <1>0, <2>0, JoinGood
    <2> HIDE DEF ms
    <2>2. levels' = ms /\ free' = free /\ nfree' = nfree /\ own' = own - 1
      BY <1>7 DEF SubRestore, ms
    <2>3. Good([levels |-> levels', free |-> free', nfree |-> nfree'])
      BY <2>1, <2>2
    <2>4. /\ Good(Store0)' /\ levels' \in Seq(Level) /\ levels' # <<>>
      BY <2>3 DEF Store0, Good, Covered, Pooled, Store
    <2>5. own' \in 0 .. (Len(levels') - 1)
      BY <1>0, <1>7, <2>0, <2>1, <2>2 DEF TypeOK, SubRestore
    <2> QED
      BY <1>0, <1>7, <2>4, <2>5 DEF SubRestore, TypeOK
  <1>8. CASE SubRestoreEvict
    <2> DEFINE c == ChkSave(Store0, Oldest)
    <2>1. Good(c) /\ Len(c.levels) = Len(levels)
      BY <1>0, ChkSaveGood
    <2> HIDE DEF c
    <2>2. SetStore(c)
      BY <1>8 DEF SubRestoreEvict, c
    <2>3. /\ Good(Store0)' /\ levels' \in Seq(Level) /\ levels' # <<>>
          /\ free' \in Int /\ nfree' \in Int /\ Len(levels') = Len(levels)
      BY <2>1, <2>2, StoreStep
    <2>4. own' \in 0 .. (Len(levels') - 1)
      BY <1>8, <2>3, SameDepth DEF SubRestoreEvict
    <2> QED
      BY <1>0, <1>8, <2>3, <2>4 DEF SubRestoreEvict, TypeOK
  <1>9. CASE ClearTable
    <2> DEFINE c == JobClear(Store0)
    <2>1. Good(c) /\ Len(c.levels) = Len(levels)
      BY <1>0, JobClearGood
    <2> HIDE DEF c
    <2>2. SetStore(c)
      BY <1>9 DEF ClearTable, c
    <2>3. /\ Good(Store0)' /\ levels' \in Seq(Level) /\ levels' # <<>>
          /\ free' \in Int /\ nfree' \in Int /\ Len(levels') = Len(levels)
      BY <2>1, <2>2, StoreStep
    <2>4. own' \in 0 .. (Len(levels') - 1)
      BY <1>9, <2>3, SameDepth DEF ClearTable
    <2> QED
      BY <1>0, <1>9, <2>3, <2>4 DEF ClearTable, TypeOK
  <1>10. ASSUME UNCHANGED <<levels, free, nfree>>
         PROVE  Good(Store0)' /\ levels' \in Seq(Level) /\ levels' # <<>>
    BY <1>0, <1>10 DEF Store0, Good, Covered, Pooled, Store
  <1>11. CASE SubRestoreUnpost \/ SubRestoreEnd
    BY <1>0, <1>10, <1>11 DEF SubRestoreUnpost, SubRestoreEnd, TypeOK
  <1>12. CASE ForkChild
    BY <1>0, <1>10, <1>12, ConstantsAssumption DEF ForkChild, TypeOK
  <1>13. CASE UNCHANGED vars
    BY <1>0, <1>10, <1>13 DEF vars, TypeOK
  <1> QED
    BY <1>1, <1>2, <1>3, <1>4, <1>5, <1>6, <1>7, <1>8, <1>9, <1>11, <1>12, <1>13
       DEF Next

\* The first shell starts with one empty level and a full pool.
LEMMA InitOK ==
    ASSUME Init
    PROVE  IInv
  <1> DEFINE lv == [count |-> 0, list |-> <<>>]
  <1>1. <<>> \in Seq(Node) /\ Len(<<>>) = 0
    OBVIOUS
  <1>2. lv \in Level /\ Len(lv.list) <= lv.count
    BY <1>1 DEF Level
  <1> HIDE DEF lv
  <1>3. /\ <<lv>> \in Seq(Level) /\ <<lv>> # <<>> /\ Len(<<lv>>) = 1
        /\ \A k \in 1 .. 1 : <<lv>>[k] = lv
    BY <1>2
  <1>4. levels = <<lv>> /\ free = NJOB_SAVELIST /\ nfree = NJOB_SAVELIST
    BY DEF Init, lv
  <1>5. Good(Store0)
    BY <1>2, <1>3, <1>4, ConstantsAssumption DEF Store0, Good, Covered, Pooled, Store
  <1>6. TypeOK
    <2>1. own \in 0 .. (Len(levels) - 1) /\ forks \in 0 .. MaxForks
      BY <1>3, <1>4, ConstantsAssumption DEF Init
    <2>2. /\ running \subseteq Pids /\ toclear \in BOOLEAN
          /\ phase \in {"no", "evict", "unpost"}
          /\ exitval \in Vals \cup {0, Unknown}
      BY DEF Init
    <2>3. /\ levels \in Seq(Level) /\ levels # <<>>
          /\ free \in Int /\ nfree \in Int
      BY <1>3, <1>4, ConstantsAssumption
    <2> QED
      BY <2>1, <2>2, <2>3 DEF TypeOK
  <1> QED
    BY <1>5, <1>6 DEF IInv

\* Types, counters and the pool are kept by every behaviour of the shell and
\* of the subshells it forks.
THEOREM Invariance == Spec => []IInv
  BY InitOK, StepOK, PTL DEF Spec

\* The state of the saved statuses keeps its types: $? is a saved status or
\* 127 after every wait, and a subshell that returns has a level to join.
THEOREM StoreTypes == Spec => []TypeOK
  <1>1. IInv => TypeOK
    BY DEF IInv
  <1> QED
    BY <1>1, Invariance, PTL

\* For every limit on children and every history of forks and subshells, no
\* list outgrows its counter: job_chksave() never runs out of count before it
\* has compared every node, so it never returns another process's status.
THEOREM SearchComplete == Spec => []CountCoversList
  <1>1. IInv => CountCoversList
    BY DEF IInv, Good, Covered, Store0, CountCoversList
  <1> QED
    BY <1>1, Invariance, PTL

\* The pool of free nodes never holds more nodes than njob_savelist counts.
THEOREM PoolBounded == Spec => []PoolCounted
  <1>1. IInv => PoolCounted
    BY DEF IInv, Good, Pooled, Store0, PoolCounted
  <1> QED
    BY <1>1, Invariance, PTL
----------------------------------------------------------------------------
(* One status of a process ID.                                             *)

\* The chain of lists ls has at most one status of a process ID, ...
Single(ls) ==
    \A j, k \in 1 .. Len(ls) :
        \A i \in 1 .. Len(ls[j].list), h \in 1 .. Len(ls[k].list) :
            ls[j].list[i].pid = ls[k].list[h].pid => j = k /\ i = h

\* ... and none of p.
Absent(ls, p) ==
    \A k \in 1 .. Len(ls) : \A i \in 1 .. Len(ls[k].list) : ls[k].list[i].pid # p

\* Two nodes of one process ID are one node.
LEMMA SameNode ==
    ASSUME NEW ls, Single(ls), NEW j \in 1 .. Len(ls), NEW k \in 1 .. Len(ls),
           NEW i \in 1 .. Len(ls[j].list), NEW h \in 1 .. Len(ls[k].list),
           ls[j].list[i].pid = ls[k].list[h].pid
    PROVE  j = k /\ i = h
  BY DEF Single

\* Where the nodes of a list were before one was taken off it.
LEMMA RemoveElements ==
    ASSUME NEW s \in Seq(Node), NEW i \in 1 .. Len(s), NEW h \in 1 .. Len(s) - 1
    PROVE  /\ h < i => RemoveAt(s, i)[h] = s[h]
           /\ ~(h < i) => RemoveAt(s, i)[h] = s[h + 1]
  <1> DEFINE a == SubSeq(s, 1, i - 1)
             b == SubSeq(s, i + 1, Len(s))
  <1>1. Len(s) \in Nat
    OBVIOUS
  <1>2. a \in Seq(Node) /\ Len(a) = i - 1 /\ \A j \in 1 .. i - 1 : a[j] = s[j]
    BY <1>1
  <1>3. b \in Seq(Node) /\ Len(b) = Len(s) - i /\ \A j \in 1 .. Len(s) - i : b[j] = s[j + i]
    BY <1>1
  <1> HIDE DEF a, b
  <1>4. \A j \in 1 .. Len(a) + Len(b) :
           (a \o b)[j] = IF j <= Len(a) THEN a[j] ELSE b[j - Len(a)]
    BY <1>2, <1>3, ConcatProperties
  <1>5. h \in 1 .. Len(a) + Len(b)
    BY <1>1, <1>2, <1>3
  <1>6. ASSUME h < i
        PROVE  (a \o b)[h] = s[h]
    <2>1. h <= Len(a) /\ h \in 1 .. i - 1
      BY <1>1, <1>2, <1>6
    <2> QED
      BY <2>1, <1>2, <1>4, <1>5
  <1>7. ASSUME ~(h < i)
        PROVE  (a \o b)[h] = s[h + 1]
    <2>1. ~(h <= Len(a)) /\ h - Len(a) \in 1 .. Len(s) - i /\ (h - Len(a)) + i = h + 1
      BY <1>1, <1>2, <1>7
    <2> QED
      BY <2>1, <1>3, <1>4, <1>5
  <1> QED
    BY <1>6, <1>7 DEF RemoveAt, a, b

\* Chains with the same lists, or with some of them emptied.
LEMMA FewerSingle ==
    ASSUME NEW ls \in Seq(Level), NEW ms \in Seq(Level), Len(ms) = Len(ls),
           \A k \in 1 .. Len(ls) : ms[k].list = ls[k].list \/ ms[k].list = <<>>
    PROVE  /\ Single(ls) => Single(ms)
           /\ \A p : Absent(ls, p) => Absent(ms, p)
  <1>1. \A k \in 1 .. Len(ms) : \A i \in 1 .. Len(ms[k].list) :
           ms[k].list = ls[k].list
    BY Len(<<>>) = 0
  <1>2. ASSUME Single(ls)
        PROVE  Single(ms)
    <2> SUFFICES ASSUME NEW j \in 1 .. Len(ms), NEW k \in 1 .. Len(ms),
                        NEW i \in 1 .. Len(ms[j].list), NEW h \in 1 .. Len(ms[k].list),
                        ms[j].list[i].pid = ms[k].list[h].pid
                 PROVE  j = k /\ i = h
      BY DEF Single
    <2>1. ms[j].list = ls[j].list /\ ms[k].list = ls[k].list
      BY <1>1
    <2>2. /\ j \in 1 .. Len(ls) /\ k \in 1 .. Len(ls)
          /\ i \in 1 .. Len(ls[j].list) /\ h \in 1 .. Len(ls[k].list)
          /\ ls[j].list[i].pid = ls[k].list[h].pid
      BY <2>1
    <2> QED
      BY <2>2, <1>2, SameNode
  <1>3. ASSUME NEW p, Absent(ls, p)
        PROVE  Absent(ms, p)
    BY <1>1, <1>3 DEF Absent
  <1> QED
    BY <1>2, <1>3

\* Taking a node off its list leaves one status of each other process ID, and
\* none of its own.
LEMMA UnlinkSingle ==
    ASSUME NEW s, Good(s), NEW k \in 1 .. Len(s.levels),
           NEW i \in 1 .. Len(s.levels[k].list)
    PROVE  /\ Single(s.levels) =>
                /\ Single(Unlink(s, k, i).levels)
                /\ Absent(Unlink(s, k, i).levels, s.levels[k].list[i].pid)
           /\ \A p : Absent(s.levels, p) => Absent(Unlink(s, k, i).levels, p)
  <1> DEFINE ls == s.levels
             lv == [count |-> ls[k].count - 1, list |-> RemoveAt(ls[k].list, i)]
             ms == [ls EXCEPT ![k] = lv]
             up(j, h) == IF j = k /\ ~(h < i) THEN h + 1 ELSE h
  <1>1. ls \in Seq(Level) /\ Len(ls) \in Nat
    BY DEF Good, Store
  <1>2. /\ ls[k].count \in Int /\ ls[k].list \in Seq(Node)
        /\ Len(ls[k].list) \in Nat
    BY <1>1, LevelType
  <1>3. /\ RemoveAt(ls[k].list, i) \in Seq(Node)
        /\ Len(RemoveAt(ls[k].list, i)) = Len(ls[k].list) - 1
        /\ \A h \in 1 .. Len(ls[k].list) - 1 :
              /\ h < i => RemoveAt(ls[k].list, i)[h] = ls[k].list[h]
              /\ ~(h < i) => RemoveAt(ls[k].list, i)[h] = ls[k].list[h + 1]
    BY <1>2, RemoveOne, RemoveElements
  <1>4. lv \in Level /\ lv.list = RemoveAt(ls[k].list, i)
    BY <1>2, <1>3 DEF Level
  <1> HIDE DEF lv
  <1>5. /\ Len(ms) = Len(ls) /\ ms[k] = lv
        /\ \A j \in 1 .. Len(ls) : j # k => ms[j] = ls[j]
    BY <1>1, <1>4, LevelSet
  <1>6. Unlink(s, k, i).levels = ms
    BY DEF Unlink, lv
  <1> HIDE DEF ms, ls
  <1>7. ASSUME NEW j \in 1 .. Len(ms), NEW h \in 1 .. Len(ms[j].list)
        PROVE  /\ j \in 1 .. Len(ls) /\ up(j, h) \in 1 .. Len(ls[j].list)
               /\ ms[j].list[h] = ls[j].list[up(j, h)]
               /\ ~(j = k /\ up(j, h) = i)
    <2>1. CASE j = k
      <3>1. ms[j].list = RemoveAt(ls[k].list, i) /\ h \in 1 .. Len(ls[k].list) - 1
        BY <2>1, <1>3, <1>4, <1>5
      <3>2. CASE h < i
        BY <2>1, <3>1, <3>2, <1>2, <1>3, <1>5
      <3>3. CASE ~(h < i)
        BY <2>1, <3>1, <3>3, <1>2, <1>3, <1>5
      <3> QED
        BY <3>2, <3>3
    <2>2. CASE j # k
      BY <2>2, <1>5
    <2> QED
      BY <2>1, <2>2
  <1>8. ASSUME NEW j, NEW g \in Nat, NEW h \in Nat, up(j, g) = up(j, h)
        PROVE  g = h
    <2>1. CASE j = k
      <3>1. i \in Nat
        OBVIOUS
      <3> QED
        BY <2>1, <3>1, <1>8
    <2>2. CASE j # k
      BY <2>2, <1>8
    <2> QED
      BY <2>1, <2>2
  <1>9. \A j : \A g, h \in Nat : up(j, g) = up(j, h) => g = h
    BY <1>8
  <1> HIDE DEF up
  <1>10. ASSUME Single(ls)
         PROVE  Single(ms)
    <2> SUFFICES ASSUME NEW j \in 1 .. Len(ms), NEW l \in 1 .. Len(ms),
                        NEW g \in 1 .. Len(ms[j].list), NEW h \in 1 .. Len(ms[l].list),
                        ms[j].list[g].pid = ms[l].list[h].pid
                 PROVE  j = l /\ g = h
      BY DEF Single
    <2> DEFINE x == up(j, g)
               y == up(l, h)
    <2>1. /\ j \in 1 .. Len(ls) /\ x \in 1 .. Len(ls[j].list)
          /\ ms[j].list[g] = ls[j].list[x]
      BY <1>7
    <2>2. /\ l \in 1 .. Len(ls) /\ y \in 1 .. Len(ls[l].list)
          /\ ms[l].list[h] = ls[l].list[y]
      BY <1>7
    <2> HIDE DEF x, y
    <2>3. ls[j].list[x].pid = ls[l].list[y].pid
      BY <2>1, <2>2
    <2>4. j = l /\ x = y
      <3>1. \A a, b \in 1 .. Len(ls) : \A q \in 1 .. Len(ls[a].list), r \in 1 .. Len(ls[b].list) :
               ls[a].list[q].pid = ls[b].list[r].pid => a = b /\ q = r
        BY <1>10, Zenon DEF Single
      <3>2. j \in 1 .. Len(ls) /\ l \in 1 .. Len(ls) /\ x \in 1 .. Len(ls[j].list) /\ y \in 1 .. Len(ls[l].list)
        BY <2>1, <2>2
      <3>3. \A q \in 1 .. Len(ls[j].list), r \in 1 .. Len(ls[l].list) :
               ls[j].list[q].pid = ls[l].list[r].pid => j = l /\ q = r
        BY <3>1, <3>2
      <3> QED
        BY <2>3, <3>2, <3>3
    <2> QED
      BY <2>4, <1>9 DEF x, y
  <1>11. ASSUME Single(ls)
         PROVE  Absent(ms, ls[k].list[i].pid)
    <2> SUFFICES ASSUME NEW j \in 1 .. Len(ms), NEW h \in 1 .. Len(ms[j].list),
                        ms[j].list[h].pid = ls[k].list[i].pid
                 PROVE  FALSE
      BY DEF Absent
    <2>1. k \in 1 .. Len(ls) /\ i \in 1 .. Len(ls[k].list)
      BY DEF ls
    <2> DEFINE x == up(j, h)
    <2>2. /\ j \in 1 .. Len(ls) /\ x \in 1 .. Len(ls[j].list)
          /\ ms[j].list[h] = ls[j].list[x]
          /\ ~(j = k /\ x = i)
      BY <1>7
    <2> HIDE DEF x
    <2>3. ls[j].list[x].pid = ls[k].list[i].pid
      BY <2>2
    <2>4. j = k /\ x = i
      BY <2>1, <2>2, <2>3, <1>11, SameNode
    <2> QED
      BY <2>2, <2>4
  <1>12. ASSUME NEW p, Absent(ls, p)
         PROVE  Absent(ms, p)
    BY <1>7, <1>12 DEF Absent
  <1> QED
    BY <1>6, <1>10, <1>11, <1>12 DEF ls

\* After a search for a process ID its status is on no list.
LEMMA ChkSaveSingle ==
    ASSUME NEW s, Good(s), NEW p
    PROVE  /\ Single(s.levels) =>
                /\ Single(ChkSave(s, p).levels)
                /\ p # Oldest => Absent(ChkSave(s, p).levels, p)
           /\ \A q : Absent(s.levels, q) => Absent(ChkSave(s, p).levels, q)
  <1>1. s.levels \in Seq(Level) /\ Len(s.levels) \in Nat
    BY DEF Good, Store
  <1>2. CASE Hits(s, p) = {}
    <2>1. ChkSave(s, p) = s
      BY <1>2 DEF ChkSave
    <2>2. ASSUME p # Oldest
          PROVE  Absent(s.levels, p)
      <3>1. \A k \in 1 .. Len(s.levels) : Stops(s.levels[k], p) = {}
        BY <2>2, <1>2 DEF Hits
      <3> QED
        BY <3>1 DEF Stops, Absent
    <2> QED
      BY <2>1, <2>2
  <1>3. CASE Hits(s, p) # {}
    <2> DEFINE k == Least(Hits(s, p))
               i == Least(Stops(s.levels[k], p))
    <2>1. Hits(s, p) \subseteq 1 .. Len(s.levels)
      BY DEF Hits
    <2>2. k \in Hits(s, p)
      BY <1>1, <1>3, <2>1, LeastIn
    <2>3. k \in 1 .. Len(s.levels) /\ Stops(s.levels[k], p) # {}
      BY <2>2 DEF Hits
    <2> HIDE DEF k
    <2>4. Len(s.levels[k].list) \in Nat /\ s.levels[k].count \in Int
      BY <1>1, <2>3, LevelType
    <2>5. Stops(s.levels[k], p) \subseteq 1 .. Len(s.levels[k].list)
      BY DEF Stops
    <2>6. i \in Stops(s.levels[k], p)
      BY <2>3, <2>4, <2>5, LeastIn
    <2> HIDE DEF i
    <2>7. i \in 1 .. Len(s.levels[k].list)
      BY <2>5, <2>6
    <2>8. p # Oldest => s.levels[k].list[i].pid = p
      <3>1. Len(s.levels[k].list) <= s.levels[k].count
        BY <2>3 DEF Good, Covered
      <3> QED
        BY <3>1, <2>4, <2>6, <2>7 DEF Stops
    <2>9. ChkSave(s, p) = Unlink(s, k, i)
      BY <1>3 DEF ChkSave, k, i
    <2> QED
      BY <2>3, <2>7, <2>8, <2>9, UnlinkSingle
  <1> QED
    BY <1>2, <1>3

\* The counters and the pool are no part of the lists.
LEMMA CountUpSingle ==
    ASSUME NEW s, Good(s)
    PROVE  /\ Single(s.levels) => Single(CountUp(s).levels)
           /\ \A p : Absent(s.levels, p) => Absent(CountUp(s).levels, p)
  <1> DEFINE ls == s.levels
             lv == [ls[1] EXCEPT !.count = @ + 1]
             ms == [ls EXCEPT ![1] = lv]
  <1>1. ls \in Seq(Level) /\ Len(ls) \in Nat /\ 1 \in 1 .. Len(ls)
    BY DEF Good, Store
  <1>2. ls[1] \in Level /\ ls[1].count \in Int
    BY <1>1, LevelType
  <1>3. lv \in Level /\ lv.list = ls[1].list
    BY <1>2 DEF Level
  <1>4. CountUp(s).levels = ms
    BY DEF CountUp, Good, Store
  <1> HIDE DEF lv
  <1>5. /\ ms \in Seq(Level) /\ Len(ms) = Len(ls) /\ ms[1] = lv
        /\ \A j \in 1 .. Len(ls) : j # 1 => ms[j] = ls[j]
    BY <1>1, <1>3, LevelSet
  <1> HIDE DEF ms, ls
  <1>6. \A j \in 1 .. Len(ls) : ms[j].list = ls[j].list
    BY <1>3, <1>5
  <1>7. /\ Single(ls) => Single(ms)
        /\ \A p : Absent(ls, p) => Absent(ms, p)
    BY <1>1, <1>5, <1>6, FewerSingle
  <1> QED
    BY <1>4, <1>7 DEF ls

\* job_clear() empties the current list.
LEMMA JobClearSingle ==
    ASSUME NEW s, Good(s), Single(s.levels)
    PROVE  Single(JobClear(s).levels)
  <1> DEFINE ls == s.levels
             lv == [ls[1] EXCEPT !.list = <<>>]
             ms == [ls EXCEPT ![1] = lv]
             u  == [s EXCEPT !.levels = [@ EXCEPT ![1] = lv]]
  <1>1. ls \in Seq(Level) /\ Len(ls) \in Nat /\ 1 \in 1 .. Len(ls)
    BY DEF Good, Store
  <1>2. ls[1] \in Level /\ <<>> \in Seq(Node)
    BY <1>1, LevelType
  <1>3. lv \in Level /\ lv.list = <<>>
    BY <1>2 DEF Level
  <1>4. JobClear(s) = InitSavelist(u)
    BY DEF JobClear
  <1>5. u.levels = ms
    BY DEF Good, Store
  <1> HIDE DEF u
  <1>6. JobClear(s).levels = ms
    BY <1>4, <1>5 DEF InitSavelist
  <1> HIDE DEF lv
  <1>7. /\ ms \in Seq(Level) /\ Len(ms) = Len(ls) /\ ms[1] = lv
        /\ \A j \in 1 .. Len(ls) : j # 1 => ms[j] = ls[j]
    BY <1>1, <1>3, LevelSet
  <1> HIDE DEF ms, ls
  <1>8. \A j \in 1 .. Len(ls) : ms[j].list = ls[j].list \/ ms[j].list = <<>>
    BY <1>3, <1>7
  <1>9. Single(ls)
    BY DEF ls
  <1> QED
    BY <1>1, <1>6, <1>7, <1>8, <1>9, FewerSingle

\* The clearing that _sh_fork() makes before the next post.
LEMMA ClearedSingle ==
    ASSUME NEW s, Good(s), Single(s.levels)
    PROVE  Single(Cleared(s).levels)
  BY JobClearSingle DEF Cleared

\* A status is added only where there is none of its process ID.
LEMMA PrependSingle ==
    ASSUME NEW s, Good(s), Single(s.levels), NEW p \in Pids, NEW v \in Vals,
           Absent(s.levels, p)
    PROVE  Single(Prepend(s, p, v).levels)
  <1> DEFINE n == [pid |-> p, val |-> v]
             ls == s.levels
             l  == <<n>> \o ls[1].list
             lv == [ls[1] EXCEPT !.list = l]
             ms == [ls EXCEPT ![1] = lv]
  <1>1. ls \in Seq(Level) /\ Len(ls) \in Nat /\ 1 \in 1 .. Len(ls)
    BY DEF Good, Store
  <1>2. ls[1] \in Level /\ ls[1].list \in Seq(Node) /\ Len(ls[1].list) \in Nat
    BY <1>1, LevelType
  <1>3. <<n>> \in Seq(Node) /\ Len(<<n>>) = 1 /\ <<n>>[1] = n /\ n.pid = p
    BY DEF Node
  <1>4. Prepend(s, p, v).levels = ms
    BY DEF Prepend, Good, Store
  <1> HIDE DEF n
  <1>5. /\ l \in Seq(Node) /\ Len(l) = 1 + Len(ls[1].list)
        /\ \A i \in 1 .. 1 + Len(ls[1].list) :
              l[i] = IF i <= 1 THEN <<n>>[i] ELSE ls[1].list[i - 1]
    BY <1>2, <1>3, ConcatProperties
  <1>6. /\ l[1].pid = p
        /\ \A i \in 2 .. Len(l) : l[i] = ls[1].list[i - 1]
    BY <1>2, <1>3, <1>5
  <1> HIDE DEF l
  <1>7. lv \in Level /\ lv.list = l
    BY <1>2, <1>5 DEF Level
  <1> HIDE DEF lv
  <1>8. /\ Len(ms) = Len(ls) /\ ms[1] = lv
        /\ \A j \in 1 .. Len(ls) : j # 1 => ms[j] = ls[j]
    BY <1>1, <1>7, LevelSet
  <1>9. Single(ls) /\ Absent(ls, p)
    OBVIOUS
  <1> HIDE DEF ms, ls
  <1> DEFINE was(j, i) == IF j = 1 THEN i - 1 ELSE i
  <1>10. ASSUME NEW j \in 1 .. Len(ms), NEW i \in 1 .. Len(ms[j].list)
         PROVE  \/ j = 1 /\ i = 1 /\ ms[j].list[i].pid = p
                \/ /\ j \in 1 .. Len(ls) /\ was(j, i) \in 1 .. Len(ls[j].list)
                   /\ ms[j].list[i] = ls[j].list[was(j, i)]
                   /\ ms[j].list[i].pid # p
    <2>1. CASE j = 1 /\ i = 1
      BY <2>1, <1>6, <1>7, <1>8
    <2>2. CASE j = 1 /\ i # 1
      <3>1. ms[j].list = l /\ i \in 2 .. Len(l) /\ i - 1 \in 1 .. Len(ls[1].list)
        BY <2>2, <1>2, <1>5, <1>7, <1>8
      <3>2. ms[j].list[i] = ls[j].list[was(j, i)] /\ was(j, i) \in 1 .. Len(ls[j].list)
        BY <2>2, <3>1, <1>6
      <3> QED
        BY <2>2, <3>2, <1>1, <1>9 DEF Absent
    <2>3. CASE j # 1
      BY <2>3, <1>8, <1>9 DEF Absent
    <2> QED
      BY <2>1, <2>2, <2>3
  <1>11. \A j : \A g, h \in Nat : was(j, g) = was(j, h) => g = h
    OBVIOUS
  <1> HIDE DEF was
  <1>12. Single(ms)
    <2> SUFFICES ASSUME NEW j \in 1 .. Len(ms), NEW k \in 1 .. Len(ms),
                        NEW g \in 1 .. Len(ms[j].list), NEW h \in 1 .. Len(ms[k].list),
                        ms[j].list[g].pid = ms[k].list[h].pid
                 PROVE  j = k /\ g = h
      BY DEF Single
    <2>1. CASE ms[j].list[g].pid = p
      <3>1. j = 1 /\ g = 1
        BY <2>1, <1>10
      <3>2. k = 1 /\ h = 1
        BY <2>1, <1>10
      <3> QED
        BY <3>1, <3>2
    <2>2. CASE ms[j].list[g].pid # p
      <3> DEFINE x == was(j, g)
                 y == was(k, h)
      <3>1. /\ j \in 1 .. Len(ls) /\ x \in 1 .. Len(ls[j].list)
            /\ ms[j].list[g] = ls[j].list[x]
        BY <2>2, <1>10
      <3>2. /\ k \in 1 .. Len(ls) /\ y \in 1 .. Len(ls[k].list)
            /\ ms[k].list[h] = ls[k].list[y]
        BY <2>2, <1>10
      <3> HIDE DEF x, y
      <3>3. ls[j].list[x].pid = ls[k].list[y].pid
        BY <3>1, <3>2
      <3>4. j = k /\ x = y
        BY <3>1, <3>2, <3>3, <1>9, SameNode
      <3> QED
        BY <3>4, <1>11 DEF x, y
    <2> QED
      BY <2>1, <2>2
  <1> QED
    BY <1>4, <1>12

\* jobsave_create() drops an older status of the same process ID first.
LEMMA JobsaveCreateSingle ==
    ASSUME NEW s, Good(s), Single(s.levels), NEW p \in Pids, NEW v \in Vals
    PROVE  Single(JobsaveCreate(s, p, v).levels)
  <1> DEFINE a == ChkSave(s, p)
             b == CountUp(a)
             c == Evict(b)
             d == TakeNode(s, c)
  <1>1. Good(a) /\ s.nfree <= a.nfree /\ Single(a.levels) /\ Absent(a.levels, p)
    BY ChkSaveGood, ChkSaveSingle, ConstantsAssumption
  <1> HIDE DEF a
  <1>2. /\ Good(b) /\ Slack(b) /\ b.nfree = a.nfree
        /\ Single(b.levels) /\ Absent(b.levels, p)
    BY <1>1, CountUpGood, CountUpSingle
  <1> HIDE DEF b
  <1>3. Good(c) /\ Slack(c) /\ b.nfree <= c.nfree
    BY <1>2, EvictGood
  <1>4. Single(c.levels) /\ Absent(c.levels, p)
    BY <1>2, ChkSaveSingle DEF Evict
  <1> HIDE DEF c
  <1>5. s.nfree \in Int /\ a.nfree \in Int /\ c.nfree \in Int
    BY <1>1, <1>3 DEF Good, Store
  <1>6. s.nfree <= c.nfree
    BY <1>1, <1>2, <1>3, <1>5
  <1>7. Good(d)
    BY <1>3, <1>6, TakeNodeGood
  <1>8. d.levels = c.levels
    BY DEF TakeNode
  <1> HIDE DEF d
  <1>9. JobsaveCreate(s, p, v) = Prepend(d, p, v)
    BY DEF JobsaveCreate, a, b, c, d
  <1> QED
    BY <1>4, <1>7, <1>8, <1>9, PrependSingle

\* init_savelist() touches no list.
LEMMA InitSavelistSingle ==
    ASSUME NEW s
    PROVE  InitSavelist(s).levels = s.levels
  BY DEF InitSavelist

\* job_subrestore(): the nodes of the two joined lists are those of two levels.
LEMMA JoinSingle ==
    ASSUME NEW ls \in Seq(Level), Single(ls), Len(ls) >= 2
    PROVE  Single(<<[count |-> ls[1].count + ls[2].count,
                     list  |-> ls[1].list \o ls[2].list]>> \o SubSeq(ls, 3, Len(ls)))
  <1> DEFINE l  == ls[1].list \o ls[2].list
             j1 == [count |-> ls[1].count + ls[2].count, list |-> l]
             r  == SubSeq(ls, 3, Len(ls))
             ms == <<j1>> \o r
             n  == Len(ls[1].list)
  <1>1. Len(ls) \in Nat /\ 1 \in 1 .. Len(ls) /\ 2 \in 1 .. Len(ls)
    OBVIOUS
  <1>2. /\ ls[1].count \in Int /\ ls[2].count \in Int
        /\ ls[1].list \in Seq(Node) /\ ls[2].list \in Seq(Node)
        /\ n \in Nat /\ Len(ls[2].list) \in Nat
    BY <1>1, LevelType
  <1>3. /\ l \in Seq(Node) /\ Len(l) = n + Len(ls[2].list)
        /\ \A i \in 1 .. n + Len(ls[2].list) :
              l[i] = IF i <= n THEN ls[1].list[i] ELSE ls[2].list[i - n]
    BY <1>2, ConcatProperties
  <1> HIDE DEF l
  <1>4. j1 \in Level /\ j1.list = l
    BY <1>2, <1>3 DEF Level
  <1> HIDE DEF j1
  <1>5. r \in Seq(Level) /\ Len(r) = Len(ls) - 2 /\ \A i \in 1 .. Len(ls) - 2 : r[i] = ls[i + 2]
    BY RestLevels
  <1> HIDE DEF r
  <1>6. <<j1>> \in Seq(Level) /\ Len(<<j1>>) = 1 /\ <<j1>>[1] = j1
    BY <1>4
  <1>7. /\ Len(ms) = 1 + Len(r)
        /\ \A i \in 1 .. 1 + Len(r) : ms[i] = IF i <= 1 THEN <<j1>>[i] ELSE r[i - 1]
    BY <1>5, <1>6, ConcatProperties
  <1> HIDE DEF ms
  <1>8. Len(ms) = Len(ls) - 1 /\ ms[1] = j1
    BY <1>1, <1>5, <1>6, <1>7
  <1>9. \A k \in 2 .. Len(ms) : ms[k] = ls[k + 1]
    <2> SUFFICES ASSUME NEW k \in 2 .. Len(ms)
                 PROVE  ms[k] = ls[k + 1]
      OBVIOUS
    <2>1. k - 1 \in 1 .. Len(ls) - 2 /\ (k - 1) + 2 = k + 1
      BY <1>1, <1>8
    <2>2. ms[k] = r[k - 1]
      BY <1>1, <1>5, <1>7, <1>8
    <2>3. r[k - 1] = ls[(k - 1) + 2]
      BY <2>1, <1>5
    <2> QED
      BY <2>1, <2>2, <2>3
  <1> DEFINE lev(k, i) == IF k = 1 /\ i <= n THEN 1 ELSE k + 1
             pos(k, i) == IF k = 1 /\ ~(i <= n) THEN i - n ELSE i
  <1> HIDE DEF n
  <1>10. ASSUME NEW k \in 1 .. Len(ms), NEW i \in 1 .. Len(ms[k].list)
         PROVE  /\ lev(k, i) \in 1 .. Len(ls)
                /\ pos(k, i) \in 1 .. Len(ls[lev(k, i)].list)
                /\ ms[k].list[i] = ls[lev(k, i)].list[pos(k, i)]
    <2>1. CASE k = 1
      <3>1. ms[k].list = l /\ i \in 1 .. n + Len(ls[2].list)
        BY <2>1, <1>3, <1>4, <1>8
      <3>2. CASE i <= n
        <4>1. i \in 1 .. n /\ l[i] = ls[1].list[i]
          BY <3>1, <3>2, <1>2, <1>3
        <4>2. lev(k, i) = 1 /\ pos(k, i) = i
          BY <2>1, <3>2
        <4> HIDE DEF lev, pos
        <4>3. i \in 1 .. Len(ls[1].list)
          BY <4>1 DEF n
        <4> QED
          BY <3>1, <4>1, <4>2, <4>3, <1>1
      <3>3. CASE ~(i <= n)
        <4>1. i - n \in 1 .. Len(ls[2].list) /\ l[i] = ls[2].list[i - n]
          <5>1. i \in Nat /\ n < i /\ i <= n + Len(ls[2].list)
            BY <3>1, <3>3, <1>2, <1>3
          <5>2. i - n \in 1 .. Len(ls[2].list)
            <6>1. n \in Nat /\ Len(ls[2].list) \in Nat
              BY <1>2, <1>3
            <6> QED
              BY <5>1, <6>1
          <5>3. l[i] = ls[2].list[i - n]
            BY <3>1, <3>3, <1>3
          <5> QED
            BY <5>2, <5>3
        <4>2. lev(k, i) = 2 /\ pos(k, i) = i - n
          BY <2>1, <3>3
        <4> HIDE DEF lev, pos
        <4> QED
          BY <3>1, <4>1, <4>2, <1>1
      <3> QED
        BY <3>2, <3>3
    <2>2. CASE k # 1
      <3>1. ms[k] = ls[k + 1] /\ k + 1 \in 1 .. Len(ls)
        BY <2>2, <1>1, <1>8, <1>9
      <3>2. lev(k, i) = k + 1 /\ pos(k, i) = i
        BY <2>2
      <3> HIDE DEF lev, pos
      <3> QED
        BY <3>1, <3>2
    <2> QED
      BY <2>1, <2>2
  <1>11. ASSUME NEW j \in Nat \ {0}, NEW k \in Nat \ {0},
                NEW g \in Nat \ {0}, NEW h \in Nat \ {0},
                lev(j, g) = lev(k, h), pos(j, g) = pos(k, h)
         PROVE  j = k /\ g = h
    BY <1>2, <1>11
  <1> HIDE DEF lev, pos
  <1>12. Single(ms)
    <2> SUFFICES ASSUME NEW j \in 1 .. Len(ms), NEW k \in 1 .. Len(ms),
                        NEW g \in 1 .. Len(ms[j].list), NEW h \in 1 .. Len(ms[k].list),
                        ms[j].list[g].pid = ms[k].list[h].pid
                 PROVE  j = k /\ g = h
      BY DEF Single
    <2>0. PICK a, b, x, y : a = lev(j, g) /\ b = lev(k, h) /\ x = pos(j, g) /\ y = pos(k, h)
      OBVIOUS
    <2>1. /\ a \in 1 .. Len(ls) /\ x \in 1 .. Len(ls[a].list)
          /\ ms[j].list[g] = ls[a].list[x]
      BY <2>0, <1>10
    <2>2. /\ b \in 1 .. Len(ls) /\ y \in 1 .. Len(ls[b].list)
          /\ ms[k].list[h] = ls[b].list[y]
      BY <2>0, <1>10
    <2>3. ls[a].list[x].pid = ls[b].list[y].pid
      BY <2>1, <2>2
    <2>4. a = b /\ x = y
      <3>1. a \in 1 .. Len(ls) /\ b \in 1 .. Len(ls) /\ x \in 1 .. Len(ls[a].list) /\ y \in 1 .. Len(ls[b].list)
        BY <2>1, <2>2
      <3> QED
        BY <2>3, <3>1, SameNode
    <2>5. /\ j \in Nat \ {0} /\ k \in Nat \ {0} /\ g \in Nat \ {0} /\ h \in Nat \ {0}
      OBVIOUS
    <2> QED
      BY <2>0, <2>4, <2>5, <1>11
  <1> QED
    BY <1>12 DEF ms, r, j1, l

\* A new level adds no status.
LEMMA PushSingle ==
    ASSUME NEW ls \in Seq(Level), Single(ls)
    PROVE  Single(<<[count |-> 0, list |-> <<>>]>> \o ls)
  <1> DEFINE j1 == [count |-> 0, list |-> <<>>]
             ms == <<j1>> \o ls
  <1>1. <<>> \in Seq(Node) /\ Len(<<>>) = 0 /\ Len(ls) \in Nat
    OBVIOUS
  <1>2. j1 \in Level /\ j1.list = <<>>
    BY <1>1 DEF Level
  <1> HIDE DEF j1
  <1>3. <<j1>> \in Seq(Level) /\ Len(<<j1>>) = 1 /\ <<j1>>[1] = j1
    BY <1>2
  <1>4. /\ Len(ms) = 1 + Len(ls)
        /\ \A i \in 1 .. 1 + Len(ls) : ms[i] = IF i <= 1 THEN <<j1>>[i] ELSE ls[i - 1]
    BY <1>3, ConcatProperties
  <1> HIDE DEF ms
  <1>5. ms[1] = j1 /\ \A k \in 2 .. Len(ms) : k - 1 \in 1 .. Len(ls) /\ ms[k] = ls[k - 1]
    BY <1>1, <1>3, <1>4
  <1>6. Single(ms)
    <2> SUFFICES ASSUME NEW j \in 1 .. Len(ms), NEW k \in 1 .. Len(ms),
                        NEW g \in 1 .. Len(ms[j].list), NEW h \in 1 .. Len(ms[k].list),
                        ms[j].list[g].pid = ms[k].list[h].pid
                 PROVE  j = k /\ g = h
      BY DEF Single
    <2>1. j # 1 /\ k # 1
      BY <1>1, <1>2, <1>5
    <2>2. j \in 2 .. Len(ms) /\ k \in 2 .. Len(ms)
      BY <2>1, <1>1, <1>4
    <2>3. /\ j - 1 \in 1 .. Len(ls) /\ ms[j] = ls[j - 1]
          /\ k - 1 \in 1 .. Len(ls) /\ ms[k] = ls[k - 1]
      BY <2>2, <1>5
    <2> DEFINE a == j - 1
               b == k - 1
    <2>4. ls[a].list[g].pid = ls[b].list[h].pid
      BY <2>3
    <2>5. /\ a \in 1 .. Len(ls) /\ g \in 1 .. Len(ls[a].list)
          /\ b \in 1 .. Len(ls) /\ h \in 1 .. Len(ls[b].list)
      BY <2>3
    <2> HIDE DEF a, b
    <2>6. a = b /\ g = h
      BY <2>4, <2>5, SameNode
    <2> QED
      BY <2>6 DEF a, b
  <1> QED
    BY <1>6 DEF ms, j1

\* Every step keeps one status of a process ID.
LEMMA SingleStep ==
    ASSUME IInv, Single(levels), [Next]_vars
    PROVE  Single(levels')
  <1>0. /\ Good(Store0) /\ Single(Store0.levels) /\ levels \in Seq(Level)
        /\ Store0.levels = levels
    BY DEF Store0, IInv, TypeOK
  <1>1. ASSUME NEW p \in Pids, Post(p)
        PROVE  Single(levels')
    <2> DEFINE a == Cleared(Store0)
               b == InitSavelist(a)
    <2>1. Good(a) /\ Single(a.levels)
      BY <1>0, ClearedGood, ClearedSingle
    <2> HIDE DEF a
    <2>2. Good(b) /\ Single(b.levels)
      BY <2>1, InitSavelistGood, InitSavelistSingle
    <2> HIDE DEF b
    <2>3. levels' = ChkSave(b, p).levels
      BY <1>1 DEF Post, SetStore, a, b
    <2> QED
      BY <2>2, <2>3, ChkSaveSingle
  <1>2. ASSUME NEW p \in Pids, Wait(p)
        PROVE  Single(levels')
    BY <1>0, <1>2, ChkSaveSingle DEF Wait, SetStore
  <1>3. ASSUME NEW p \in Pids, NEW v \in Vals, Unpost(p, v)
        PROVE  Single(levels')
    BY <1>0, <1>3, JobsaveCreateSingle DEF Unpost, SetStore
  <1>4. ASSUME NEW p \in Pids, NEW v \in Vals, ReapUnknown(p, v)
        PROVE  Single(levels')
    <2> DEFINE a == IF v = 0 THEN ChkSave(Store0, p) ELSE Store0
               b == Cleared(a)
    <2>1. Good(a) /\ Single(a.levels)
      BY <1>0, ChkSaveGood, ChkSaveSingle
    <2> HIDE DEF a
    <2>2. Good(b) /\ Single(b.levels)
      BY <2>1, ClearedGood, ClearedSingle
    <2> HIDE DEF b
    <2>3. levels' = JobsaveCreate(b, p, v).levels
      BY <1>4 DEF ReapUnknown, SetStore, a, b
    <2> QED
      BY <2>2, <2>3, JobsaveCreateSingle
  <1>5. CASE SubSave
    BY <1>0, <1>5, PushSingle DEF SubSave
  <1>6. CASE SubRestore
    <2>1. Len(levels) >= 2
      BY <1>6 DEF SubRestore, IInv, TypeOK
    <2> QED
      BY <1>0, <1>6, <2>1, JoinSingle DEF SubRestore
  <1>7. CASE SubRestoreEvict
    BY <1>0, <1>7, ChkSaveSingle DEF SubRestoreEvict, SetStore
  <1>8. CASE ClearTable
    BY <1>0, <1>8, JobClearSingle DEF ClearTable, SetStore
  <1>9. ASSUME UNCHANGED levels
        PROVE  Single(levels')
    BY <1>9, <1>0
  <1>10. \A p \in Pids : UnpostWaited(p) => UNCHANGED levels
    BY DEF UnpostWaited
  <1>11. (SubRestoreUnpost \/ SubRestoreEnd \/ ForkChild \/ UNCHANGED vars) => UNCHANGED levels
    BY DEF SubRestoreUnpost, SubRestoreEnd, ForkChild, vars
  <1> QED
    BY <1>1, <1>2, <1>3, <1>4, <1>5, <1>6, <1>7, <1>8, <1>9, <1>10, <1>11 DEF Next

\* The chain of lists never has two statuses of one process ID, whatever is
\* reaped, joined or inherited: a wait for it cannot find an older process's.
THEOREM NoStaleStatus == Spec => []OneStatusPerPid
  <1>1. Init => IInv /\ Single(levels)
    <2>1. SUFFICES ASSUME Init
                   PROVE  Single(levels)
      BY InitOK
    <2>2. levels = <<[count |-> 0, list |-> <<>>]>>
      BY <2>1 DEF Init
    <2>3. Len(levels) = 1 /\ levels[1].list = <<>>
      BY <2>2
    <2> QED
      BY <2>3 DEF Single
  <1>2. IInv /\ Single(levels) /\ [Next]_vars => IInv' /\ Single(levels')
    BY StepOK, SingleStep
  <1>3. Single(levels) => OneStatusPerPid
    BY DEF Single, OneStatusPerPid
  <1>4. Single(levels)' <=> Single(levels')
    BY DEF Single
  <1>5. IInv /\ Single(levels) /\ [Next]_vars => (IInv /\ Single(levels))'
    BY <1>2, <1>4
  <1> QED
    BY <1>1, <1>3, <1>5, PTL DEF Spec

----------------------------------------------------------------------------
(* The chain of lists as one memory.                                       *)

\* A node of a chain is at a level and a place in its list.
LEMMA PlacesAre ==
    ASSUME NEW ls \in Seq(Level)
    PROVE  /\ \A k \in 1 .. Len(ls) : \A i \in 1 .. Len(ls[k].list) :
                 <<k, i>> \in Places(ls) /\ NodeAt(ls, <<k, i>>) = ls[k].list[i]
           /\ \A x \in Places(ls) :
                 /\ x = <<x[1], x[2]>> /\ x[1] \in 1 .. Len(ls) /\ x[2] \in 1 .. Len(ls[x[1]].list)
                 /\ x[1] \in Nat /\ x[2] \in Nat /\ NodeAt(ls, x) \in Node
  <1>1. ASSUME NEW k \in 1 .. Len(ls), NEW i \in 1 .. Len(ls[k].list)
        PROVE  <<k, i>> \in Places(ls) /\ NodeAt(ls, <<k, i>>) = ls[k].list[i]
    BY DEF Places, NodeAt
  <1>2. ASSUME NEW x \in Places(ls)
        PROVE  /\ x = <<x[1], x[2]>> /\ x[1] \in 1 .. Len(ls)
               /\ x[2] \in 1 .. Len(ls[x[1]].list)
               /\ x[1] \in Nat /\ x[2] \in Nat /\ NodeAt(ls, x) \in Node
    <2>1. PICK k \in 1 .. Len(ls) : \E i \in 1 .. Len(ls[k].list) : x = <<k, i>>
      BY DEF Places
    <2>2. PICK i \in 1 .. Len(ls[k].list) : x = <<k, i>>
      BY <2>1
    <2>3. ls[k].list \in Seq(Node)
      BY LevelType
    <2>4. ls[k].list[i] \in Node
      BY <2>3, ElementOfSeq
    <2> QED
      BY <2>2, <2>4 DEF NodeAt
  <1> QED
    BY <1>1, <1>2

\* A chain ms that is ls without the nodes of some process IDs, in the same order.
LEMMA Thinned ==
    ASSUME NEW ls \in Seq(Level), NEW ms \in Seq(Level), NEW F,
           NEW to \in [Places(ms) -> Places(ls)],
           \A x \in Places(ms) : NodeAt(ms, x) = NodeAt(ls, to[x]) /\ NodeAt(ms, x).pid \notin F,
           \A x, y \in Places(ms) : Ahead(x, y) <=> Ahead(to[x], to[y]),
           \A z \in Places(ls) : NodeAt(ls, z).pid \notin F => \E x \in Places(ms) : to[x] = z
    PROVE  /\ Known(ms) = Memory!Without(Known(ls), F)
           /\ Newer(ms) = Memory!Among(Newer(ls), F)
  <1>1. \A x \in Places(ms) : to[x] \in Places(ls)
    OBVIOUS
  <1>2. Known(ms) = Memory!Without(Known(ls), F)
    BY <1>1 DEF Known, Memory!Without
  <1>3. ASSUME NEW w \in Newer(ms)
        PROVE  w \in Memory!Among(Newer(ls), F)
    <2>1. PICK z \in Places(ms) \X Places(ms) :
             Ahead(z[1], z[2]) /\ w = <<NodeAt(ms, z[1]).pid, NodeAt(ms, z[2]).pid>>
      BY DEF Newer
    <2> DEFINE x == z[1]
               y == z[2]
    <2>2. x \in Places(ms) /\ y \in Places(ms)
      BY <2>1
    <2>3. Ahead(x, y) /\ w = <<NodeAt(ms, x).pid, NodeAt(ms, y).pid>>
      BY <2>1
    <2> HIDE DEF x, y
    <2> DEFINE u == <<to[x], to[y]>>
    <2>4. u \in Places(ls) \X Places(ls) /\ Ahead(u[1], u[2])
      BY <1>1, <2>2, <2>3
    <2>5. w = <<NodeAt(ls, u[1]).pid, NodeAt(ls, u[2]).pid>>
      BY <2>2, <2>3
    <2>6. w \in Newer(ls)
      BY <2>4, <2>5 DEF Newer
    <2>7. w[1] \notin F /\ w[2] \notin F
      BY <2>2, <2>3
    <2> QED
      BY <2>6, <2>7 DEF Memory!Among
  <1>4. ASSUME NEW w \in Memory!Among(Newer(ls), F)
        PROVE  w \in Newer(ms)
    <2>1. w \in Newer(ls) /\ w[1] \notin F /\ w[2] \notin F
      BY DEF Memory!Among
    <2>2. PICK z \in Places(ls) \X Places(ls) :
             Ahead(z[1], z[2]) /\ w = <<NodeAt(ls, z[1]).pid, NodeAt(ls, z[2]).pid>>
      BY <2>1 DEF Newer
    <2>3. z[1] \in Places(ls) /\ NodeAt(ls, z[1]).pid \notin F
      BY <2>1, <2>2
    <2>4. z[2] \in Places(ls) /\ NodeAt(ls, z[2]).pid \notin F
      BY <2>1, <2>2
    <2>5. PICK x \in Places(ms) : to[x] = z[1]
      BY <2>3
    <2>6. PICK y \in Places(ms) : to[y] = z[2]
      BY <2>4
    <2> DEFINE u == <<x, y>>
    <2>7. u \in Places(ms) \X Places(ms) /\ Ahead(u[1], u[2])
      BY <2>2, <2>5, <2>6
    <2>8. w = <<NodeAt(ms, u[1]).pid, NodeAt(ms, u[2]).pid>>
      BY <2>2, <2>5, <2>6
    <2> QED
      BY <2>7, <2>8 DEF Newer
  <1> QED
    BY <1>2, <1>3, <1>4

\* Only the lists count.
LEMMA SameMemory ==
    ASSUME NEW ls \in Seq(Level), NEW ms \in Seq(Level), Len(ms) = Len(ls),
           \A k \in 1 .. Len(ls) : ms[k].list = ls[k].list
    PROVE  Known(ms) = Known(ls) /\ Newer(ms) = Newer(ls)
  <1>1. Places(ms) = Places(ls)
    BY DEF Places
  <1>2. \A x \in Places(ls) : NodeAt(ms, x) = NodeAt(ls, x)
    BY PlacesAre DEF NodeAt
  <1>3. Known(ms) = Known(ls)
    BY <1>1, <1>2 DEF Known
  <1>4. \A z \in Places(ls) \X Places(ls) :
           NodeAt(ms, z[1]) = NodeAt(ls, z[1]) /\ NodeAt(ms, z[2]) = NodeAt(ls, z[2])
    BY <1>2
  <1> QED
    BY <1>1, <1>3, <1>4 DEF Newer

\* Taking a node off its list forgets the status of its process ID only.
LEMMA UnlinkMemory ==
    ASSUME NEW s, Good(s), Single(s.levels), NEW k \in 1 .. Len(s.levels),
           NEW i \in 1 .. Len(s.levels[k].list)
    PROVE  LET F == {s.levels[k].list[i].pid} IN
           /\ Known(Unlink(s, k, i).levels) = Memory!Without(Known(s.levels), F)
           /\ Newer(Unlink(s, k, i).levels) = Memory!Among(Newer(s.levels), F)
  <1> DEFINE ls == s.levels
             l  == RemoveAt(ls[k].list, i)
             lv == [count |-> ls[k].count - 1, list |-> l]
             ms == [ls EXCEPT ![k] = lv]
             F  == {ls[k].list[i].pid}
             up(x) == IF x[1] = k /\ ~(x[2] < i) THEN <<x[1], x[2] + 1>> ELSE x
             to == [x \in Places(ms) |-> up(x)]
  <1>1. ls \in Seq(Level) /\ Len(ls) \in Nat
    BY DEF Good, Store
  <1>2. /\ ls[k].count \in Int /\ ls[k].list \in Seq(Node)
        /\ Len(ls[k].list) \in Nat
    BY <1>1, LevelType
  <1>3. /\ l \in Seq(Node) /\ Len(l) = Len(ls[k].list) - 1
        /\ \A h \in 1 .. Len(ls[k].list) - 1 :
              /\ h < i => l[h] = ls[k].list[h]
              /\ ~(h < i) => l[h] = ls[k].list[h + 1]
    BY <1>2, RemoveOne, RemoveElements
  <1> HIDE DEF l
  <1>4. lv \in Level /\ lv.list = l
    BY <1>2, <1>3 DEF Level
  <1> HIDE DEF lv
  <1>5. /\ Len(ms) = Len(ls) /\ ms[k] = lv /\ ms \in Seq(Level)
        /\ \A j \in 1 .. Len(ls) : j # k => ms[j] = ls[j]
    BY <1>1, <1>4, LevelSet
  <1>6. Unlink(s, k, i).levels = ms
    BY DEF Unlink, lv, l
  <1>7. /\ Single(ls) /\ k \in 1 .. Len(ls) /\ i \in 1 .. Len(ls[k].list) /\ i \in Nat
    BY <1>2
  <1> HIDE DEF ms, ls
  <1>8. ASSUME NEW x \in Places(ms)
        PROVE  /\ up(x) \in Places(ls) /\ NodeAt(ms, x) = NodeAt(ls, up(x))
               /\ NodeAt(ms, x).pid \notin F
    <2>1. /\ x = <<x[1], x[2]>> /\ x[1] \in 1 .. Len(ls) /\ x[2] \in 1 .. Len(ms[x[1]].list)
          /\ x[2] \in Nat
      BY <1>5, PlacesAre
    <2>2. CASE x[1] = k
      <3>1. x[2] \in 1 .. Len(ls[k].list) - 1 /\ NodeAt(ms, x) = l[x[2]]
        BY <2>1, <2>2, <1>2, <1>3, <1>4, <1>5 DEF NodeAt
      <3> DEFINE h == IF x[2] < i THEN x[2] ELSE x[2] + 1
      <3>2. h \in 1 .. Len(ls[k].list) /\ h # i
        BY <3>1, <1>2, <1>7
      <3>3. l[x[2]] = ls[k].list[h]
        BY <3>1, <1>3
      <3>4. up(x) = <<k, h>>
        BY <2>1, <2>2
      <3> HIDE DEF h, up
      <3>5. <<k, h>> \in Places(ls) /\ NodeAt(ls, <<k, h>>) = ls[k].list[h]
        BY <3>2, <1>1, <1>7, PlacesAre
      <3>6. ls[k].list[h].pid # ls[k].list[i].pid
        BY <3>2, <1>1, <1>5, <1>7, SameNode
      <3> QED
        BY <3>1, <3>3, <3>4, <3>5, <3>6
    <2>3. CASE x[1] # k
      <3>1. up(x) = x /\ ms[x[1]] = ls[x[1]]
        BY <2>1, <2>3, <1>5
      <3> HIDE DEF up
      <3>2. x \in Places(ls) /\ NodeAt(ls, x) = ls[x[1]].list[x[2]]
        BY <2>1, <3>1, <1>1, PlacesAre
      <3>3. NodeAt(ms, x) = NodeAt(ls, x)
        BY <3>1 DEF NodeAt
      <3>4. ls[x[1]].list[x[2]].pid # ls[k].list[i].pid
        BY <2>1, <2>3, <3>1, <1>7, SameNode
      <3> QED
        BY <3>1, <3>2, <3>3, <3>4
    <2> QED
      BY <2>2, <2>3
  <1>9. ASSUME NEW x \in Places(ms), NEW y \in Places(ms)
        PROVE  Ahead(x, y) <=> Ahead(up(x), up(y))
    <2>1. /\ x[1] \in Nat /\ x[2] \in Nat /\ y[1] \in Nat /\ y[2] \in Nat /\ i \in Nat
      BY <1>2, <1>5, PlacesAre
    <2> DEFINE g == IF x[1] = k /\ ~(x[2] < i) THEN x[2] + 1 ELSE x[2]
               h == IF y[1] = k /\ ~(y[2] < i) THEN y[2] + 1 ELSE y[2]
    <2>2. up(x)[1] = x[1] /\ up(x)[2] = g
      OBVIOUS
    <2>3. up(y)[1] = y[1] /\ up(y)[2] = h
      OBVIOUS
    <2>4. x[1] = y[1] => (x[2] < y[2] <=> g < h)
      BY <2>1
    <2> HIDE DEF up, g, h
    <2> QED
      BY <2>2, <2>3, <2>4 DEF Ahead
  <1>10. ASSUME NEW z \in Places(ls), NodeAt(ls, z).pid \notin F
         PROVE  \E x \in Places(ms) : up(x) = z
    <2>1. /\ z = <<z[1], z[2]>> /\ z[1] \in 1 .. Len(ms) /\ z[2] \in 1 .. Len(ls[z[1]].list)
          /\ z[2] \in Nat
      BY <1>1, <1>5, PlacesAre
    <2>2. CASE z[1] = k
      <3> DEFINE h == IF z[2] < i THEN z[2] ELSE z[2] - 1
      <3>1. z[2] # i
        BY <2>2, <1>10 DEF NodeAt
      <3>2. h \in 1 .. Len(l) /\ (~(h < i) => h + 1 = z[2]) /\ (h < i => h = z[2])
        <4>1. z[2] \in Nat /\ i \in Nat /\ z[2] # i /\ 1 <= z[2] /\ 1 <= i
          BY <2>1, <3>1, <1>7
        <4>2. z[2] <= Len(ls[k].list) /\ i <= Len(ls[k].list) /\ Len(ls[k].list) \in Nat
          BY <2>1, <2>2, <1>2, <1>7
        <4>3. Len(l) = Len(ls[k].list) - 1
          BY <1>3
        <4>4. CASE z[2] < i
          BY <4>1, <4>2, <4>3, <4>4
        <4>5. CASE ~(z[2] < i)
          BY <4>1, <4>2, <4>3, <4>5
        <4> QED
          BY <4>4, <4>5
      <3> HIDE DEF h
      <3>3. k \in 1 .. Len(ms) /\ h \in 1 .. Len(ms[k].list)
        BY <2>1, <2>2, <3>2, <1>4, <1>5
      <3>4. <<k, h>> \in Places(ms)
        BY <3>3, <1>5, PlacesAre
      <3>5. up(<<k, h>>) = z
        BY <2>1, <2>2, <3>2
      <3> QED
        BY <3>4, <3>5
    <2>3. CASE z[1] # k
      <3>1. ms[z[1]] = ls[z[1]]
        BY <2>1, <2>3, <1>5
      <3>2. <<z[1], z[2]>> \in Places(ms)
        BY <2>1, <3>1, <1>5, PlacesAre
      <3>3. up(z) = z
        BY <2>3
      <3> QED
        BY <2>1, <3>2, <3>3
    <2> QED
      BY <2>2, <2>3
  <1> HIDE DEF up
  <1>11. to \in [Places(ms) -> Places(ls)] /\ \A x \in Places(ms) : to[x] = up(x)
    BY <1>8
  <1> HIDE DEF to, F
  <1>12. /\ \A x \in Places(ms) :
               NodeAt(ms, x) = NodeAt(ls, to[x]) /\ NodeAt(ms, x).pid \notin F
         /\ \A x, y \in Places(ms) : Ahead(x, y) <=> Ahead(to[x], to[y])
         /\ \A z \in Places(ls) : NodeAt(ls, z).pid \notin F => \E x \in Places(ms) : to[x] = z
    BY <1>8, <1>9, <1>10, <1>11
  <1>13. /\ Known(ms) = Memory!Without(Known(ls), F)
         /\ Newer(ms) = Memory!Among(Newer(ls), F)
    BY <1>1, <1>5, <1>11, <1>12, Thinned
  <1> QED
    BY <1>6, <1>13 DEF F, ls

\* What is known and not affected by forgetting what is not known.
LEMMA NothingThinned ==
    ASSUME NEW ls \in Seq(Level), NEW F, \A x \in Places(ls) : NodeAt(ls, x).pid \notin F
    PROVE  Memory!Without(Known(ls), F) = Known(ls) /\ Memory!Among(Newer(ls), F) = Newer(ls)
  <1>1. Memory!Without(Known(ls), F) = Known(ls)
    BY DEF Known, Memory!Without
  <1>2. ASSUME NEW w \in Newer(ls)
        PROVE  w[1] \notin F /\ w[2] \notin F
    <2>1. PICK z \in Places(ls) \X Places(ls) :
             w = <<NodeAt(ls, z[1]).pid, NodeAt(ls, z[2]).pid>>
      BY DEF Newer
    <2>2. z[1] \in Places(ls) /\ z[2] \in Places(ls)
      BY <2>1
    <2> QED
      BY <2>1, <2>2
  <1> QED
    BY <1>1, <1>2 DEF Memory!Among

\* Where job_chksave() stops: at a node of p, or at the end of the current list.
LEMMA StopsAt ==
    ASSUME NEW s, Good(s), NEW p \in Pids \cup {Oldest}, Hits(s, p) # {}
    PROVE  \E k \in 1 .. Len(s.levels) : \E i \in 1 .. Len(s.levels[k].list) :
              /\ ChkSave(s, p) = Unlink(s, k, i)
              /\ ChkSaveVal(s, p) = s.levels[k].list[i].val
              /\ p \in Pids => s.levels[k].list[i].pid = p
              /\ p = Oldest => k = 1 /\ i = Len(s.levels[1].list)
  <1> DEFINE k == Least(Hits(s, p))
             i == Least(Stops(s.levels[k], p))
  <1>1. s.levels \in Seq(Level) /\ Len(s.levels) \in Nat
    BY DEF Good, Store
  <1>2. Hits(s, p) \subseteq 1 .. Len(s.levels)
    BY DEF Hits
  <1>3. k \in Hits(s, p)
    BY <1>1, <1>2, LeastIn
  <1>4. k \in 1 .. Len(s.levels) /\ Stops(s.levels[k], p) # {} /\ (p = Oldest => k = 1)
    BY <1>3 DEF Hits
  <1>5. /\ ChkSave(s, p) = Unlink(s, k, i)
        /\ ChkSaveVal(s, p) = s.levels[k].list[i].val
    BY DEF ChkSave, ChkSaveVal, HitNode
  <1> HIDE DEF k
  <1>6. /\ s.levels[k].list \in Seq(Node) /\ Len(s.levels[k].list) \in Nat
        /\ s.levels[k].count \in Int
    BY <1>1, <1>4, LevelType
  <1>7. Stops(s.levels[k], p) \subseteq 1 .. Len(s.levels[k].list)
    BY DEF Stops
  <1>8. i \in Stops(s.levels[k], p)
    BY <1>4, <1>6, <1>7, LeastIn
  <1> HIDE DEF i
  <1>9. i \in 1 .. Len(s.levels[k].list)
    BY <1>7, <1>8
  <1>10. Len(s.levels[k].list) <= s.levels[k].count
    BY <1>4 DEF Good, Covered
  <1>11. ~ (i > s.levels[k].count)
    BY <1>6, <1>9, <1>10
  <1>12. s.levels[k].list[i].pid = p \/ (p = Oldest /\ i = Len(s.levels[k].list))
    BY <1>8, <1>11 DEF Stops
  <1>13. s.levels[k].list[i].pid \in Pids
    <2>1. s.levels[k].list[i] \in Node
      BY <1>6, <1>9, ElementOfSeq
    <2> QED
      BY <2>1 DEF Node
  <1>14. Oldest \notin Pids
    BY ConstantsAssumption
  <1> QED
    BY <1>4, <1>5, <1>9, <1>12, <1>13, <1>14

\* job_chksave() for a process ID forgets that and nothing else, and its answer
\* is the status that was known.
LEMMA ChkSaveMemory ==
    ASSUME NEW s, Good(s), Single(s.levels), NEW p \in Pids
    PROVE  /\ Known(ChkSave(s, p).levels) = Memory!Without(Known(s.levels), {p})
           /\ Newer(ChkSave(s, p).levels) = Memory!Among(Newer(s.levels), {p})
           /\ \/ \E e \in Known(s.levels) : e.pid = p /\ ChkSaveVal(s, p) = e.val
              \/ (\A e \in Known(s.levels) : e.pid # p) /\ ChkSaveVal(s, p) = Unknown
  <1>1. s.levels \in Seq(Level)
    BY DEF Good, Store
  <1>2. CASE Hits(s, p) = {}
    <2>1. \A k \in 1 .. Len(s.levels) : Stops(s.levels[k], p) = {}
      BY <1>2, ConstantsAssumption DEF Hits
    <2>2. \A k \in 1 .. Len(s.levels) : \A i \in 1 .. Len(s.levels[k].list) :
             s.levels[k].list[i].pid # p
      BY <2>1 DEF Stops
    <2>3. \A x \in Places(s.levels) : NodeAt(s.levels, x).pid \notin {p}
      BY <1>1, <2>2, PlacesAre DEF NodeAt
    <2>4. \A e \in Known(s.levels) : e.pid # p
      BY <2>3 DEF Known
    <2>5. ChkSave(s, p) = s /\ ChkSaveVal(s, p) = Unknown
      BY <1>2 DEF ChkSave, ChkSaveVal
    <2> QED
      BY <1>1, <2>3, <2>4, <2>5, NothingThinned
  <1>3. CASE Hits(s, p) # {}
    <2>0. PICK k \in 1 .. Len(s.levels) : \E i \in 1 .. Len(s.levels[k].list) :
              /\ ChkSave(s, p) = Unlink(s, k, i)
              /\ ChkSaveVal(s, p) = s.levels[k].list[i].val
              /\ s.levels[k].list[i].pid = p
      BY <1>3, StopsAt
    <2>1. PICK i \in 1 .. Len(s.levels[k].list) :
              /\ ChkSave(s, p) = Unlink(s, k, i)
              /\ ChkSaveVal(s, p) = s.levels[k].list[i].val
              /\ s.levels[k].list[i].pid = p
      BY <2>0
    <2>2. s.levels[k].list[i] \in Known(s.levels)
      BY <1>1, PlacesAre DEF Known
    <2>3. /\ Known(Unlink(s, k, i).levels) = Memory!Without(Known(s.levels), {s.levels[k].list[i].pid})
          /\ Newer(Unlink(s, k, i).levels) = Memory!Among(Newer(s.levels), {s.levels[k].list[i].pid})
      BY UnlinkMemory
    <2>4. /\ Known(ChkSave(s, p).levels) = Memory!Without(Known(s.levels), {p})
          /\ Newer(ChkSave(s, p).levels) = Memory!Among(Newer(s.levels), {p})
      BY <2>1, <2>3
    <2>5. \E e \in Known(s.levels) : e.pid = p /\ ChkSaveVal(s, p) = e.val
      BY <2>1, <2>2
    <2> QED
      BY <2>4, <2>5
  <1> QED
    BY <1>2, <1>3

\* The process ID of the last node of the current level, if it has any.
OldestPid(ls) == {ls[1].list[i].pid : i \in {Len(ls[1].list)} \ {0}}

\* job_chksave(0) forgets at most one status: the last one of the current level.
LEMMA OldestMemory ==
    ASSUME NEW s, Good(s), Single(s.levels)
    PROVE  \E F \in SUBSET OldestPid(s.levels) :
              /\ Known(ChkSave(s, Oldest).levels) = Memory!Without(Known(s.levels), F)
              /\ Newer(ChkSave(s, Oldest).levels) = Memory!Among(Newer(s.levels), F)
  <1>1. s.levels \in Seq(Level)
    BY DEF Good, Store
  <1>2. CASE Hits(s, Oldest) = {}
    <2>1. ChkSave(s, Oldest) = s
      BY <1>2 DEF ChkSave
    <2>2. \A x \in Places(s.levels) : NodeAt(s.levels, x).pid \notin {}
      OBVIOUS
    <2>3. /\ Memory!Without(Known(s.levels), {}) = Known(s.levels)
          /\ Memory!Among(Newer(s.levels), {}) = Newer(s.levels)
      BY <1>1, <2>2, NothingThinned
    <2> QED
      BY <2>1, <2>3
  <1>3. CASE Hits(s, Oldest) # {}
    <2>0. PICK k \in 1 .. Len(s.levels) : \E i \in 1 .. Len(s.levels[k].list) :
              ChkSave(s, Oldest) = Unlink(s, k, i) /\ k = 1 /\ i = Len(s.levels[1].list)
      BY <1>3, StopsAt
    <2>1. PICK i \in 1 .. Len(s.levels[k].list) :
              ChkSave(s, Oldest) = Unlink(s, k, i) /\ k = 1 /\ i = Len(s.levels[1].list)
      BY <2>0
    <2> DEFINE F == {s.levels[k].list[i].pid}
    <2>2. /\ Known(ChkSave(s, Oldest).levels) = Memory!Without(Known(s.levels), F)
          /\ Newer(ChkSave(s, Oldest).levels) = Memory!Among(Newer(s.levels), F)
      <3>1. /\ Known(Unlink(s, k, i).levels) = Memory!Without(Known(s.levels), F)
            /\ Newer(Unlink(s, k, i).levels) = Memory!Among(Newer(s.levels), F)
        BY UnlinkMemory
      <3> HIDE DEF F
      <3> QED
        BY <2>1, <3>1
    <2>3. F \subseteq OldestPid(s.levels)
      BY <2>1 DEF OldestPid
    <2> QED
      BY <2>2, <2>3
  <1> QED
    BY <1>2, <1>3

\* The new head of the current list is newer than all that is known.
LEMMA PrependMemory ==
    ASSUME NEW s, Good(s), NEW p \in Pids, NEW v \in Vals
    PROVE  /\ Known(Prepend(s, p, v).levels) = Known(s.levels) \cup {[pid |-> p, val |-> v]}
           /\ Newer(Prepend(s, p, v).levels) =
                 Newer(s.levels) \cup {<<p, e.pid>> : e \in Known(s.levels)}
  <1> DEFINE n  == [pid |-> p, val |-> v]
             ls == s.levels
             l  == <<n>> \o ls[1].list
             lv == [ls[1] EXCEPT !.list = l]
             ms == [ls EXCEPT ![1] = lv]
             up(x) == IF x[1] = 1 THEN <<1, x[2] + 1>> ELSE x
             head == <<1, 1>>
  <1>1. ls \in Seq(Level) /\ Len(ls) \in Nat /\ 1 \in 1 .. Len(ls)
    BY DEF Good, Store
  <1>2. ls[1] \in Level /\ ls[1].list \in Seq(Node) /\ Len(ls[1].list) \in Nat
    BY <1>1, LevelType
  <1>3. <<n>> \in Seq(Node) /\ Len(<<n>>) = 1 /\ <<n>>[1] = n /\ n.pid = p
    BY DEF Node
  <1>4. Prepend(s, p, v).levels = ms
    BY DEF Prepend, Good, Store
  <1> HIDE DEF n
  <1>5. /\ l \in Seq(Node) /\ Len(l) = 1 + Len(ls[1].list)
        /\ \A i \in 1 .. 1 + Len(ls[1].list) :
              l[i] = IF i <= 1 THEN <<n>>[i] ELSE ls[1].list[i - 1]
    BY <1>2, <1>3, ConcatProperties
  <1>6. /\ l[1] = n
        /\ \A i \in 1 .. Len(ls[1].list) : l[i + 1] = ls[1].list[i] /\ i + 1 \in 1 .. Len(l)
    <2>1. l[1] = n
      BY <1>2, <1>3, <1>5
    <2>2. ASSUME NEW i \in 1 .. Len(ls[1].list)
          PROVE  l[i + 1] = ls[1].list[i] /\ i + 1 \in 1 .. Len(l)
      <3> DEFINE j == i + 1
      <3>1. j \in 1 .. 1 + Len(ls[1].list) /\ ~ (j <= 1) /\ j - 1 = i
        BY <1>2
      <3> HIDE DEF j, l
      <3>2. l[j] = ls[1].list[j - 1]
        BY <3>1, <1>5
      <3> QED
        BY <3>1, <3>2, <1>5 DEF j
    <2> QED
      BY <2>1, <2>2
  <1> HIDE DEF l
  <1>7. lv \in Level /\ lv.list = l
    BY <1>2, <1>5 DEF Level
  <1> HIDE DEF lv
  <1>8. /\ ms \in Seq(Level) /\ Len(ms) = Len(ls) /\ ms[1] = lv
        /\ \A j \in 1 .. Len(ls) : j # 1 => ms[j] = ls[j]
    BY <1>1, <1>7, LevelSet
  <1> HIDE DEF ms, ls
  <1>9. head \in Places(ms) /\ NodeAt(ms, head) = n
    <2>1. 1 \in 1 .. Len(ms) /\ 1 \in 1 .. Len(ms[1].list)
      BY <1>1, <1>2, <1>5, <1>7, <1>8
    <2> QED
      BY <2>1, <1>6, <1>7, <1>8, PlacesAre
  <1>10. ASSUME NEW x \in Places(ls)
         PROVE  /\ up(x) \in Places(ms) /\ NodeAt(ms, up(x)) = NodeAt(ls, x)
                /\ Ahead(head, up(x)) /\ ~ Ahead(up(x), head)
    <2>1. /\ x = <<x[1], x[2]>> /\ x[1] \in 1 .. Len(ms) /\ x[2] \in 1 .. Len(ls[x[1]].list)
          /\ x[1] \in Nat /\ x[2] \in Nat
      BY <1>1, <1>8, PlacesAre
    <2>2. CASE x[1] = 1
      <3> DEFINE j == x[2] + 1
      <3>1. up(x) = <<1, j>>
        BY <2>2
      <3>2. j \in 1 .. Len(ms[1].list) /\ ms[1].list[j] = ls[1].list[x[2]] /\ j > 1
        BY <2>1, <2>2, <1>6, <1>7, <1>8
      <3> HIDE DEF j, up
      <3>3. <<1, j>> \in Places(ms) /\ NodeAt(ms, <<1, j>>) = ms[1].list[j]
        <4>1. ms \in Seq(Level) /\ 1 \in 1 .. Len(ms) /\ j \in 1 .. Len(ms[1].list)
          BY <3>2, <1>1, <1>8
        <4> QED
          BY <4>1, PlacesAre
      <3>4. NodeAt(ls, x) = ls[1].list[x[2]]
        BY <2>2 DEF NodeAt
      <3>5. Ahead(head, <<1, j>>) /\ ~ Ahead(<<1, j>>, head)
        BY <3>2 DEF Ahead
      <3> QED
        BY <3>1, <3>2, <3>3, <3>4, <3>5
    <2>3. CASE x[1] # 1
      <3>1. up(x) = x /\ ms[x[1]] = ls[x[1]]
        BY <2>1, <2>3, <1>8
      <3> HIDE DEF up
      <3>2. x \in Places(ms)
        BY <2>1, <3>1, <1>8, PlacesAre
      <3>3. NodeAt(ms, x) = NodeAt(ls, x)
        BY <3>1 DEF NodeAt
      <3>4. Ahead(head, x) /\ ~ Ahead(x, head)
        BY <2>1, <2>3 DEF Ahead
      <3> QED
        BY <3>1, <3>2, <3>3, <3>4
    <2> QED
      BY <2>2, <2>3
  <1>11. ASSUME NEW y \in Places(ms)
         PROVE  y = head \/ \E x \in Places(ls) : y = up(x)
    <2>1. /\ y = <<y[1], y[2]>> /\ y[1] \in 1 .. Len(ls) /\ y[2] \in 1 .. Len(ms[y[1]].list)
      BY <1>8, PlacesAre
    <2>2. CASE y[1] = 1 /\ y[2] # 1
      <3> DEFINE j == y[2] - 1
      <3>1. j \in 1 .. Len(ls[1].list) /\ j + 1 = y[2]
        BY <2>1, <2>2, <1>2, <1>5, <1>7, <1>8
      <3> HIDE DEF j
      <3>2. <<1, j>> \in Places(ls)
        BY <3>1, <1>1, PlacesAre
      <3>3. up(<<1, j>>) = y
        BY <2>1, <2>2, <3>1
      <3> QED
        BY <3>2, <3>3
    <2>3. CASE y[1] # 1
      <3>1. y[2] \in 1 .. Len(ls[y[1]].list)
        BY <2>1, <2>3, <1>8
      <3>2. y \in Places(ls)
        BY <2>1, <3>1, <1>1, PlacesAre
      <3>3. up(y) = y
        BY <2>3
      <3> QED
        BY <3>2, <3>3
    <2>4. CASE y[1] = 1 /\ y[2] = 1
      BY <2>1, <2>4
    <2> QED
      BY <2>2, <2>3, <2>4
  <1>12. ASSUME NEW x \in Places(ls), NEW y \in Places(ls)
         PROVE  Ahead(x, y) <=> Ahead(up(x), up(y))
    <2>1. /\ x[1] \in Nat /\ x[2] \in Nat /\ y[1] \in Nat /\ y[2] \in Nat
      BY <1>1, PlacesAre
    <2> DEFINE g == IF x[1] = 1 THEN x[2] + 1 ELSE x[2]
               h == IF y[1] = 1 THEN y[2] + 1 ELSE y[2]
    <2>2. up(x)[1] = x[1] /\ up(x)[2] = g
      OBVIOUS
    <2>3. up(y)[1] = y[1] /\ up(y)[2] = h
      OBVIOUS
    <2>4. x[1] = y[1] => (x[2] < y[2] <=> g < h)
      BY <2>1
    <2> HIDE DEF up, g, h
    <2> QED
      BY <2>2, <2>3, <2>4 DEF Ahead
  <1>13. ~ Ahead(head, head)
    BY DEF Ahead
  <1> HIDE DEF up, head
  <1>14. Known(ms) = Known(ls) \cup {n}
    BY <1>9, <1>10, <1>11 DEF Known
  <1>15. ASSUME NEW w \in Newer(ms)
         PROVE  w \in Newer(ls) \cup {<<p, e.pid>> : e \in Known(ls)}
    <2>1. PICK z \in Places(ms) \X Places(ms) :
             Ahead(z[1], z[2]) /\ w = <<NodeAt(ms, z[1]).pid, NodeAt(ms, z[2]).pid>>
      BY DEF Newer
    <2>2. z[1] \in Places(ms) /\ z[2] \in Places(ms)
      BY <2>1
    <2>3. PICK y \in Places(ls) : z[2] = up(y)
      BY <2>1, <2>2, <1>10, <1>11, <1>13
    <2>4. NodeAt(ms, z[2]) = NodeAt(ls, y) /\ NodeAt(ls, y) \in Known(ls)
      BY <2>3, <1>10 DEF Known
    <2>5. CASE z[1] = head
      BY <2>1, <2>4, <2>5, <1>3, <1>9
    <2>6. CASE z[1] # head
      <3>1. PICK x \in Places(ls) : z[1] = up(x)
        BY <2>2, <2>6, <1>11
      <3> DEFINE u == <<x, y>>
      <3>2. u \in Places(ls) \X Places(ls) /\ Ahead(u[1], u[2])
        BY <2>1, <2>3, <3>1, <1>12
      <3>3. w = <<NodeAt(ls, u[1]).pid, NodeAt(ls, u[2]).pid>>
        BY <2>1, <2>4, <3>1, <1>10
      <3> QED
        BY <3>2, <3>3 DEF Newer
    <2> QED
      BY <2>5, <2>6
  <1>16. ASSUME NEW w \in Newer(ls)
         PROVE  w \in Newer(ms)
    <2>1. PICK z \in Places(ls) \X Places(ls) :
             Ahead(z[1], z[2]) /\ w = <<NodeAt(ls, z[1]).pid, NodeAt(ls, z[2]).pid>>
      BY DEF Newer
    <2>2. z[1] \in Places(ls) /\ z[2] \in Places(ls)
      BY <2>1
    <2> DEFINE u == <<up(z[1]), up(z[2])>>
    <2>3. u \in Places(ms) \X Places(ms) /\ Ahead(u[1], u[2])
      BY <2>1, <2>2, <1>10, <1>12
    <2>4. w = <<NodeAt(ms, u[1]).pid, NodeAt(ms, u[2]).pid>>
      BY <2>1, <2>2, <1>10
    <2> QED
      BY <2>3, <2>4 DEF Newer
  <1>17. ASSUME NEW e \in Known(ls)
         PROVE  <<p, e.pid>> \in Newer(ms)
    <2>1. PICK x \in Places(ls) : e = NodeAt(ls, x)
      BY DEF Known
    <2> DEFINE u == <<head, up(x)>>
    <2>2. u \in Places(ms) \X Places(ms) /\ Ahead(u[1], u[2])
      BY <1>9, <1>10
    <2>3. <<p, e.pid>> = <<NodeAt(ms, u[1]).pid, NodeAt(ms, u[2]).pid>>
      BY <2>1, <1>3, <1>9, <1>10
    <2> QED
      BY <2>2, <2>3 DEF Newer
  <1>18. Newer(ms) = Newer(ls) \cup {<<p, e.pid>> : e \in Known(ls)}
    BY <1>15, <1>16, <1>17
  <1> QED
    BY <1>4, <1>14, <1>18 DEF n, ls

\* A new level adds nothing to what is known.
LEMMA PushMemory ==
    ASSUME NEW ls \in Seq(Level), NEW ms \in Seq(Level), Len(ms) = 1 + Len(ls),
           ms[1].list = <<>>, \A k \in 1 .. Len(ls) : ms[k + 1] = ls[k]
    PROVE  Known(ms) = Known(ls) /\ Newer(ms) = Newer(ls)
  <1> DEFINE down(x) == <<x[1] - 1, x[2]>>
             to == [x \in Places(ms) |-> down(x)]
  <1>1. Len(ls) \in Nat
    OBVIOUS
  <1>2. ASSUME NEW x \in Places(ms)
        PROVE  down(x) \in Places(ls) /\ NodeAt(ms, x) = NodeAt(ls, down(x))
    <2>1. x[1] \in 1 .. Len(ms) /\ x[2] \in 1 .. Len(ms[x[1]].list)
      BY PlacesAre
    <2>2. x[1] # 1
      BY <2>1, Len(<<>>) = 0
    <2> DEFINE j == x[1] - 1
    <2>3. j \in 1 .. Len(ls) /\ j + 1 = x[1]
      BY <1>1, <2>1, <2>2
    <2> HIDE DEF j
    <2>4. ms[x[1]] = ls[j]
      BY <2>3
    <2>5. x[2] \in 1 .. Len(ls[j].list)
      BY <2>1, <2>4
    <2>6. <<j, x[2]>> \in Places(ls) /\ NodeAt(ls, <<j, x[2]>>) = ls[j].list[x[2]]
      BY <2>3, <2>5, PlacesAre
    <2>7. NodeAt(ms, x) = ls[j].list[x[2]]
      BY <2>4 DEF NodeAt
    <2> QED
      BY <2>6, <2>7 DEF j
  <1>3. ASSUME NEW x \in Places(ms), NEW y \in Places(ms)
        PROVE  Ahead(x, y) <=> Ahead(down(x), down(y))
    <2>1. x[1] \in Nat /\ y[1] \in Nat
      BY PlacesAre
    <2>2. down(x)[1] = x[1] - 1 /\ down(y)[1] = y[1] - 1 /\ down(x)[2] = x[2] /\ down(y)[2] = y[2]
      OBVIOUS
    <2>3. (x[1] < y[1] <=> x[1] - 1 < y[1] - 1) /\ (x[1] = y[1] <=> x[1] - 1 = y[1] - 1)
      BY <2>1
    <2> HIDE DEF down
    <2> QED
      BY <2>2, <2>3 DEF Ahead
  <1>4. ASSUME NEW z \in Places(ls)
        PROVE  \E x \in Places(ms) : down(x) = z
    <2>1. z = <<z[1], z[2]>> /\ z[1] \in 1 .. Len(ls) /\ z[2] \in 1 .. Len(ls[z[1]].list)
      BY PlacesAre
    <2> DEFINE j == z[1] + 1
    <2>2. j \in 1 .. Len(ms) /\ j - 1 = z[1] /\ ms[j] = ls[z[1]]
      BY <1>1, <2>1
    <2> HIDE DEF j
    <2>3. z[2] \in 1 .. Len(ms[j].list)
      BY <2>1, <2>2
    <2>4. <<j, z[2]>> \in Places(ms)
      BY <2>2, <2>3, PlacesAre
    <2>5. down(<<j, z[2]>>) = z
      BY <2>1, <2>2
    <2> QED
      BY <2>4, <2>5
  <1> HIDE DEF down
  <1>5. to \in [Places(ms) -> Places(ls)] /\ \A x \in Places(ms) : to[x] = down(x)
    BY <1>2
  <1> HIDE DEF to
  <1>6. /\ \A x \in Places(ms) : NodeAt(ms, x) = NodeAt(ls, to[x]) /\ NodeAt(ms, x).pid \notin {}
        /\ \A x, y \in Places(ms) : Ahead(x, y) <=> Ahead(to[x], to[y])
        /\ \A z \in Places(ls) : NodeAt(ls, z).pid \notin {} => \E x \in Places(ms) : to[x] = z
    BY <1>2, <1>3, <1>4, <1>5
  <1>7. /\ Known(ms) = Memory!Without(Known(ls), {})
        /\ Newer(ms) = Memory!Among(Newer(ls), {})
    BY <1>5, <1>6, Thinned
  <1>8. /\ Memory!Without(Known(ls), {}) = Known(ls)
        /\ Memory!Among(Newer(ls), {}) = Newer(ls)
    BY NothingThinned
  <1> QED
    BY <1>7, <1>8

\* job_subrestore() joins the lists of two levels end to end.
Joined(ls, ms) ==
    /\ Len(ls) >= 2 /\ Len(ms) = Len(ls) - 1
    /\ ms[1].list = ls[1].list \o ls[2].list
    /\ \A k \in 2 .. Len(ms) : ms[k] = ls[k + 1]

\* What is known, and its order, stay.
LEMMA JoinMemory ==
    ASSUME NEW ls \in Seq(Level), NEW ms \in Seq(Level), Joined(ls, ms)
    PROVE  Known(ms) = Known(ls) /\ Newer(ms) = Newer(ls)
  <1> DEFINE a == ls[1].list
             b == ls[2].list
             c == ms[1].list
             n == Len(a)
             m == Len(b)
             from(x) == IF x[1] = 1 THEN (IF x[2] <= n THEN x ELSE <<2, x[2] - n>>)
                        ELSE <<x[1] + 1, x[2]>>
             to == [x \in Places(ms) |-> from(x)]
             F == {}
  <1>1. /\ Len(ls) \in Nat /\ Len(ms) \in Nat /\ Len(ms) + 1 = Len(ls)
        /\ 1 \in 1 .. Len(ls) /\ 2 \in 1 .. Len(ls) /\ 1 \in 1 .. Len(ms)
        /\ \A k \in 2 .. Len(ms) : ms[k] = ls[k + 1]
    BY DEF Joined
  <1>2. a \in Seq(Node) /\ b \in Seq(Node) /\ n \in Nat /\ m \in Nat /\ c = a \o b
    BY <1>1, LevelType DEF Joined
  <1> HIDE DEF a, b, c
  <1>3. /\ Len(c) = n + m
        /\ \A i \in 1 .. n + m : c[i] = IF i <= n THEN a[i] ELSE b[i - n]
    BY <1>2, ConcatProperties
  <1> HIDE DEF n, m
  <1>0. /\ ls[1].list = a /\ ls[2].list = b /\ ms[1].list = c
        /\ Len(a) = n /\ Len(b) = m /\ n \in Nat /\ m \in Nat
    BY <1>2 DEF a, b, c, n, m
  <1>4. ASSUME NEW x \in Places(ms)
        PROVE  from(x) \in Places(ls) /\ NodeAt(ms, x) = NodeAt(ls, from(x))
    <2>1. /\ x = <<x[1], x[2]>> /\ x[1] \in 1 .. Len(ms) /\ x[2] \in 1 .. Len(ms[x[1]].list)
          /\ x[2] \in Nat
      BY PlacesAre
    <2>2. CASE x[1] = 1 /\ x[2] <= n
      <3>1. x[2] \in 1 .. n + m /\ x[2] \in 1 .. Len(ls[1].list) /\ ms[1].list[x[2]] = ls[1].list[x[2]]
        BY <2>1, <2>2, <1>0, <1>3
      <3>2. x \in Places(ls)
        BY <2>1, <2>2, <3>1, <1>1, PlacesAre
      <3>3. from(x) = x
        BY <2>2
      <3> HIDE DEF from
      <3> QED
        BY <2>2, <3>1, <3>2, <3>3 DEF NodeAt
    <2>3. CASE x[1] = 1 /\ ~ (x[2] <= n)
      <3> DEFINE j == x[2] - n
      <3>1. from(x) = <<2, j>>
        BY <2>3
      <3>2. j \in 1 .. Len(ls[2].list) /\ ms[1].list[x[2]] = ls[2].list[j]
        <4>1. x[2] \in 1 .. n + m
          BY <2>1, <2>3, <1>0, <1>3
        <4>2. j \in 1 .. m /\ c[x[2]] = b[j]
          <5>1. x[2] \in Nat /\ x[2] <= n + m /\ n < x[2]
            BY <4>1, <2>1, <2>3, <1>0
          <5>2. j \in 1 .. m
            BY <5>1, <1>0
          <5>3. c[x[2]] = b[j]
            BY <4>1, <2>3, <1>3
          <5> QED
            BY <5>2, <5>3
        <4> HIDE DEF j
        <4> QED
          BY <4>2, <1>0
      <3> HIDE DEF from, j
      <3>3. <<2, j>> \in Places(ls) /\ NodeAt(ls, <<2, j>>) = ls[2].list[j]
        BY <3>2, <1>1, PlacesAre
      <3>4. NodeAt(ms, x) = ms[1].list[x[2]]
        BY <2>3 DEF NodeAt
      <3> QED
        BY <3>1, <3>2, <3>3, <3>4
    <2>4. CASE x[1] # 1
      <3> DEFINE j == x[1] + 1
      <3>1. from(x) = <<j, x[2]>>
        BY <2>4
      <3>2. j \in 1 .. Len(ls) /\ ms[x[1]] = ls[j]
        BY <2>1, <2>4, <1>1
      <3> HIDE DEF from, j
      <3>3. <<j, x[2]>> \in Places(ls) /\ NodeAt(ls, <<j, x[2]>>) = ls[j].list[x[2]]
        BY <2>1, <3>2, PlacesAre
      <3>4. NodeAt(ms, x) = ls[j].list[x[2]]
        BY <3>2 DEF NodeAt
      <3> QED
        BY <3>1, <3>3, <3>4
    <2> QED
      BY <2>2, <2>3, <2>4
  <1>5. ASSUME NEW x \in Places(ms), NEW y \in Places(ms)
        PROVE  Ahead(x, y) <=> Ahead(from(x), from(y))
    <2>1. /\ x[1] \in Nat \ {0} /\ y[1] \in Nat \ {0} /\ x[2] \in Nat \ {0} /\ y[2] \in Nat \ {0}
      BY PlacesAre
    <2> DEFINE lev(k, i) == IF k = 1 /\ i <= n THEN 1 ELSE k + 1
               pos(k, i) == IF k = 1 /\ ~(i <= n) THEN i - n ELSE i
    <2>2. from(x)[1] = lev(x[1], x[2]) /\ from(x)[2] = pos(x[1], x[2])
      OBVIOUS
    <2>3. from(y)[1] = lev(y[1], y[2]) /\ from(y)[2] = pos(y[1], y[2])
      OBVIOUS
    <2> HIDE DEF from
    <2>4. ASSUME NEW j \in Nat \ {0}, NEW k \in Nat \ {0}, NEW g \in Nat \ {0}, NEW h \in Nat \ {0}
          PROVE  (j < k \/ (j = k /\ g < h)) <=>
                    (lev(j, g) < lev(k, h) \/ (lev(j, g) = lev(k, h) /\ pos(j, g) < pos(k, h)))
      BY <1>0
    <2> HIDE DEF lev, pos
    <2>5. (x[1] < y[1] \/ (x[1] = y[1] /\ x[2] < y[2])) <=>
             (\/ lev(x[1], x[2]) < lev(y[1], y[2])
              \/ lev(x[1], x[2]) = lev(y[1], y[2]) /\ pos(x[1], x[2]) < pos(y[1], y[2]))
      BY <2>1, <2>4
    <2> QED
      BY <2>2, <2>3, <2>5 DEF Ahead
  <1>6. ASSUME NEW z \in Places(ls)
        PROVE  \E x \in Places(ms) : from(x) = z
    <2>1. /\ z = <<z[1], z[2]>> /\ z[1] \in 1 .. Len(ls) /\ z[2] \in 1 .. Len(ls[z[1]].list)
          /\ z[1] \in Nat /\ z[2] \in Nat
      BY PlacesAre
    <2>2. CASE z[1] = 1
      <3>1. z[2] <= n /\ z[2] \in 1 .. Len(ms[1].list)
        BY <2>1, <2>2, <1>0, <1>3
      <3>2. <<1, z[2]>> \in Places(ms)
        BY <3>1, <1>1, PlacesAre
      <3>3. from(z) = z
        BY <2>2, <3>1
      <3> QED
        BY <2>1, <2>2, <3>2, <3>3
    <2>3. CASE z[1] = 2
      <3> DEFINE j == z[2] + n
      <3>1. j \in 1 .. Len(ms[1].list) /\ ~ (j <= n) /\ j - n = z[2]
        BY <2>1, <2>3, <1>0, <1>3
      <3> HIDE DEF j
      <3>2. <<1, j>> \in Places(ms)
        BY <3>1, <1>1, PlacesAre
      <3>3. from(<<1, j>>) = z
        BY <2>1, <2>3, <3>1
      <3> QED
        BY <3>2, <3>3
    <2>4. CASE z[1] # 1 /\ z[1] # 2
      <3> DEFINE j == z[1] - 1
      <3>1. j \in 2 .. Len(ms) /\ j + 1 = z[1]
        BY <2>1, <2>4, <1>1
      <3> HIDE DEF j
      <3>2. ms[j] = ls[z[1]] /\ j \in 1 .. Len(ms) /\ j # 1
        BY <3>1, <1>1
      <3>3. <<j, z[2]>> \in Places(ms)
        BY <2>1, <3>2, PlacesAre
      <3>4. from(<<j, z[2]>>) = z
        BY <2>1, <3>1, <3>2
      <3> QED
        BY <3>3, <3>4
    <2> QED
      BY <2>2, <2>3, <2>4
  <1> HIDE DEF from
  <1>7. to \in [Places(ms) -> Places(ls)] /\ \A x \in Places(ms) : to[x] = from(x)
    BY <1>4
  <1> HIDE DEF to
  <1>8. /\ \A x \in Places(ms) : NodeAt(ms, x) = NodeAt(ls, to[x]) /\ NodeAt(ms, x).pid \notin F
        /\ \A x, y \in Places(ms) : Ahead(x, y) <=> Ahead(to[x], to[y])
        /\ \A z \in Places(ls) : NodeAt(ls, z).pid \notin F => \E x \in Places(ms) : to[x] = z
    BY <1>4, <1>5, <1>6, <1>7 DEF F
  <1> HIDE DEF F
  <1>9. /\ Known(ms) = Memory!Without(Known(ls), F)
        /\ Newer(ms) = Memory!Among(Newer(ls), F)
    BY <1>7, <1>8, Thinned
  <1>10. /\ Memory!Without(Known(ls), F) = Known(ls)
         /\ Memory!Among(Newer(ls), F) = Newer(ls)
    BY NothingThinned DEF F
  <1> QED
    BY <1>9, <1>10

----------------------------------------------------------------------------
(* Counters that are exact.                                                *)

\* The counters of ls are exact, but that of the current level, which counts d
\* nodes more than its list has.
Counts(ls, d) == /\ ls[1].count = Len(ls[1].list) + d
                 /\ \A k \in 2 .. Len(ls) : ls[k].count = Len(ls[k].list)

\* Taking a node off its list lowers the counter of that list.
LEMMA UnlinkCounts ==
    ASSUME NEW s, Good(s), NEW d \in Nat, Counts(s.levels, d),
           NEW k \in 1 .. Len(s.levels), NEW i \in 1 .. Len(s.levels[k].list)
    PROVE  Counts(Unlink(s, k, i).levels, d)
  <1> DEFINE ls == s.levels
             l  == RemoveAt(ls[k].list, i)
             lv == [count |-> ls[k].count - 1, list |-> l]
             ms == [ls EXCEPT ![k] = lv]
  <1>1. ls \in Seq(Level) /\ Len(ls) \in Nat /\ 1 \in 1 .. Len(ls)
    BY DEF Good, Store
  <1>2. /\ ls[k].count \in Int /\ ls[k].list \in Seq(Node)
        /\ Len(ls[k].list) \in Nat
    BY <1>1, LevelType
  <1>3. l \in Seq(Node) /\ Len(l) = Len(ls[k].list) - 1
    BY <1>2, RemoveOne
  <1> HIDE DEF l
  <1>4. lv \in Level /\ lv.list = l /\ lv.count = ls[k].count - 1
    BY <1>2, <1>3 DEF Level
  <1> HIDE DEF lv
  <1>5. /\ Len(ms) = Len(ls) /\ ms[k] = lv
        /\ \A j \in 1 .. Len(ls) : j # k => ms[j] = ls[j]
    BY <1>1, <1>4, LevelSet
  <1>6. Unlink(s, k, i).levels = ms
    BY DEF Unlink, lv, l
  <1>7. /\ ls[1].count = Len(ls[1].list) + d
        /\ \A j \in 2 .. Len(ls) : ls[j].count = Len(ls[j].list)
    BY DEF Counts
  <1> HIDE DEF ms, ls
  <1>8. ms[1].count = Len(ms[1].list) + d
    <2>1. CASE k = 1
      <3>1. ms[1].count = ls[1].count - 1 /\ Len(ms[1].list) = Len(ls[1].list) - 1
        BY <2>1, <1>3, <1>4, <1>5
      <3>2. ls[1].count \in Int /\ Len(ls[1].list) \in Nat
        BY <2>1, <1>2
      <3>3. ls[1].count = Len(ls[1].list) + d
        BY <1>7
      <3> HIDE DEF lv
      <3> DEFINE a == ms[1].count
                 b == ls[1].count
                 c == Len(ms[1].list)
                 e == Len(ls[1].list)
      <3>4. a = b - 1 /\ c = e - 1 /\ b = e + d
        BY <3>1, <3>3
      <3>5. b \in Int /\ e \in Nat
        BY <3>2
      <3>6. d \in Nat
        OBVIOUS
      <3> HIDE DEF a, b, c, e
      <3>7. a = c + d
        BY <3>4, <3>5, <3>6
      <3> QED
        BY <3>7 DEF a, c
    <2>2. CASE k # 1
      BY <2>2, <1>1, <1>5, <1>7
    <2> QED
      BY <2>1, <2>2
  <1>9. ASSUME NEW j \in 2 .. Len(ms)
        PROVE  ms[j].count = Len(ms[j].list)
    <2>0. j \in 2 .. Len(ls) /\ j \in 1 .. Len(ls)
      BY <1>1, <1>5
    <2>1. CASE j = k
      BY <2>0, <2>1, <1>2, <1>3, <1>4, <1>5, <1>7
    <2>2. CASE j # k
      BY <2>0, <2>2, <1>5, <1>7
    <2> QED
      BY <2>1, <2>2
  <1> QED
    BY <1>6, <1>8, <1>9 DEF Counts

\* So does job_chksave().
LEMMA ChkSaveCounts ==
    ASSUME NEW s, Good(s), NEW d \in Nat, Counts(s.levels, d), NEW p \in Pids \cup {Oldest}
    PROVE  Counts(ChkSave(s, p).levels, d)
  <1>1. CASE Hits(s, p) = {}
    BY <1>1 DEF ChkSave
  <1>2. CASE Hits(s, p) # {}
    <2>1. PICK k \in 1 .. Len(s.levels) : \E i \in 1 .. Len(s.levels[k].list) :
             ChkSave(s, p) = Unlink(s, k, i)
      BY <1>2, StopsAt
    <2>2. PICK i \in 1 .. Len(s.levels[k].list) : ChkSave(s, p) = Unlink(s, k, i)
      BY <2>1
    <2>3. Counts(Unlink(s, k, i).levels, d)
      BY UnlinkCounts
    <2> QED
      BY <2>2, <2>3
  <1> QED
    BY <1>1, <1>2

\* Chains that differ in the current level, whose lists and counters are these.
LEMMA HeadCounts ==
    ASSUME NEW ls \in Seq(Level), ls # <<>>, NEW ms \in Seq(Level), Len(ms) = Len(ls),
           NEW c, NEW d, Counts(ls, c), ms[1].count = Len(ms[1].list) + d,
           \A k \in 1 .. Len(ls) : k # 1 => ms[k] = ls[k]
    PROVE  Counts(ms, d)
  BY DEF Counts

\* jobsave_create() counts the new status before it is there, ...
LEMMA CountUpCounts ==
    ASSUME NEW s, Good(s), Counts(s.levels, 0)
    PROVE  /\ Counts(CountUp(s).levels, 1)
           /\ CountUp(s).levels[1].list = s.levels[1].list
           /\ \A k \in 1 .. Len(s.levels) : CountUp(s).levels[k].list = s.levels[k].list
  <1> DEFINE ls == s.levels
             lv == [ls[1] EXCEPT !.count = @ + 1]
             ms == [ls EXCEPT ![1] = lv]
  <1>1. ls \in Seq(Level) /\ Len(ls) \in Nat /\ 1 \in 1 .. Len(ls) /\ ls # <<>>
    BY DEF Good, Store
  <1>2. ls[1] \in Level /\ ls[1].count \in Int /\ Len(ls[1].list) \in Nat
    BY <1>1, LevelType
  <1>3. lv \in Level /\ lv.list = ls[1].list /\ lv.count = ls[1].count + 1
    BY <1>2 DEF Level
  <1>4. CountUp(s).levels = ms
    BY DEF CountUp, Good, Store
  <1> HIDE DEF lv
  <1>5. /\ ms \in Seq(Level) /\ Len(ms) = Len(ls) /\ ms[1] = lv
        /\ \A j \in 1 .. Len(ls) : j # 1 => ms[j] = ls[j]
    BY <1>1, <1>3, LevelSet
  <1> HIDE DEF ms
  <1>6. Counts(ls, 0)
    OBVIOUS
  <1>7. ms[1].count = Len(ms[1].list) + 1
    <2>1. ls[1].count = Len(ls[1].list)
      BY <1>2, <1>6 DEF Counts
    <2>2. ms[1].count = ls[1].count + 1 /\ Len(ms[1].list) = Len(ls[1].list)
      BY <1>3, <1>5
    <2> QED
      BY <2>1, <2>2
  <1>8. Counts(ms, 1)
    BY <1>1, <1>5, <1>6, <1>7, HeadCounts
  <1>9. \A k \in 1 .. Len(ls) : ms[k].list = ls[k].list
    BY <1>3, <1>5
  <1> QED
    BY <1>1, <1>4, <1>8, <1>9

\* ... and then puts it there.
LEMMA PrependCounts ==
    ASSUME NEW s, Good(s), Counts(s.levels, 1), NEW p \in Pids, NEW v \in Vals
    PROVE  /\ Counts(Prepend(s, p, v).levels, 0)
           /\ Len(Prepend(s, p, v).levels[1].list) = Len(s.levels[1].list) + 1
  <1> DEFINE n  == [pid |-> p, val |-> v]
             ls == s.levels
             l  == <<n>> \o ls[1].list
             lv == [ls[1] EXCEPT !.list = l]
             ms == [ls EXCEPT ![1] = lv]
  <1>1. ls \in Seq(Level) /\ Len(ls) \in Nat /\ 1 \in 1 .. Len(ls) /\ ls # <<>>
    BY DEF Good, Store
  <1>2. /\ ls[1] \in Level /\ ls[1].list \in Seq(Node) /\ Len(ls[1].list) \in Nat
        /\ ls[1].count \in Int
    BY <1>1, LevelType
  <1>3. <<n>> \in Seq(Node) /\ Len(<<n>>) = 1
    BY DEF Node
  <1>4. Prepend(s, p, v).levels = ms
    BY DEF Prepend, Good, Store
  <1> HIDE DEF n
  <1>5. l \in Seq(Node) /\ Len(l) = 1 + Len(ls[1].list)
    BY <1>2, <1>3, ConcatProperties
  <1> HIDE DEF l
  <1>6. lv \in Level /\ lv.list = l /\ lv.count = ls[1].count
    BY <1>2, <1>5 DEF Level
  <1> HIDE DEF lv
  <1>7. /\ ms \in Seq(Level) /\ Len(ms) = Len(ls) /\ ms[1] = lv
        /\ \A j \in 1 .. Len(ls) : j # 1 => ms[j] = ls[j]
    BY <1>1, <1>6, LevelSet
  <1> HIDE DEF ms
  <1>8. Counts(ls, 1)
    OBVIOUS
  <1>9. ms[1].count = Len(ms[1].list) + 0 /\ Len(ms[1].list) = Len(ls[1].list) + 1
    <2> HIDE DEF ls
    <2>1. ms[1].count = ls[1].count /\ Len(ms[1].list) = 1 + Len(ls[1].list)
      BY <1>5, <1>6, <1>7
    <2>2. ls[1].count = Len(ls[1].list) + 1
      BY <1>8 DEF Counts
    <2> QED
      BY <2>1, <2>2, <1>2
  <1>10. Counts(ms, 0)
    BY <1>1, <1>7, <1>8, <1>9, HeadCounts
  <1> QED
    BY <1>4, <1>9, <1>10

----------------------------------------------------------------------------
(* How many statuses are newer than the last of the current list.          *)

\* What a function maps a finite set onto is finite.
LEMMA ImageFinite ==
    ASSUME NEW S, IsFiniteSet(S), NEW T, NEW f \in [S -> T], \A y \in T : \E x \in S : f[x] = y
    PROVE  IsFiniteSet(T)
  <1>1. f \in Surjection(S, T)
    BY DEF Surjection
  <1> QED
    BY <1>1, FS_Surjection

\* A chain has finitely many nodes.
LEMMA PlacesFinite ==
    ASSUME NEW ls \in Seq(Level)
    PROVE  IsFiniteSet(Places(ls))
  <1> DEFINE row(k) == {<<k, i>> : i \in 1 .. Len(ls[k].list)}
             rows == {row(k) : k \in 1 .. Len(ls)}
             f == [k \in 1 .. Len(ls) |-> row(k)]
  <1>1. ASSUME NEW k \in 1 .. Len(ls)
        PROVE  IsFiniteSet(row(k))
    <2> DEFINE m == Len(ls[k].list)
               r == row(k)
               g == [i \in 1 .. m |-> <<k, i>>]
    <2>1. m \in Nat
      BY LevelType
    <2>2. g \in [1 .. m -> r] /\ \A y \in r : \E i \in 1 .. m : g[i] = y
      OBVIOUS
    <2> HIDE DEF g, m, r
    <2>3. IsFiniteSet(1 .. m)
      BY <2>1, FS_Interval
    <2>4. IsFiniteSet(r)
      BY <2>2, <2>3, ImageFinite
    <2> QED
      BY <2>4 DEF r
  <1>2. IsFiniteSet(1 .. Len(ls))
    BY FS_Interval
  <1>3. f \in [1 .. Len(ls) -> rows] /\ \A y \in rows : \E k \in 1 .. Len(ls) : f[k] = y
    OBVIOUS
  <1>4. \A T \in rows : IsFiniteSet(T)
    BY <1>1
  <1>5. Places(ls) = UNION rows
    BY DEF Places
  <1> HIDE DEF f, rows, row
  <1>6. IsFiniteSet(rows)
    BY <1>2, <1>3, ImageFinite
  <1> QED
    BY <1>4, <1>5, <1>6, FS_UNION

\* So its order is finite, ...
LEMMA NewerFinite ==
    ASSUME NEW ls \in Seq(Level)
    PROVE  IsFiniteSet(Newer(ls))
  <1> DEFINE P == Places(ls)
             S == {z \in P \X P : Ahead(z[1], z[2])}
             g(z) == <<NodeAt(ls, z[1]).pid, NodeAt(ls, z[2]).pid>>
             N == {g(z) : z \in S}
             f == [z \in S |-> g(z)]
  <1>1. f \in [S -> N] /\ \A y \in N : \E z \in S : f[z] = y
    <2> HIDE DEF S, g
    <2> QED
      OBVIOUS
  <1>2. Newer(ls) = N
    BY DEF Newer
  <1>3. S \in SUBSET (P \X P)
    OBVIOUS
  <1>4. IsFiniteSet(P)
    BY PlacesFinite
  <1> HIDE DEF f, N, S, P
  <1>5. IsFiniteSet(P \X P)
    BY <1>4, FS_Product
  <1>6. IsFiniteSet(S)
    BY <1>3, <1>5, FS_Subset
  <1> QED
    BY <1>1, <1>2, <1>6, ImageFinite

\* ... and all the other statuses of the current list are newer than its last.
LEMMA NewerThanLast ==
    ASSUME NEW ls \in Seq(Level), Single(ls), ls # <<>>, NEW n \in Nat \ {0},
           Len(ls[1].list) = n
    PROVE  LET q == ls[1].list[n].pid IN
           /\ Cardinality(Memory!Newer(Newer(ls), q)) \in Nat
           /\ Cardinality(Memory!Newer(Newer(ls), q)) >= n - 1
  <1> DEFINE q == ls[1].list[n].pid
             T == Memory!Newer(Newer(ls), q)
             S == 1 .. (n - 1)
             g(i) == <<ls[1].list[i].pid, q>>
             f == [i \in S |-> g(i)]
  <1>0. 1 \in 1 .. Len(ls) /\ n \in 1 .. Len(ls[1].list)
    OBVIOUS
  <1>1. ASSUME NEW i \in S
        PROVE  g(i) \in T
    <2> DEFINE x == <<1, i>>
               y == <<1, n>>
               z == <<x, y>>
    <2>1. i \in 1 .. Len(ls[1].list) /\ i < n
      OBVIOUS
    <2>2. /\ x \in Places(ls) /\ NodeAt(ls, x) = ls[1].list[i]
          /\ y \in Places(ls) /\ NodeAt(ls, y) = ls[1].list[n]
      BY <1>0, <2>1, PlacesAre
    <2>3. Ahead(x, y)
      BY <2>1 DEF Ahead
    <2> HIDE DEF x, y
    <2>4. /\ z \in Places(ls) \X Places(ls) /\ Ahead(z[1], z[2])
          /\ g(i) = <<NodeAt(ls, z[1]).pid, NodeAt(ls, z[2]).pid>>
      BY <2>2, <2>3
    <2>5. g(i) \in Newer(ls)
      BY <2>4 DEF Newer
    <2> QED
      BY <2>5 DEF Memory!Newer
  <1>2. ASSUME NEW i \in S, NEW j \in S, g(i) = g(j)
        PROVE  i = j
    <2>1. i \in 1 .. Len(ls[1].list) /\ j \in 1 .. Len(ls[1].list)
      OBVIOUS
    <2>2. ls[1].list[i].pid = ls[1].list[j].pid
      BY <1>2
    <2> QED
      BY <1>0, <2>1, <2>2, SameNode
  <1>3. IsFiniteSet(T)
    <2>1. T \in SUBSET Newer(ls)
      BY DEF Memory!Newer
    <2> HIDE DEF T
    <2> QED
      BY <2>1, NewerFinite, FS_Subset
  <1>4. Cardinality(S) = n - 1
    <2>1. Cardinality(S) = IF 1 > n - 1 THEN 0 ELSE n - 1 - 1 + 1
      BY FS_Interval
    <2> HIDE DEF S
    <2> QED
      BY <2>1
  <1> HIDE DEF T, S, g
  <1>5. f \in Injection(S, T)
    <2>1. f \in [S -> T] /\ DOMAIN f = S /\ \A i \in S : f[i] = g(i)
      BY <1>1
    <2> HIDE DEF f
    <2> QED
      BY <1>2, <2>1 DEF Injection, IsInjective
  <1> HIDE DEF f
  <1>6. Cardinality(S) <= Cardinality(T) /\ Cardinality(T) \in Nat
    BY <1>3, <1>5, FS_Injection, FS_CardinalityType
  <1> QED
    BY <1>4, <1>6 DEF T

----------------------------------------------------------------------------
(* Recording a status.                                                     *)

\* What is known when the status v of p has been added to the chain ls, and the
\* order of that, ...
Recorded(ls, p, v) == Memory!Without(Known(ls), {p}) \cup {[pid |-> p, val |-> v]}
RecordedNewer(ls, p) ==
    Memory!Among(Newer(ls), {p}) \cup {<<p, e.pid>> : e \in Memory!Without(Known(ls), {p})}

\* ... and the process IDs that have ChildMax newer ones.
Old(K, N) == {e.pid : e \in {e \in K : Cardinality(Memory!Newer(N, e.pid)) >= ChildMax}}

\* The node of the current list that is dropped has ChildMax newer ones.
LEMMA LastIsOld ==
    ASSUME NEW ls \in Seq(Level), Single(ls), ls # <<>>,
           Len(ls[1].list) > ChildMax
    PROVE  OldestPid(ls) \subseteq Old(Known(ls), Newer(ls))
  <1> DEFINE n == Len(ls[1].list)
  <1>1. 1 \in 1 .. Len(ls) /\ n \in Nat \ {0} /\ n \in 1 .. Len(ls[1].list) /\ n - 1 >= ChildMax
    BY ConstantsAssumption, LevelType
  <1> DEFINE e == ls[1].list[n]
             q == e.pid
  <1>2. e \in Known(ls)
    <2>1. <<1, n>> \in Places(ls) /\ NodeAt(ls, <<1, n>>) = e
      BY <1>1, PlacesAre
    <2> HIDE DEF e
    <2> QED
      BY <2>1 DEF Known
  <1>3. OldestPid(ls) = {q}
    BY <1>1 DEF OldestPid
  <1>4. /\ Cardinality(Memory!Newer(Newer(ls), q)) \in Nat
        /\ Cardinality(Memory!Newer(Newer(ls), q)) >= n - 1
    BY <1>1, NewerThanLast
  <1> HIDE DEF e, n
  <1>5. Cardinality(Memory!Newer(Newer(ls), e.pid)) >= ChildMax
    BY <1>1, <1>4, ConstantsAssumption
  <1>6. q \in Old(Known(ls), Newer(ls))
    BY <1>2, <1>5 DEF Old
  <1> QED
    BY <1>3, <1>6

\* A node added at the head of the current list leaves the last one last.
LEMMA PrependLast ==
    ASSUME NEW s, Good(s), NEW p \in Pids, NEW v \in Vals
    PROVE  OldestPid(s.levels) \subseteq OldestPid(Prepend(s, p, v).levels)
  <1> DEFINE n  == [pid |-> p, val |-> v]
             ls == s.levels
             l  == <<n>> \o ls[1].list
             m  == Len(ls[1].list)
             lv == [ls[1] EXCEPT !.list = l]
             ms == [ls EXCEPT ![1] = lv]
  <1>1. ls \in Seq(Level) /\ Len(ls) \in Nat /\ 1 \in 1 .. Len(ls)
    BY DEF Good, Store
  <1>2. ls[1] \in Level /\ ls[1].list \in Seq(Node) /\ m \in Nat
    BY <1>1, LevelType
  <1>3. <<n>> \in Seq(Node) /\ Len(<<n>>) = 1
    BY DEF Node
  <1>4. Prepend(s, p, v).levels = ms
    BY DEF Prepend, Good, Store
  <1> HIDE DEF n
  <1>5. /\ l \in Seq(Node) /\ Len(l) = 1 + m
        /\ \A i \in 1 .. 1 + m : l[i] = IF i <= 1 THEN <<n>>[i] ELSE ls[1].list[i - 1]
    BY <1>2, <1>3, ConcatProperties
  <1> HIDE DEF l
  <1>6. ms[1].list = l
    <2>1. lv \in Level /\ lv.list = l
      BY <1>2, <1>5 DEF Level
    <2> HIDE DEF lv
    <2> QED
      BY <1>1, <2>1, LevelSet
  <1> HIDE DEF ms
  <1>7. ASSUME m # 0
        PROVE  ms[1].list[Len(ms[1].list)] = ls[1].list[m] /\ Len(ms[1].list) # 0
    <2> DEFINE j == 1 + m
    <2>1. j \in 1 .. 1 + m /\ ~ (j <= 1) /\ j - 1 = m /\ j # 0 /\ Len(l) = j
      BY <1>2, <1>5, <1>7
    <2> HIDE DEF j
    <2>2. l[j] = ls[1].list[m]
      BY <1>5, <2>1
    <2> QED
      BY <1>6, <2>1, <2>2
  <1>8. ASSUME NEW q \in OldestPid(ls)
        PROVE  q \in OldestPid(ms)
    <2>1. m # 0 /\ q = ls[1].list[m].pid
      BY DEF OldestPid
    <2> HIDE DEF m
    <2> QED
      BY <1>7, <2>1 DEF OldestPid
  <1> QED
    BY <1>4, <1>8

\* jobsave_create() records the status and forgets only what is old.
LEMMA CreateMemory ==
    ASSUME NEW s, Good(s), Single(s.levels), Counts(s.levels, 0),
           NEW p \in Pids, NEW v \in Vals
    PROVE  /\ Counts(JobsaveCreate(s, p, v).levels, 0)
           /\ \E F \in SUBSET Old(Recorded(s.levels, p, v), RecordedNewer(s.levels, p)) :
                 /\ Known(JobsaveCreate(s, p, v).levels) =
                       Memory!Without(Recorded(s.levels, p, v), F)
                 /\ Newer(JobsaveCreate(s, p, v).levels) =
                       Memory!Among(RecordedNewer(s.levels, p), F)
  <1> DEFINE a == ChkSave(s, p)
             b == CountUp(a)
             c == Evict(b)
             d == TakeNode(s, c)
             u == Prepend(d, p, v)
             h == Prepend(b, p, v)
             K == Recorded(s.levels, p, v)
             N == RecordedNewer(s.levels, p)
  <1>0. p \in Pids \cup {Oldest} /\ p # Oldest /\ Oldest \in Pids \cup {Oldest}
    BY ConstantsAssumption
  <1>1. /\ Good(a) /\ Single(a.levels) /\ Absent(a.levels, p) /\ Counts(a.levels, 0)
        /\ s.nfree <= a.nfree /\ s.nfree \in Int
        /\ Known(a.levels) = Memory!Without(Known(s.levels), {p})
        /\ Newer(a.levels) = Memory!Among(Newer(s.levels), {p})
    <2>1. s.nfree \in Int /\ 0 \in Nat
      BY DEF Good, Store
    <2> QED
      BY <1>0, <2>1, ChkSaveGood, ChkSaveSingle, ChkSaveCounts, ChkSaveMemory
  <1> HIDE DEF a
  <1>2. /\ Good(b) /\ Slack(b) /\ Single(b.levels) /\ Absent(b.levels, p)
        /\ Counts(b.levels, 1) /\ b.nfree = a.nfree
    BY <1>1, CountUpGood, CountUpSingle, CountUpCounts
  <1>3. a.levels \in Seq(Level) /\ b.levels \in Seq(Level) /\ b.levels # <<>>
    BY <1>1, <1>2 DEF Good, Store
  <1>4. Known(b.levels) = Known(a.levels) /\ Newer(b.levels) = Newer(a.levels)
    <2>1. Len(b.levels) = Len(a.levels)
      BY <1>1, CountUpGood
    <2>2. \A k \in 1 .. Len(a.levels) : b.levels[k].list = a.levels[k].list
      BY <1>1, CountUpCounts
    <2> HIDE DEF b
    <2> QED
      BY <1>3, <2>1, <2>2, SameMemory
  <1> HIDE DEF b
  <1>5. /\ Known(h.levels) = K /\ Newer(h.levels) = N
    <2>1. /\ Known(h.levels) = Known(b.levels) \cup {[pid |-> p, val |-> v]}
          /\ Newer(h.levels) = Newer(b.levels) \cup {<<p, e.pid>> : e \in Known(b.levels)}
      BY <1>2, PrependMemory
    <2> HIDE DEF h
    <2> QED
      BY <1>1, <1>4, <2>1 DEF Recorded, RecordedNewer
  <1>6. /\ Good(h) /\ Single(h.levels) /\ h.levels \in Seq(Level) /\ h.levels # <<>>
        /\ Len(h.levels[1].list) = Len(b.levels[1].list) + 1
    <2>1. Good(h) /\ Single(h.levels)
      BY <1>2, PrependGood, PrependSingle
    <2>2. Len(h.levels[1].list) = Len(b.levels[1].list) + 1
      BY <1>2, PrependCounts
    <2> HIDE DEF h
    <2> QED
      BY <2>1, <2>2 DEF Good, Store
  <1>7. b.levels[1].count = Len(b.levels[1].list) + 1
    BY <1>2 DEF Counts
  <1>8. /\ Good(c) /\ Slack(c) /\ Counts(c.levels, 1) /\ b.nfree <= c.nfree
    <2>1. 1 \in Nat
      OBVIOUS
    <2> QED
      BY <1>0, <1>2, <2>1, EvictGood, ChkSaveCounts DEF Evict
  <1>9. PICK F \in SUBSET OldestPid(b.levels) :
           /\ F # {} => b.levels[1].count > ChildMax
           /\ Known(c.levels) = Memory!Without(Known(b.levels), F)
           /\ Newer(c.levels) = Memory!Among(Newer(b.levels), F)
    <2>1. CASE b.levels[1].count > ChildMax
      <3>1. c = ChkSave(b, Oldest)
        BY <2>1 DEF Evict
      <3> HIDE DEF c
      <3> QED
        BY <1>2, <2>1, <3>1, OldestMemory
    <2>2. CASE ~ (b.levels[1].count > ChildMax)
      <3>1. c = b
        BY <2>2 DEF Evict
      <3> HIDE DEF c
      <3>2. /\ Memory!Without(Known(b.levels), {}) = Known(b.levels)
            /\ Memory!Among(Newer(b.levels), {}) = Newer(b.levels)
        BY <1>3, NothingThinned
      <3> QED
        BY <3>1, <3>2
    <2> QED
      BY <2>1, <2>2
  <1> HIDE DEF c
  <1>10. /\ Good(d) /\ Slack(d) /\ d.levels = c.levels
    <2>1. s.nfree <= c.nfree
      <3>1. a.nfree \in Int /\ c.nfree \in Int
        BY <1>1, <1>8 DEF Good, Store
      <3> QED
        BY <1>1, <1>2, <1>8, <3>1
    <2> QED
      BY <1>8, <2>1, TakeNodeGood DEF TakeNode
  <1> HIDE DEF d
  <1>11. JobsaveCreate(s, p, v) = u
    BY DEF JobsaveCreate, a, b, c, d
  <1>12. Counts(u.levels, 0)
    BY <1>8, <1>10, PrependCounts
  <1>13. /\ Known(u.levels) = Known(d.levels) \cup {[pid |-> p, val |-> v]}
         /\ Newer(u.levels) = Newer(d.levels) \cup {<<p, e.pid>> : e \in Known(d.levels)}
    BY <1>10, PrependMemory
  <1> HIDE DEF u, h, K, N
  <1>14. p \notin F
    <2>1. 1 \in 1 .. Len(b.levels) /\ Len(b.levels[1].list) \in Nat
      BY <1>3, LevelType
    <2>2. p \notin OldestPid(b.levels)
      BY <1>2, <2>1 DEF OldestPid, Absent
    <2> QED
      BY <2>2
  <1>15. F \subseteq Old(K, N)
    <2>1. CASE F = {}
      BY <2>1
    <2>2. CASE F # {}
      <3>1. 1 \in 1 .. Len(b.levels) /\ Len(b.levels[1].list) \in Nat
        BY <1>3, LevelType
      <3>2. Len(h.levels[1].list) > ChildMax
        BY <1>6, <1>7, <1>9, <2>2
      <3>3. OldestPid(h.levels) \subseteq Old(K, N)
        BY <1>5, <1>6, <3>2, LastIsOld
      <3>4. OldestPid(b.levels) \subseteq OldestPid(h.levels)
        BY <1>2, PrependLast DEF h
      <3> QED
        BY <3>3, <3>4
    <2> QED
      BY <2>1, <2>2
  <1>16. Known(u.levels) = Memory!Without(K, F)
    <2>1. K = Known(b.levels) \cup {[pid |-> p, val |-> v]}
      BY <1>1, <1>4 DEF K, Recorded
    <2> QED
      BY <1>9, <1>10, <1>13, <1>14, <2>1 DEF Memory!Without
  <1>17. Newer(u.levels) = Memory!Among(N, F)
    <2>1. N = Newer(b.levels) \cup {<<p, e.pid>> : e \in Known(b.levels)}
      BY <1>1, <1>4 DEF N, RecordedNewer
    <2> QED
      BY <1>9, <1>10, <1>13, <1>14, <2>1 DEF Memory!Without, Memory!Among
  <1> QED
    BY <1>11, <1>12, <1>15, <1>16, <1>17 DEF K, N

----------------------------------------------------------------------------
(* Every step of a shell that has not forked.                              *)

\* A new level has an exact counter and adds nothing to what is known.
LEMMA PushStep ==
    ASSUME NEW ls \in Seq(Level), ls # <<>>, Counts(ls, 0)
    PROVE  LET ms == <<[count |-> 0, list |-> <<>>]>> \o ls IN
           Counts(ms, 0) /\ Known(ms) = Known(ls) /\ Newer(ms) = Newer(ls)
  <1> DEFINE j1 == [count |-> 0, list |-> <<>>]
             ms == <<j1>> \o ls
  <1>1. <<>> \in Seq(Node) /\ Len(<<>>) = 0 /\ Len(ls) \in Nat /\ 1 \in 1 .. Len(ls)
    OBVIOUS
  <1>2. j1 \in Level /\ j1.list = <<>> /\ j1.count = 0
    BY <1>1 DEF Level
  <1> HIDE DEF j1
  <1>3. <<j1>> \in Seq(Level) /\ Len(<<j1>>) = 1 /\ <<j1>>[1] = j1
    BY <1>2
  <1>4. /\ ms \in Seq(Level) /\ Len(ms) = 1 + Len(ls)
        /\ \A i \in 1 .. 1 + Len(ls) : ms[i] = IF i <= 1 THEN <<j1>>[i] ELSE ls[i - 1]
    BY <1>3, ConcatProperties
  <1> HIDE DEF ms
  <1>5. ms[1] = j1 /\ \A k \in 2 .. Len(ms) : k - 1 \in 1 .. Len(ls) /\ ms[k] = ls[k - 1]
    BY <1>1, <1>3, <1>4
  <1>6. \A k \in 1 .. Len(ls) : ls[k].count = Len(ls[k].list)
    <2>1. /\ ls[1].count = Len(ls[1].list) + 0
          /\ \A k \in 2 .. Len(ls) : ls[k].count = Len(ls[k].list)
      BY DEF Counts
    <2>2. Len(ls[1].list) \in Nat
      BY <1>1, LevelType
    <2> QED
      BY <1>1, <2>1, <2>2
  <1>7. Counts(ms, 0)
    BY <1>1, <1>2, <1>5, <1>6 DEF Counts
  <1>8. ASSUME NEW k \in 1 .. Len(ls)
        PROVE  ms[k + 1] = ls[k]
    <2> DEFINE j == k + 1
    <2>1. j \in 2 .. Len(ms) /\ j - 1 = k
      BY <1>1, <1>4
    <2> HIDE DEF j
    <2>2. ms[j] = ls[k]
      BY <1>5, <2>1
    <2> QED
      BY <2>2 DEF j
  <1>9. Known(ms) = Known(ls) /\ Newer(ms) = Newer(ls)
    BY <1>2, <1>4, <1>5, <1>8, PushMemory
  <1> QED
    BY <1>7, <1>9 DEF ms, j1

\* So has the level that job_subrestore() joins.
LEMMA JoinStep ==
    ASSUME NEW ls \in Seq(Level), Len(ls) >= 2, Counts(ls, 0)
    PROVE  LET ms == <<[count |-> ls[1].count + ls[2].count,
                        list  |-> ls[1].list \o ls[2].list]>> \o SubSeq(ls, 3, Len(ls)) IN
           Counts(ms, 0) /\ Known(ms) = Known(ls) /\ Newer(ms) = Newer(ls)
  <1> DEFINE l  == ls[1].list \o ls[2].list
             c  == ls[1].count + ls[2].count
             j1 == [count |-> c, list |-> l]
             r  == SubSeq(ls, 3, Len(ls))
             ms == <<j1>> \o r
  <1>1. Len(ls) \in Nat /\ 1 \in 1 .. Len(ls) /\ 2 \in 1 .. Len(ls) /\ 2 \in 2 .. Len(ls)
    OBVIOUS
  <1>2. /\ ls[1].list \in Seq(Node) /\ ls[2].list \in Seq(Node)
        /\ Len(ls[1].list) \in Nat /\ Len(ls[2].list) \in Nat
    BY <1>1, LevelType
  <1>3. ls[1].count = Len(ls[1].list) /\ ls[2].count = Len(ls[2].list)
    BY <1>1, <1>2 DEF Counts
  <1>4. l \in Seq(Node) /\ Len(l) = Len(ls[1].list) + Len(ls[2].list)
    BY <1>2, ConcatProperties
  <1>5. c \in Int /\ c = Len(l) /\ Len(l) \in Int
    <2> HIDE DEF l
    <2> QED
      BY <1>2, <1>3, <1>4
  <1> HIDE DEF c
  <1>6. j1 \in Level /\ j1.list = l /\ j1.count = Len(l)
    <2> HIDE DEF l
    <2> QED
      BY <1>4, <1>5 DEF Level
  <1> HIDE DEF j1
  <1>7. /\ r \in Seq(Level) /\ Len(r) = Len(ls) - 2
        /\ \A i \in 1 .. Len(ls) - 2 : r[i] = ls[i + 2]
    BY RestLevels
  <1> HIDE DEF r
  <1>8. <<j1>> \in Seq(Level) /\ Len(<<j1>>) = 1 /\ <<j1>>[1] = j1
    BY <1>6
  <1>9. /\ ms \in Seq(Level) /\ Len(ms) = 1 + Len(r)
        /\ \A i \in 1 .. 1 + Len(r) : ms[i] = IF i <= 1 THEN <<j1>>[i] ELSE r[i - 1]
    BY <1>7, <1>8, ConcatProperties
  <1> HIDE DEF ms
  <1>10. Len(ms) = Len(ls) - 1 /\ ms[1] = j1
    BY <1>1, <1>7, <1>8, <1>9
  <1>11. ASSUME NEW k \in 2 .. Len(ms)
         PROVE  ms[k] = ls[k + 1] /\ k + 1 \in 2 .. Len(ls)
    <2> DEFINE j == k - 1
    <2>1. j \in 1 .. Len(ls) - 2 /\ j + 2 = k + 1
      BY <1>1, <1>10
    <2>2. ms[k] = r[j]
      BY <1>1, <1>7, <1>9, <1>10
    <2> HIDE DEF j
    <2>3. r[j] = ls[j + 2]
      BY <2>1, <1>7
    <2>4. k + 1 \in 2 .. Len(ls)
      BY <1>1, <1>10
    <2> QED
      BY <2>1, <2>2, <2>3, <2>4
  <1>12. Counts(ms, 0)
    <2>1. \A k \in 2 .. Len(ls) : ls[k].count = Len(ls[k].list)
      BY DEF Counts
    <2>2. \A k \in 2 .. Len(ms) : ms[k].count = Len(ms[k].list)
      BY <1>11, <2>1
    <2>3. ms[1].count = Len(ms[1].list) + 0
      <3> HIDE DEF l
      <3> QED
        BY <1>5, <1>6, <1>10
    <2> QED
      BY <2>2, <2>3 DEF Counts
  <1>13. Joined(ls, ms)
    BY <1>6, <1>10, <1>11 DEF Joined, l
  <1>14. Known(ms) = Known(ls) /\ Newer(ms) = Newer(ls)
    BY <1>9, <1>13, JoinMemory
  <1> QED
    BY <1>12, <1>14 DEF ms, j1, c, l, r

\* What the memory knows in the next state.
LEMMA MemoryPrimed == Known(levels)' = Known(levels') /\ Newer(levels)' = Newer(levels')
  BY DEF Known, Newer, Places, NodeAt

\* Its cardinalities are those of FiniteSets.
LEMMA MemoryCardinality == \A S : Memory!Cardinality(S) = Cardinality(S)
  BY DEF Memory!Cardinality, Cardinality

\* What the memory may forget.
LEMMA MemoryRemembers ==
    ASSUME NEW K, NEW N,
           \E F \in SUBSET Old(K, N) :
              Known(levels') = Memory!Without(K, F) /\ Newer(levels') = Memory!Among(N, F)
    PROVE  Memory!Remembers(K, N)
  <1>1. Old(K, N) = {e.pid : e \in {e \in K : Memory!Cardinality(Memory!Newer(N, e.pid)) >= ChildMax}}
    BY MemoryCardinality DEF Old
  <1> QED
    BY <1>1, MemoryPrimed DEF Memory!Remembers

\* The steps of the memory, in terms of the chain of lists.
LEMMA TakesOut ==
    ASSUME NEW p, Known(levels') = Memory!Without(Known(levels), {p}),
           Newer(levels') = Memory!Among(Newer(levels), {p})
    PROVE  Memory!TakeOut(p)
  BY MemoryPrimed DEF Memory!TakeOut

LEMMA Records ==
    ASSUME NEW p, NEW v,
           \E F \in SUBSET Old(Recorded(levels, p, v), RecordedNewer(levels, p)) :
              /\ Known(levels') = Memory!Without(Recorded(levels, p, v), F)
              /\ Newer(levels') = Memory!Among(RecordedNewer(levels, p), F)
    PROVE  Memory!Record(p, v)
  <1>1. Memory!Remembers(Recorded(levels, p, v), RecordedNewer(levels, p))
    BY MemoryRemembers
  <1> QED
    BY <1>1 DEF Memory!Record, Recorded, RecordedNewer

LEMMA Forgets ==
    ASSUME running' = running, exitval' = exitval,
           \E F \in SUBSET Old(Known(levels), Newer(levels)) :
              /\ Known(levels') = Memory!Without(Known(levels), F)
              /\ Newer(levels') = Memory!Among(Newer(levels), F)
    PROVE  Memory!Forget
  BY MemoryRemembers DEF Memory!Forget

LEMMA KeepsAll ==
    ASSUME Known(levels') = Known(levels), Newer(levels') = Newer(levels), exitval' = exitval
    PROVE  /\ running' = running => UNCHANGED Memory!vars
           /\ \A p : p \in running /\ running' = running \ {p} => Memory!EndWaited(p)
  BY MemoryPrimed DEF Memory!vars, Memory!EndWaited

\* A shell that has not forked has its own table, and exact counters.
Counted == forks = 0 => toclear = FALSE /\ Counts(levels, 0)

\* What a step of such a shell does: its memory makes a step of its own, or none.
MemoryStep == Memory!Next \/ UNCHANGED Memory!vars

\* No step leads back to the shell that has not forked.
LEMMA ForksStay ==
    ASSUME IInv, [Next]_vars, forks' = 0
    PROVE  forks = 0
  <1>1. forks \in Nat
    BY ConstantsAssumption DEF IInv, TypeOK
  <1>2. ForkChild => forks = 0
    BY <1>1 DEF ForkChild
  <1>3. \A p \in Pids : Post(p) \/ UnpostWaited(p) \/ Wait(p) => forks = 0
    BY DEF Post, UnpostWaited, Wait
  <1>4. \A p \in Pids, v \in Vals : Unpost(p, v) \/ ReapUnknown(p, v) => forks = 0
    BY DEF Unpost, ReapUnknown
  <1>5. SubSave \/ SubRestore \/ SubRestoreEvict \/ SubRestoreUnpost \/ SubRestoreEnd
        \/ ClearTable \/ UNCHANGED vars => forks = 0
    BY DEF SubSave, SubRestore, SubRestoreEvict, SubRestoreUnpost, SubRestoreEnd,
           ClearTable, vars
  <1> QED
    BY <1>2, <1>3, <1>4, <1>5 DEF Next

\* Every step of a shell that has not forked is one of its memory.
LEMMA StepRemembers ==
    ASSUME IInv, Single(levels), Counted, [Next]_vars, forks' = 0
    PROVE  toclear' = FALSE /\ Counts(levels', 0) /\ MemoryStep
  <1>0. /\ Good(Store0) /\ Store0.levels = levels /\ levels \in Seq(Level) /\ levels # <<>>
        /\ Single(Store0.levels) /\ 0 \in Nat
    BY DEF Store0, IInv, TypeOK
  <1>1. toclear = FALSE /\ Counts(levels, 0)
    BY ForksStay DEF Counted
  <1>2. \A s : Cleared(s) = s
    BY <1>1 DEF Cleared
  <1>3. ASSUME NEW p \in Pids, Post(p)
        PROVE  toclear' = FALSE /\ Counts(levels', 0) /\ MemoryStep
    <2> DEFINE b == InitSavelist(Store0)
    <2>1. Good(b) /\ b.levels = levels
      BY <1>0, InitSavelistGood, InitSavelistSingle
    <2>2. levels' = ChkSave(b, p).levels /\ toclear' = FALSE /\ exitval' = exitval
      BY <1>2, <1>3 DEF Post, SetStore
    <2> HIDE DEF b
    <2>3. Counts(levels', 0)
      BY <1>0, <1>1, <2>1, <2>2, ChkSaveCounts
    <2>4. /\ Known(levels') = Memory!Without(Known(levels), {p})
          /\ Newer(levels') = Memory!Among(Newer(levels), {p})
      <3>1. Good(b) /\ Single(b.levels)
        BY <1>0, <2>1
      <3>2. /\ Known(ChkSave(b, p).levels) = Memory!Without(Known(b.levels), {p})
            /\ Newer(ChkSave(b, p).levels) = Memory!Among(Newer(b.levels), {p})
        BY <3>1, ChkSaveMemory
      <3> QED
        BY <2>1, <2>2, <3>2
    <2>5. p \notin running /\ running' = running \cup {p}
      BY <1>1, <1>3 DEF Post
    <2>6. Memory!TakeOut(p)
      BY <2>4, TakesOut
    <2>7. Memory!Start(p)
      BY <2>2, <2>5, <2>6 DEF Memory!Start
    <2> QED
      BY <2>2, <2>3, <2>7 DEF MemoryStep, Memory!Next
  <1>4. ASSUME NEW p \in Pids, Wait(p)
        PROVE  toclear' = FALSE /\ Counts(levels', 0) /\ MemoryStep
    <2>1. levels' = ChkSave(Store0, p).levels /\ toclear' = FALSE /\ exitval' = ChkSaveVal(Store0, p)
      BY <1>1, <1>4 DEF Wait, SetStore
    <2>2. Counts(levels', 0)
      BY <1>0, <1>1, <2>1, ChkSaveCounts
    <2>3. /\ Known(levels') = Memory!Without(Known(levels), {p})
          /\ Newer(levels') = Memory!Among(Newer(levels), {p})
          /\ \/ \E e \in Known(levels) : e.pid = p /\ exitval' = e.val
             \/ (\A e \in Known(levels) : e.pid # p) /\ exitval' = Unknown
      BY <1>0, <2>1, ChkSaveMemory
    <2>4. p \notin running /\ running' = running
      BY <1>4 DEF Wait
    <2>5. Memory!TakeOut(p)
      BY <2>3, TakesOut
    <2>6. \/ \E e \in Known(levels) : e.pid = p /\ exitval' = e.val
          \/ (\A e \in Known(levels) : e.pid # p) /\ exitval' = Unknown
      BY <2>3
    <2>7. Memory!Ask(p)
      BY <2>4, <2>5, <2>6 DEF Memory!Ask
    <2> QED
      BY <2>1, <2>2, <2>7 DEF MemoryStep, Memory!Next
  <1>6. ASSUME NEW p \in Pids, NEW v \in Vals, Unpost(p, v)
        PROVE  toclear' = FALSE /\ Counts(levels', 0) /\ MemoryStep
    <2>1. levels' = JobsaveCreate(Store0, p, v).levels /\ toclear' = FALSE /\ exitval' = exitval
      BY <1>1, <1>6 DEF Unpost, SetStore
    <2>2. /\ Counts(levels', 0)
          /\ \E F \in SUBSET Old(Recorded(levels, p, v), RecordedNewer(levels, p)) :
                /\ Known(levels') = Memory!Without(Recorded(levels, p, v), F)
                /\ Newer(levels') = Memory!Among(RecordedNewer(levels, p), F)
      BY <1>0, <1>1, <2>1, CreateMemory
    <2>3. Memory!Record(p, v)
      BY <2>2, Records
    <2>4. p \in running /\ running' = running \ {p}
      BY <1>6 DEF Unpost
    <2>5. Memory!End(p, v)
      BY <2>1, <2>3, <2>4 DEF Memory!End
    <2> QED
      BY <2>1, <2>2, <2>5 DEF MemoryStep, Memory!Next
  <1>7. ASSUME NEW p \in Pids, NEW v \in Vals, ReapUnknown(p, v)
        PROVE  toclear' = FALSE /\ Counts(levels', 0) /\ MemoryStep
    <2> DEFINE a == IF v = 0 THEN ChkSave(Store0, p) ELSE Store0
    <2>1. levels' = JobsaveCreate(a, p, v).levels /\ toclear' = FALSE /\ exitval' = exitval
      BY <1>2, <1>7 DEF ReapUnknown, SetStore
    <2>2. /\ Good(a) /\ Single(a.levels) /\ Counts(a.levels, 0)
          /\ Recorded(a.levels, p, v) = Recorded(levels, p, v)
          /\ RecordedNewer(a.levels, p) = RecordedNewer(levels, p)
      <3>1. CASE v = 0
        <4>1. a = ChkSave(Store0, p)
          BY <3>1
        <4> HIDE DEF a
        <4>2. Good(a) /\ Single(a.levels) /\ Counts(a.levels, 0)
          BY <1>0, <1>1, <4>1, ChkSaveGood, ChkSaveSingle, ChkSaveCounts
        <4>3. /\ Known(a.levels) = Memory!Without(Known(levels), {p})
              /\ Newer(a.levels) = Memory!Among(Newer(levels), {p})
          BY <1>0, <4>1, ChkSaveMemory
        <4>4. /\ Memory!Without(Known(a.levels), {p}) = Memory!Without(Known(levels), {p})
              /\ Memory!Among(Newer(a.levels), {p}) = Memory!Among(Newer(levels), {p})
          BY <4>3 DEF Memory!Without, Memory!Among
        <4> QED
          BY <4>2, <4>4 DEF Recorded, RecordedNewer
      <3>2. CASE v # 0
        BY <1>0, <1>1, <3>2
      <3> QED
        BY <3>1, <3>2
    <2> HIDE DEF a
    <2>3. /\ Counts(levels', 0)
          /\ \E F \in SUBSET Old(Recorded(levels, p, v), RecordedNewer(levels, p)) :
                /\ Known(levels') = Memory!Without(Recorded(levels, p, v), F)
                /\ Newer(levels') = Memory!Among(RecordedNewer(levels, p), F)
      <3>1. /\ Counts(JobsaveCreate(a, p, v).levels, 0)
            /\ \E F \in SUBSET Old(Recorded(a.levels, p, v), RecordedNewer(a.levels, p)) :
                  /\ Known(JobsaveCreate(a, p, v).levels) =
                        Memory!Without(Recorded(a.levels, p, v), F)
                  /\ Newer(JobsaveCreate(a, p, v).levels) =
                        Memory!Among(RecordedNewer(a.levels, p), F)
        BY <2>2, CreateMemory
      <3> QED
        BY <2>1, <2>2, <3>1
    <2>4. Memory!Record(p, v)
      BY <2>3, Records
    <2>5. p \notin running /\ running' = running
      BY <1>1, <1>7 DEF ReapUnknown
    <2>6. Memory!EndUnknown(p, v)
      BY <2>1, <2>4, <2>5 DEF Memory!EndUnknown
    <2> QED
      BY <2>1, <2>3, <2>6 DEF MemoryStep, Memory!Next
  <1>8. CASE SubRestoreEvict
    <2>1. /\ levels' = ChkSave(Store0, Oldest).levels /\ toclear' = FALSE /\ exitval' = exitval
          /\ running' = running /\ levels[1].count > ChildMax
      BY <1>1, <1>8 DEF SubRestoreEvict, SetStore
    <2>2. Counts(levels', 0)
      BY <1>0, <1>1, <2>1, ChkSaveCounts
    <2>3. PICK F \in SUBSET OldestPid(levels) :
             /\ Known(levels') = Memory!Without(Known(levels), F)
             /\ Newer(levels') = Memory!Among(Newer(levels), F)
      BY <1>0, <2>1, OldestMemory
    <2>4. Len(levels[1].list) > ChildMax
      <3>1. Len(levels[1].list) \in Nat
        BY <1>0, LevelType
      <3> QED
        BY <1>1, <2>1, <3>1 DEF Counts
    <2>5. F \in SUBSET Old(Known(levels), Newer(levels))
      BY <1>0, <2>4, LastIsOld
    <2>6. Memory!Forget
      BY <2>1, <2>3, <2>5, Forgets
    <2> QED
      BY <2>1, <2>2, <2>6 DEF MemoryStep, Memory!Next
  <1>9. ASSUME toclear' = FALSE, exitval' = exitval, Counts(levels', 0), running' = running,
               Known(levels') = Known(levels), Newer(levels') = Newer(levels)
        PROVE  toclear' = FALSE /\ Counts(levels', 0) /\ MemoryStep
    BY <1>9, KeepsAll DEF MemoryStep
  <1>10. CASE SubSave
    <2>1. /\ levels' = <<[count |-> 0, list |-> <<>>]>> \o levels
          /\ toclear' = FALSE /\ exitval' = exitval /\ running' = running
      BY <1>1, <1>10 DEF SubSave
    <2>2. LET ms == <<[count |-> 0, list |-> <<>>]>> \o levels IN
          Counts(ms, 0) /\ Known(ms) = Known(levels) /\ Newer(ms) = Newer(levels)
      BY <1>0, <1>1, PushStep
    <2>3. Counts(levels', 0) /\ Known(levels') = Known(levels) /\ Newer(levels') = Newer(levels)
      BY <2>1, <2>2
    <2> QED
      BY <1>9, <2>1, <2>3
  <1>11. CASE SubRestore
    <2>0. Len(levels) >= 2
      BY <1>11 DEF SubRestore, IInv, TypeOK
    <2>1. /\ levels' = <<[count |-> levels[1].count + levels[2].count,
                          list  |-> levels[1].list \o levels[2].list]>>
                        \o SubSeq(levels, 3, Len(levels))
          /\ toclear' = FALSE /\ exitval' = exitval /\ running' = running
      BY <1>1, <1>11 DEF SubRestore
    <2>2. LET ms == <<[count |-> levels[1].count + levels[2].count,
                       list  |-> levels[1].list \o levels[2].list]>>
                     \o SubSeq(levels, 3, Len(levels)) IN
          Counts(ms, 0) /\ Known(ms) = Known(levels) /\ Newer(ms) = Newer(levels)
      BY <1>0, <1>1, <2>0, JoinStep
    <2>3. Counts(levels', 0) /\ Known(levels') = Known(levels) /\ Newer(levels') = Newer(levels)
      BY <2>1, <2>2
    <2> QED
      BY <1>9, <2>1, <2>3
  <1>12. ASSUME UNCHANGED <<levels, running, toclear, exitval>>
         PROVE  toclear' = FALSE /\ Counts(levels', 0) /\ MemoryStep
    BY <1>1, <1>9, <1>12
  <1>13. ASSUME NEW p \in Pids, UnpostWaited(p)
         PROVE  toclear' = FALSE /\ Counts(levels', 0) /\ MemoryStep
    <2>1. /\ UNCHANGED <<levels, toclear, exitval>>
          /\ p \in running /\ running' = running \ {p}
      BY <1>13 DEF UnpostWaited
    <2>2. Memory!EndWaited(p)
      BY <2>1, KeepsAll
    <2> QED
      BY <1>1, <2>1, <2>2 DEF MemoryStep, Memory!Next
  <1>14. SubRestoreUnpost \/ SubRestoreEnd \/ UNCHANGED vars
         => UNCHANGED <<levels, running, toclear, exitval>>
    BY DEF SubRestoreUnpost, SubRestoreEnd, vars
  <1>15. ~ ClearTable
    BY <1>1 DEF ClearTable
  <1>16. ~ ForkChild
    <2>1. forks = 0
      BY ForksStay
    <2> QED
      BY <2>1 DEF ForkChild
  <1> QED
    BY <1>3, <1>4, <1>6, <1>7, <1>8, <1>10, <1>11, <1>12, <1>13, <1>14, <1>15, <1>16
       DEF Next

\* The first shell remembers nothing.
LEMMA InitRemembers ==
    ASSUME Init
    PROVE  IInv /\ Single(levels) /\ Counted /\ Memory!Init
  <1>1. /\ levels = <<[count |-> 0, list |-> <<>>]>> /\ exitval = 0 /\ toclear = FALSE
        /\ running = {}
    BY DEF Init
  <1>2. Len(levels) = 1 /\ levels[1].list = <<>> /\ levels[1].count = 0 /\ Len(<<>>) = 0
    BY <1>1
  <1>3. Single(levels)
    BY <1>2 DEF Single
  <1>4. Counted
    BY <1>1, <1>2 DEF Counted, Counts
  <1>5. Places(levels) = {}
    <2>1. \A k \in 1 .. Len(levels) : 1 .. Len(levels[k].list) = {}
      BY <1>2
    <2> QED
      BY <2>1 DEF Places
  <1>6. Known(levels) = {} /\ Newer(levels) = {}
    BY <1>5 DEF Known, Newer
  <1> QED
    BY <1>1, <1>3, <1>4, <1>6, InitOK DEF Memory!Init

\* In a shell that has not forked, whatever is nested, joined and dropped, the
\* lists of jobs.c behave as one memory: a wait is answered with the status
\* recorded last, once, and a step in which a status is lost posts a process with
\* its ID, answers a wait for it, or leaves ChildMax newer ones behind.
THEOREM ImplementsMemory == Spec => RefinesMemory
  <1> DEFINE J == IInv /\ Single(levels) /\ Counted
  <1>1. Init => J /\ Memory!Init
    BY InitRemembers
  <1>2. J /\ [Next]_vars => J'
    <2> SUFFICES ASSUME J, [Next]_vars
                 PROVE  J'
      OBVIOUS
    <2>1. IInv' /\ Single(levels')
      BY StepOK, SingleStep
    <2>2. Single(levels)' <=> Single(levels')
      BY DEF Single
    <2>3. Counts(levels, 0)' <=> Counts(levels', 0)
      BY DEF Counts
    <2>4. Counted'
      BY <2>3, StepRemembers DEF Counted
    <2> QED
      BY <2>1, <2>2, <2>4
  <1>3. J /\ [Next]_vars => [forks' = 0 => Memory!Next \/ UNCHANGED Memory!vars]_vars
    BY StepRemembers DEF MemoryStep
  <1> QED
    BY <1>1, <1>2, <1>3, PTL DEF Spec, RefinesMemory

=============================================================================
