--------------------------- MODULE SubshellProofs ---------------------------
(***************************************************************************)
(* Theorems about virtual subshells and signals (Subshell), for any depth  *)
(* of subshells, any sets of signals and any number of signals sent.       *)
(***************************************************************************)
EXTENDS Subshell, SequenceTheorems, FiniteSetTheorems, TLAPS

Traps == [Sigs -> Actions]
Frames == [kind : Kinds, saved : Traps, jmp : {"none", "sub"}, subpid : BOOLEAN]

IsSub(frame) == frame.kind = "sub"
One(P) == IF P THEN 1 ELSE 0

\* How many of the first n frames have traps of their own.
Levels(st, n) == Cardinality({i \in 1 .. n : IsSub(st[i])})

----------------------------------------------------------------------------
(* Counting levels.                                                        *)

LEMMA LevelsType ==
    ASSUME NEW st, NEW n \in Nat
    PROVE  /\ IsFiniteSet({i \in 1 .. n : IsSub(st[i])})
           /\ Levels(st, n) \in Nat
  <1>1. IsFiniteSet(1 .. n)
    BY FS_Interval
  <1>2. IsFiniteSet({i \in 1 .. n : IsSub(st[i])})
    BY <1>1, FS_Subset
  <1> QED
    BY <1>2, FS_CardinalityType DEF Levels

LEMMA LevelsZero ==
    ASSUME NEW st
    PROVE  Levels(st, 0) = 0
  <1>1. {i \in 1 .. 0 : IsSub(st[i])} = {}
    OBVIOUS
  <1> QED
    BY <1>1, FS_EmptySet DEF Levels

\* One frame more.
LEMMA LevelsNext ==
    ASSUME NEW st, NEW n \in Nat \ {0}
    PROVE  Levels(st, n) = Levels(st, n - 1) + One(IsSub(st[n]))
  <1> DEFINE A == {i \in 1 .. n - 1 : IsSub(st[i])}
             C == {i \in 1 .. n : IsSub(st[i])}
  <1>1. IsFiniteSet(A) /\ Cardinality(A) \in Nat
    BY LevelsType, n - 1 \in Nat, FS_CardinalityType
  <1>2. CASE IsSub(st[n])
    <2>1. C = A \cup {n} /\ n \notin A
      BY <1>2
    <2> HIDE DEF A, C
    <2>2. Cardinality(C) = Cardinality(A) + 1
      BY <2>1, <1>1, FS_AddElement
    <2>3. Levels(st, n) = Cardinality(C) /\ Levels(st, n - 1) = Cardinality(A)
      BY DEF Levels, A, C
    <2>4. One(IsSub(st[n])) = 1
      BY <1>2 DEF One
    <2> QED
      BY <2>2, <2>3, <2>4
  <1>3. CASE ~ IsSub(st[n])
    <2>1. C = A
      BY <1>3
    <2>2. Levels(st, n) = Cardinality(C) /\ Levels(st, n - 1) = Cardinality(A)
      BY DEF Levels, A, C
    <2>3. One(IsSub(st[n])) = 0
      BY <1>3 DEF One
    <2> HIDE DEF A, C
    <2> QED
      BY <2>1, <1>1, <2>2, <2>3
  <1> QED
    BY <1>2, <1>3

\* Only the kinds of frames count.
LEMMA LevelsSame ==
    ASSUME NEW st, NEW su, NEW n \in Nat, \A i \in 1 .. n : IsSub(su[i]) <=> IsSub(st[i])
    PROVE  Levels(su, n) = Levels(st, n)
  <1>1. {i \in 1 .. n : IsSub(su[i])} = {i \in 1 .. n : IsSub(st[i])}
    OBVIOUS
  <1> QED
    BY <1>1 DEF Levels

LEMMA LevelsMonotonic ==
    ASSUME NEW st, NEW n \in Nat, NEW m \in 0 .. n
    PROVE  Levels(st, m) <= Levels(st, n)
  <1>1. {i \in 1 .. m : IsSub(st[i])} \subseteq {i \in 1 .. n : IsSub(st[i])}
    OBVIOUS
  <1>2. IsFiniteSet({i \in 1 .. n : IsSub(st[i])})
    BY LevelsType
  <1> QED
    BY <1>1, <1>2, FS_Subset DEF Levels

\* Without such frames there are no levels.
LEMMA NoLevels ==
    ASSUME NEW st, NEW n \in Nat, \A i \in 1 .. n : ~ IsSub(st[i])
    PROVE  Levels(st, n) = 0
  <1>1. {i \in 1 .. n : IsSub(st[i])} = {}
    OBVIOUS
  <1> QED
    BY <1>1, FS_EmptySet DEF Levels

----------------------------------------------------------------------------
(* A stack of subshells st and the traps mi of its levels.  open is 0 while *)
(* the innermost subshell has no traps of its own yet, or no more: then     *)
(* there is one level less.                                                 *)

\* ${ } runs on the level of another one or of the main shell only.
Shaped(st) == \A i, j \in 1 .. Len(st) : i < j /\ IsSub(st[i]) => IsSub(st[j])

\* What a subshell saved is what its parent level has.
SavedOn(st, mi) ==
    \A i \in 1 .. Len(st) : IsSub(st[i]) => st[i].saved = mi[Levels(st, i)]

\* A subshell has no traps but those of the main shell that ignore a signal.
Inherited(mi) ==
    \A k \in 2 .. Len(mi) : \A s \in Sigs :
        mi[k][s] = "none" \/ (mi[k][s] = "ign" /\ mi[1][s] = "ign")

Levelled(st, mi, tr, open) ==
    /\ st \in Seq(Frames) /\ mi \in Seq(Traps) /\ tr \in Traps
    /\ Shaped(st)
    /\ Len(mi) = Levels(st, Len(st)) + open /\ Len(mi) >= 1
    /\ tr = mi[Len(mi)]
    /\ SavedOn(st, mi)
    /\ Inherited(mi)

\* Where the innermost frame is ${ } there is only the level of the main shell.
LEMMA ShareAtTop ==
    ASSUME NEW st \in Seq(Frames), Shaped(st), st # <<>>, ~ IsSub(st[Len(st)])
    PROVE  Levels(st, Len(st)) = 0
  <1>1. Len(st) \in Nat /\ Len(st) >= 1
    OBVIOUS
  <1>2. \A i \in 1 .. Len(st) : ~ IsSub(st[i])
    BY <1>1 DEF Shaped
  <1> QED
    BY <1>1, <1>2, NoLevels

\* Frames with the same kinds and saved traps.
LEMMA LevelledSame ==
    ASSUME NEW st, NEW mi, NEW tr, NEW open, Levelled(st, mi, tr, open),
           NEW su \in Seq(Frames), Len(su) = Len(st),
           \A i \in 1 .. Len(st) : su[i].kind = st[i].kind /\ su[i].saved = st[i].saved
    PROVE  Levelled(su, mi, tr, open)
  <1>1. \A i \in 1 .. Len(st) : IsSub(su[i]) <=> IsSub(st[i])
    BY DEF IsSub
  <1>2. Len(st) \in Nat
    BY DEF Levelled
  <1>3. \A n \in 0 .. Len(st) : Levels(su, n) = Levels(st, n)
    <2>1. TAKE n \in 0 .. Len(st)
    <2>2. n \in Nat /\ \A i \in 1 .. n : IsSub(su[i]) <=> IsSub(st[i])
      BY <1>1, <1>2
    <2> QED
      BY <2>2, LevelsSame
  <1>4. Shaped(su)
    BY <1>1 DEF Shaped, Levelled
  <1>5. SavedOn(su, mi)
    BY <1>1, <1>2, <1>3 DEF SavedOn, Levelled
  <1> QED
    BY <1>2, <1>3, <1>4, <1>5 DEF Levelled

\* A level that a frame saved from is there, below the current one.
LEMMA SavedLevel ==
    ASSUME NEW st \in Seq(Frames), NEW i \in 1 .. Len(st), IsSub(st[i])
    PROVE  Levels(st, i) \in 1 .. Levels(st, Len(st))
  <1>1. Len(st) \in Nat /\ i \in Nat \ {0} /\ i - 1 \in Nat
    OBVIOUS
  <1>2. Levels(st, i) = Levels(st, i - 1) + 1
    BY <1>1, LevelsNext DEF One
  <1>3. Levels(st, i - 1) \in Nat /\ Levels(st, Len(st)) \in Nat
    BY <1>1, LevelsType
  <1>4. Levels(st, i) <= Levels(st, Len(st))
    BY <1>1, LevelsMonotonic
  <1> QED
    BY <1>2, <1>3, <1>4

\* The jump marks the innermost frame.
LEMMA MarkFrame ==
    ASSUME NEW st \in Seq(Frames), st # <<>>,
           NEW fr \in Frames, fr.kind = st[Len(st)].kind, fr.saved = st[Len(st)].saved, fr.jmp = "sub",
           NEW su, su = [st EXCEPT ![Len(st)] = fr]
    PROVE  /\ su \in Seq(Frames) /\ Len(su) = Len(st)
           /\ \A i \in 1 .. Len(st) : su[i].kind = st[i].kind /\ su[i].saved = st[i].saved
           /\ \A i \in 1 .. Len(st) : su[i].jmp = IF i = Len(st) THEN "sub" ELSE st[i].jmp
           /\ su[Len(st)] = fr
  <1>1. Len(st) \in Nat /\ Len(st) \in 1 .. Len(st)
    OBVIOUS
  <1>2. /\ su \in Seq(Frames) /\ Len(su) = Len(st)
        /\ \A i \in 1 .. Len(st) : su[i] = IF i = Len(st) THEN fr ELSE st[i]
    BY <1>1, ExceptSeq
  <1>3. ASSUME NEW i \in 1 .. Len(st)
        PROVE  /\ su[i].kind = st[i].kind /\ su[i].saved = st[i].saved
               /\ su[i].jmp = IF i = Len(st) THEN "sub" ELSE st[i].jmp
    <2>1. CASE i = Len(st)
      BY <2>1, <1>2
    <2>2. CASE i # Len(st)
      <3>1. su[i] = st[i]
        BY <2>2, <1>2
      <3> QED
        BY ONLY <3>1, <2>2
    <2> QED
      BY <2>1, <2>2
  <1>4. su[Len(st)] = fr
    BY <1>1, <1>2
  <1> QED
    BY <1>2, <1>3, <1>4

\* A new frame on the stack.
LEMMA PushFrame ==
    ASSUME NEW st, NEW mi, NEW tr, Levelled(st, mi, tr, 1),
           NEW fr \in Frames, fr.saved = tr,
           IsSub(fr) \/ st = <<>> \/ ~ IsSub(st[Len(st)])
    PROVE  Levelled(Append(st, fr), mi, tr, 1 - One(IsSub(fr)))
  <1> DEFINE n == Len(st)
             su == Append(st, fr)
  <1>1. /\ st \in Seq(Frames) /\ mi \in Seq(Traps) /\ tr \in Traps /\ Shaped(st)
        /\ Len(mi) = Levels(st, n) + 1 /\ tr = mi[Len(mi)] /\ SavedOn(st, mi) /\ Inherited(mi)
        /\ n \in Nat /\ Len(mi) \in Nat
    BY DEF Levelled
  <1>2. /\ su \in Seq(Frames) /\ Len(su) = n + 1 /\ su[n + 1] = fr
        /\ \A i \in 1 .. n : su[i] = st[i]
    BY <1>1, AppendProperties
  <1> HIDE DEF su
  <1>3. \A m \in 0 .. n : Levels(su, m) = Levels(st, m)
    <2>1. TAKE m \in 0 .. n
    <2>2. m \in Nat /\ \A i \in 1 .. m : IsSub(su[i]) <=> IsSub(st[i])
      BY <1>1, <1>2
    <2> QED
      BY <2>2, LevelsSame
  <1>4. Levels(su, n + 1) = Levels(st, n) + One(IsSub(fr))
    <2>1. n + 1 \in Nat \ {0} /\ (n + 1) - 1 = n /\ n \in 0 .. n
      BY <1>1
    <2>2. Levels(su, n + 1) = Levels(su, n) + One(IsSub(su[n + 1]))
      BY <2>1, LevelsNext
    <2> QED
      BY <2>1, <2>2, <1>2, <1>3
  <1>5. Levels(st, n) \in Nat /\ One(IsSub(fr)) \in {0, 1}
    BY <1>1, LevelsType DEF One
  <1>6. Shaped(su)
    <2>1. SUFFICES ASSUME NEW i \in 1 .. n + 1, NEW j \in 1 .. n + 1, i < j, IsSub(su[i])
                   PROVE  IsSub(su[j])
      BY <1>2 DEF Shaped
    <2>2. i \in 1 .. n /\ IsSub(st[i])
      BY <2>1, <1>1, <1>2
    <2>3. CASE j = n + 1
      <3>1. n >= 1 /\ st # <<>>
        BY <2>2, <1>1
      <3>2. IsSub(st[n])
        BY <2>2, <3>1, <1>1 DEF Shaped
      <3> QED
        BY <3>1, <3>2, <2>3, <1>2
    <2>4. CASE j # n + 1
      <3>1. j \in 1 .. n /\ i < j
        BY <2>1, <2>4, <1>1
      <3>2. IsSub(st[j])
        BY <3>1, <2>2, <1>1 DEF Shaped
      <3> QED
        BY <3>1, <3>2, <1>2
    <2> QED
      BY <2>3, <2>4
  <1>7. SavedOn(su, mi)
    <2>1. SUFFICES ASSUME NEW i \in 1 .. n + 1, IsSub(su[i])
                   PROVE  su[i].saved = mi[Levels(su, i)]
      BY <1>2 DEF SavedOn
    <2>2. CASE i = n + 1
      <3>1. IsSub(fr)
        BY <2>1, <2>2, <1>2
      <3>2. Levels(su, n + 1) = Len(mi)
        BY <3>1, <1>1, <1>4 DEF One
      <3> QED
        BY <3>2, <2>2, <1>1, <1>2
    <2>3. CASE i # n + 1
      BY <2>1, <2>3, <1>1, <1>2, <1>3 DEF SavedOn
    <2> QED
      BY <2>2, <2>3
  <1>8. Len(mi) = Levels(su, Len(su)) + (1 - One(IsSub(fr))) /\ Len(mi) >= 1
    BY <1>1, <1>2, <1>4, <1>5
  <1> QED
    BY <1>1, <1>2, <1>6, <1>7, <1>8 DEF Levelled, su

\* A level more: the traps are reset.
LEMMA SaveTraps ==
    ASSUME NEW st, NEW mi, NEW tr, Levelled(st, mi, tr, 0)
    PROVE  Levelled(st, Append(mi, Reset(tr)), Reset(tr), 1)
  <1> DEFINE n == Len(mi)
             mj == Append(mi, Reset(tr))
  <1>1. /\ st \in Seq(Frames) /\ mi \in Seq(Traps) /\ tr \in Traps /\ Shaped(st)
        /\ n = Levels(st, Len(st)) /\ n >= 1 /\ tr = mi[n] /\ SavedOn(st, mi) /\ Inherited(mi)
        /\ n \in Nat
    <2>1. st \in Seq(Frames) /\ Len(st) \in Nat
      BY DEF Levelled
    <2>2. Levels(st, Len(st)) \in Nat
      BY <2>1, LevelsType
    <2> QED
      BY <2>2 DEF Levelled
  <1>2. Reset(tr) \in Traps
    BY <1>1 DEF Reset, Traps, Actions
  <1>3. /\ mj \in Seq(Traps) /\ Len(mj) = n + 1 /\ mj[n + 1] = Reset(tr)
        /\ \A i \in 1 .. n : mj[i] = mi[i]
    BY <1>1, <1>2, AppendProperties
  <1> HIDE DEF mj
  <1>4. SavedOn(st, mj)
    <2>1. SUFFICES ASSUME NEW i \in 1 .. Len(st), IsSub(st[i])
                   PROVE  st[i].saved = mj[Levels(st, i)]
      BY DEF SavedOn
    <2>2. Levels(st, i) \in 1 .. n
      BY <2>1, <1>1, SavedLevel
    <2> QED
      BY <2>1, <2>2, <1>1, <1>3 DEF SavedOn
  <1>5. Inherited(mj)
    <2>1. SUFFICES ASSUME NEW k \in 2 .. n + 1, NEW s \in Sigs
                   PROVE  mj[k][s] = "none" \/ (mj[k][s] = "ign" /\ mj[1][s] = "ign")
      BY <1>3 DEF Inherited
    <2>2. mj[1] = mi[1]
      BY <1>1, <1>3
    <2>3. CASE k = n + 1
      <3>1. mj[k][s] = Reset(tr)[s] /\ Reset(tr)[s] = IF tr[s] = "cmd" THEN "none" ELSE tr[s]
        BY <2>3, <1>3 DEF Reset
      <3>2. tr[s] \in {"none", "ign", "cmd"}
        BY <1>1 DEF Traps, Actions
      <3>3. n = 1 \/ (n \in 2 .. n)
        BY <1>1
      <3> QED
        BY <3>1, <3>2, <3>3, <2>2, <1>1 DEF Inherited
    <2>4. CASE k # n + 1
      <3>1. k \in 2 .. n /\ k \in 1 .. n
        BY <2>4, <1>1
      <3> QED
        BY <3>1, <2>2, <1>1, <1>3 DEF Inherited
    <2> QED
      BY <2>3, <2>4
  <1> QED
    BY <1>1, <1>2, <1>3, <1>4, <1>5 DEF Levelled, mj

\* All but the last element.
LEMMA FrontProperties ==
    ASSUME NEW S, NEW q \in Seq(S), q # <<>>
    PROVE  /\ Front(q) \in Seq(S) /\ Len(Front(q)) = Len(q) - 1
           /\ \A i \in 1 .. Len(q) - 1 : Front(q)[i] = q[i]
           /\ Last(q) = q[Len(q)] /\ Last(q) \in S /\ Len(q) \in Nat \ {0}
  <1>1. Len(q) \in Nat \ {0} /\ \A i \in 1 .. Len(q) - 1 : q[i] \in S
    OBVIOUS
  <1>2. q[Len(q)] \in S
    BY <1>1
  <1>3. Front(q) = SubSeq(q, 1, Len(q) - 1) /\ Last(q) = q[Len(q)]
    BY DEF Front, Last
  <1>4. 1 \in Int /\ Len(q) - 1 \in Int
    BY <1>1
  <1>5. /\ SubSeq(q, 1, Len(q) - 1) \in Seq(S)
        /\ Len(SubSeq(q, 1, Len(q) - 1)) =
              IF 1 <= Len(q) - 1 THEN (Len(q) - 1) - 1 + 1 ELSE 0
        /\ \A i \in 1 .. (Len(q) - 1) - 1 + 1 : SubSeq(q, 1, Len(q) - 1)[i] = q[1 + i - 1]
    BY <1>1, <1>4, SubSeqProperties
  <1> DEFINE f == SubSeq(q, 1, Len(q) - 1)
  <1>6. f \in Seq(S) /\ \A i \in 1 .. (Len(q) - 1) - 1 + 1 : f[i] = q[1 + i - 1]
    BY <1>5
  <1>7. Len(f) = IF 1 <= Len(q) - 1 THEN (Len(q) - 1) - 1 + 1 ELSE 0
    BY <1>5
  <1> HIDE DEF f
  <1>8. \A i \in 1 .. Len(q) - 1 : f[i] = q[i]
    BY <1>1, <1>6
  <1>9. Len(f) = Len(q) - 1
    <2>1. \A n \in Nat \ {0} : (IF 1 <= n - 1 THEN (n - 1) - 1 + 1 ELSE 0) = n - 1
      OBVIOUS
    <2> QED
      BY <2>1, <1>1, <1>7
  <1> QED
    BY <1>1, <1>2, <1>3, <1>6, <1>8, <1>9 DEF f

\* The traps are put back: those of the level below.
LEMMA RestoreTraps ==
    ASSUME NEW st, NEW mi, NEW tr, Levelled(st, mi, tr, 1), st # <<>>, IsSub(st[Len(st)])
    PROVE  /\ Levelled(st, Front(mi), st[Len(st)].saved, 0)
           /\ Len(mi) \in Nat /\ Len(mi) > 1 /\ Front(mi)[1] = mi[1]
  <1> DEFINE n == Len(mi)
             mj == Front(mi)
  <1>1. /\ st \in Seq(Frames) /\ mi \in Seq(Traps) /\ tr \in Traps /\ Shaped(st)
        /\ n = Levels(st, Len(st)) + 1 /\ tr = mi[n] /\ SavedOn(st, mi) /\ Inherited(mi)
        /\ n \in Nat /\ Len(st) \in 1 .. Len(st) /\ mi # <<>>
    BY DEF Levelled
  <1>2. Levels(st, Len(st)) \in 1 .. Levels(st, Len(st)) /\ Levels(st, Len(st)) \in Nat
    BY <1>1, SavedLevel, LevelsType
  <1>3. /\ mj \in Seq(Traps) /\ Len(mj) = n - 1
        /\ \A i \in 1 .. n - 1 : mj[i] = mi[i]
    BY <1>1, FrontProperties
  <1> HIDE DEF mj
  <1>4. n > 1 /\ Len(mj) = Levels(st, Len(st)) /\ Len(mj) \in 1 .. Len(mj) /\ mj[1] = mi[1]
    BY <1>1, <1>2, <1>3
  <1>5. SavedOn(st, mj)
    <2>1. SUFFICES ASSUME NEW i \in 1 .. Len(st), IsSub(st[i])
                   PROVE  st[i].saved = mj[Levels(st, i)]
      BY DEF SavedOn
    <2>2. Levels(st, i) \in 1 .. n - 1
      BY <2>1, <1>1, <1>4, <1>3, SavedLevel
    <2> QED
      BY <2>1, <2>2, <1>1, <1>3 DEF SavedOn
  <1>6. st[Len(st)].saved = mj[Len(mj)]
    BY <1>1, <1>4, <1>5 DEF SavedOn
  <1>7. mj[Len(mj)] \in Traps
    BY <1>3, <1>4
  <1>8. Inherited(mj)
    <2>1. SUFFICES ASSUME NEW k \in 2 .. n - 1, NEW s \in Sigs
                   PROVE  mj[k][s] = "none" \/ (mj[k][s] = "ign" /\ mj[1][s] = "ign")
      BY <1>3 DEF Inherited
    <2>2. k \in 2 .. n /\ k \in 1 .. n - 1
      BY <1>1
    <2> QED
      BY <2>2, <1>1, <1>3, <1>4 DEF Inherited
  <1> QED
    BY <1>1, <1>3, <1>4, <1>5, <1>6, <1>7, <1>8 DEF Levelled, mj

\* The innermost frame goes; its level has gone before.
LEMMA PopFrame ==
    ASSUME NEW st, NEW mi, NEW tr, st # <<>>,
           Levelled(st, mi, tr, 1 - One(IsSub(st[Len(st)])))
    PROVE  Levelled(Front(st), mi, tr, 1)
  <1> DEFINE n == Len(st)
             su == Front(st)
  <1>1. /\ st \in Seq(Frames) /\ mi \in Seq(Traps) /\ tr \in Traps /\ Shaped(st)
        /\ Len(mi) = Levels(st, n) + (1 - One(IsSub(st[n]))) /\ Len(mi) >= 1 /\ tr = mi[Len(mi)]
        /\ SavedOn(st, mi) /\ Inherited(mi)
        /\ n \in Nat \ {0} /\ n - 1 \in Nat /\ Len(mi) \in Nat
    BY DEF Levelled
  <1>2. /\ su \in Seq(Frames) /\ Len(su) = n - 1
        /\ \A i \in 1 .. n - 1 : su[i] = st[i]
    BY <1>1, FrontProperties
  <1> HIDE DEF su
  <1>3. \A m \in 0 .. n - 1 : Levels(su, m) = Levels(st, m)
    <2>1. TAKE m \in 0 .. n - 1
    <2>2. m \in Nat /\ \A i \in 1 .. m : IsSub(su[i]) <=> IsSub(st[i])
      BY <1>1, <1>2
    <2> QED
      BY <2>2, LevelsSame
  <1>4. Levels(st, n) = Levels(st, n - 1) + One(IsSub(st[n])) /\ Levels(st, n - 1) \in Nat
    BY <1>1, LevelsNext, LevelsType
  <1>5. One(IsSub(st[n])) \in {0, 1}
    BY DEF One
  <1>6. Len(mi) = Levels(su, Len(su)) + 1
    BY <1>1, <1>2, <1>3, <1>4, <1>5
  <1>7. Shaped(su)
    <2>1. SUFFICES ASSUME NEW i \in 1 .. n - 1, NEW j \in 1 .. n - 1, i < j, IsSub(su[i])
                   PROVE  IsSub(su[j])
      BY <1>2 DEF Shaped
    <2>2. i \in 1 .. n /\ j \in 1 .. n /\ IsSub(st[i])
      BY <2>1, <1>1, <1>2
    <2>3. IsSub(st[j])
      BY <2>1, <2>2, <1>1 DEF Shaped
    <2> QED
      BY <2>3, <1>2
  <1>8. SavedOn(su, mi)
    <2>1. SUFFICES ASSUME NEW i \in 1 .. n - 1, IsSub(su[i])
                   PROVE  su[i].saved = mi[Levels(su, i)]
      BY <1>2 DEF SavedOn
    <2>2. i \in 1 .. n /\ i \in 0 .. n - 1
      BY <1>1
    <2> QED
      BY <2>1, <2>2, <1>1, <1>2, <1>3 DEF SavedOn
  <1> QED
    BY <1>1, <1>2, <1>6, <1>7, <1>8 DEF Levelled, su

\* A trap is set on the current level; on that of a subshell it can only be cleared.
LEMMA SetTrap ==
    ASSUME NEW st, NEW mi, NEW tr, Levelled(st, mi, tr, 1), NEW s \in Sigs, NEW a \in Actions,
           a = "none" \/ st = <<>> \/ ~ IsSub(st[Len(st)])
    PROVE  /\ Levelled(st, [mi EXCEPT ![Len(mi)][s] = a], [tr EXCEPT ![s] = a], 1)
           /\ Len(mi) > 1 => a = "none" /\ [mi EXCEPT ![Len(mi)][s] = a][1] = mi[1]
  <1> DEFINE n == Len(mi)
             tt == [tr EXCEPT ![s] = a]
             mj == [mi EXCEPT ![n] = tt]
  <1>1. /\ st \in Seq(Frames) /\ mi \in Seq(Traps) /\ tr \in Traps /\ Shaped(st)
        /\ n = Levels(st, Len(st)) + 1 /\ tr = mi[n] /\ SavedOn(st, mi) /\ Inherited(mi)
        /\ n \in Nat /\ n \in 1 .. n /\ Len(st) \in Nat
    BY DEF Levelled
  <1>2. tt \in Traps /\ \A r \in Sigs : tt[r] = IF r = s THEN a ELSE tr[r]
    BY <1>1 DEF Traps
  <1>3. [mi EXCEPT ![n][s] = a] = mj
    BY <1>1
  <1>4. /\ mj \in Seq(Traps) /\ Len(mj) = n
        /\ \A i \in 1 .. n : mj[i] = IF i = n THEN tt ELSE mi[i]
    BY <1>1, <1>2, ExceptSeq
  <1> HIDE DEF mj, tt
  <1>5. n > 1 => a = "none"
    <2>1. CASE st = <<>>
      <3>1. Len(st) = 0 /\ Levels(st, 0) = 0
        BY <2>1, LevelsZero
      <3> QED
        BY <3>1, <1>1
    <2>2. CASE st # <<>> /\ ~ IsSub(st[Len(st)])
      <3>1. Levels(st, Len(st)) = 0
        BY <2>2, <1>1, ShareAtTop
      <3> QED
        BY <3>1, <1>1
    <2> QED
      BY <2>1, <2>2
  <1>6. SavedOn(st, mj)
    <2>1. SUFFICES ASSUME NEW i \in 1 .. Len(st), IsSub(st[i])
                   PROVE  st[i].saved = mj[Levels(st, i)]
      BY DEF SavedOn
    <2>2. Levels(st, i) \in 1 .. Levels(st, Len(st)) /\ Levels(st, Len(st)) \in Nat
      BY <2>1, <1>1, SavedLevel, LevelsType
    <2>3. Levels(st, i) \in 1 .. n /\ Levels(st, i) # n
      BY <2>2, <1>1
    <2> QED
      BY <2>1, <2>3, <1>1, <1>4 DEF SavedOn
  <1>7. Inherited(mj)
    <2>1. SUFFICES ASSUME NEW k \in 2 .. n, NEW r \in Sigs
                   PROVE  mj[k][r] = "none" \/ (mj[k][r] = "ign" /\ mj[1][r] = "ign")
      BY <1>4 DEF Inherited
    <2>2. n > 1 /\ k \in 1 .. n /\ mj[1] = mi[1]
      BY <1>1, <1>4
    <2>3. mi[k][r] = "none" \/ (mi[k][r] = "ign" /\ mi[1][r] = "ign")
      BY <1>1 DEF Inherited
    <2>4. CASE k = n
      BY <2>2, <2>3, <2>4, <1>1, <1>2, <1>4, <1>5
    <2>5. CASE k # n
      BY <2>2, <2>3, <2>5, <1>4
    <2> QED
      BY <2>4, <2>5
  <1> QED
    BY <1>1, <1>2, <1>3, <1>4, <1>5, <1>6, <1>7 DEF Levelled, mj, tt

----------------------------------------------------------------------------
(* Traps and levels in every state.                                        *)

Lefts == [kind : Kinds \cup {"top"}, jmp : {"none", "sub"}, subpid : BOOLEAN]

Typed ==
    /\ pc \in {"cmd", "start", "run", "entry", "enter", "begin", "open", "leave", "restore", "end",
               "clear", "send", "wait", "ignored", "last", "gone"}
    /\ Len(stack) <= MaxDepth /\ left \in Lefts
    /\ noted \subseteq Sigs /\ trapnote \subseteq {"TRAP", "SET"}
    /\ savesig \in Sigs \cup {Off, Critical} /\ {lastsig, ignsig, nsig} \subseteq Sigs \cup {Off}
    /\ pending \subseteq Sigs /\ blocked \subseteq Sigs
    /\ owed \subseteq Sigs /\ credit \in [Sigs -> Int]

Open(p, st) == IF p \in {"enter", "end"} THEN 1 - One(IsSub(st[Len(st)])) ELSE 1

\* The critical region is open from the entry to the commands, and from their end.
Region ==
    /\ pc \in {"cmd", "start", "run", "entry", "send", "wait", "ignored", "last"} => savesig = Off
    /\ pc \in {"enter", "begin", "open", "restore", "end", "clear"} => savesig # Off
    /\ nsig # Off => pc \in {"clear", "send"}

Where ==
    /\ pc \in {"enter", "begin", "open", "leave", "restore", "end"} => stack # <<>>
    /\ pc = "gone" => stack = <<>>
    /\ pc = "entry" => Len(stack) < MaxDepth

Core ==
    /\ Typed /\ Region /\ Where
    /\ Levelled(stack, mine, traps, Open(pc, stack))

\* The innermost level is left by a jump, or the script.
LEMMA JumpLeaves ==
    ASSUME Levelled(stack, mine, traps, 1), left \in Lefts, NEW b \in BOOLEAN, Jump(b)
    PROVE  /\ Levelled(stack', mine, traps, 1) /\ Len(stack') = Len(stack) /\ left' \in Lefts
           /\ stack # <<>> =>
                /\ pc' = "leave" /\ stack' # <<>> /\ left' = Nothing
                /\ \A i \in 1 .. Len(stack) : stack'[i].jmp = IF i = Len(stack) THEN "sub" ELSE stack[i].jmp
           /\ stack = <<>> => pc' = "gone" /\ stack' = <<>> /\ left' = left
  <1>1. CASE stack = <<>>
    BY <1>1 DEF Jump, Inside
  <1>2. CASE stack # <<>>
    <2> DEFINE n == Len(stack)
               fr == [stack[n] EXCEPT !.jmp = "sub", !.subpid = b \/ stack[n].subpid]
               su == [stack EXCEPT ![n] = fr]
    <2>1. stack \in Seq(Frames) /\ n \in Nat \ {0} /\ n \in 1 .. n
      BY <1>2 DEF Levelled
    <2>2. stack[n] \in Frames
      BY <2>1
    <2>3. fr \in Frames /\ fr.kind = stack[n].kind /\ fr.saved = stack[n].saved /\ fr.jmp = "sub"
      BY <2>2 DEF Frames
    <2>4. stack' = su /\ pc' = "leave" /\ left' = Nothing
      BY <1>2, <2>1, <2>2 DEF Jump, Inside, Frames
    <2> HIDE DEF fr
    <2>9. su = [stack EXCEPT ![Len(stack)] = fr]
      OBVIOUS
    <2> HIDE DEF su
    <2>5. /\ su \in Seq(Frames) /\ Len(su) = n
          /\ \A i \in 1 .. n : su[i].kind = stack[i].kind /\ su[i].saved = stack[i].saved
          /\ \A i \in 1 .. n : su[i].jmp = IF i = n THEN "sub" ELSE stack[i].jmp
      BY <2>1, <2>3, <2>9, <1>2, MarkFrame
    <2>6. Levelled(su, mine, traps, 1)
      BY <2>5, LevelledSame
    <2>7. left' \in Lefts
      BY <2>4 DEF Nothing, Lefts
    <2>8. su # <<>>
      BY <2>1, <2>5
    <2> QED
      BY <1>2, <2>4, <2>5, <2>6, <2>7, <2>8
  <1> QED
    BY <1>1, <1>2

\* No way into a subshell, within it or out of it mixes up levels and traps.
LEMMA CoreInit == Init => Core
  <1> SUFFICES ASSUME Init PROVE Core
    OBVIOUS
  <1>1. Typed /\ Region /\ Where
    BY ConstantsAssumption, FS_EmptySet DEF Init, Typed, Region, Where, Lefts, Nothing
  <1>2. Levels(<<>>, 0) = 0 /\ Len(<<>>) = 0
    BY LevelsZero
  <1>3. stack = <<>> /\ traps \in Traps /\ mine = <<traps>> /\ pc = "cmd"
    BY DEF Init, Traps
  <1>4. mine \in Seq(Traps) /\ Len(mine) = 1 /\ mine[1] = traps
    BY <1>3
  <1>5. Levelled(<<>>, mine, traps, 1)
    BY <1>2, <1>3, <1>4 DEF Levelled, Shaped, SavedOn, Inherited
  <1> QED
    BY <1>1, <1>3, <1>5 DEF Core, Open

\* Steps of a handler or of a command that may jump.
LEMMA CoreJump ==
    ASSUME Core, pc \notin {"enter", "end"}, NEW b \in BOOLEAN, Jump(b), mine' = mine, traps' = traps,
           savesig = Off, savesig' \in {Off, Critical}, nsig' = Off
    PROVE  /\ Region' /\ Where' /\ Levelled(stack, mine, traps, Open(pc, stack))'
           /\ pc' \in {"leave", "gone"} /\ Len(stack') <= MaxDepth /\ left' \in Lefts
  <1>1. Levelled(stack, mine, traps, 1) /\ left \in Lefts /\ Len(stack) <= MaxDepth
    BY DEF Core, Open, Typed
  <1>2. /\ Levelled(stack', mine, traps, 1) /\ Len(stack') = Len(stack) /\ left' \in Lefts
        /\ stack # <<>> => pc' = "leave" /\ stack' # <<>>
        /\ stack = <<>> => pc' = "gone" /\ stack' = <<>>
    BY <1>1, JumpLeaves
  <1> QED
    BY <1>1, <1>2 DEF Region, Where, Open

LEMMA CoreFault ==
    ASSUME Core, NEW s \in Sigs, Fault(s)
    PROVE  Core'
  <1>1. savesig = Off => pc \notin {"enter", "end"}
    BY DEF Core, Region
  <1>2. Off \notin Sigs /\ Critical \notin Sigs /\ Off # Critical
    BY ConstantsAssumption DEF Off, Critical
  <1>3. CASE FaultSaves(s)
    <2>1. savesig' # Off /\ savesig' \in Sigs \cup {Off, Critical}
      BY <1>2, <1>3 DEF FaultSaves, Core, Typed
    <2> QED
      BY <2>1, <1>3 DEF FaultSaves, Delivered, ghosts, Core, Typed, Region, Where, Open
  <1>4. CASE FaultForks(s)
    <2>1. /\ Jump(TRUE) /\ savesig' = Critical /\ savesig = Off /\ nsig' = Off
          /\ mine' = mine /\ traps' = traps
      BY <1>4 DEF FaultForks, Subfork, ghosts
    <2>2. /\ Region' /\ Where' /\ Levelled(stack, mine, traps, Open(pc, stack))'
          /\ pc' \in {"leave", "gone"} /\ Len(stack') <= MaxDepth /\ left' \in Lefts
      BY <1>1, <2>1, CoreJump
    <2>3. Typed'
      BY <1>4, <2>1, <2>2 DEF FaultForks, Delivered, ghosts, Core, Typed
    <2> QED
      BY <2>2, <2>3 DEF Core
  <1>5. CASE FaultIgnores(s)
    BY <1>5 DEF FaultIgnores, Delivered, ghosts, Core, Typed, Region, Where, Open
  <1>6. CASE FaultExits(s)
    <2>1. CASE Inside
      <3>1. /\ Jump(FALSE) /\ savesig' = Off /\ savesig = Off /\ nsig' = Off
            /\ mine' = mine /\ traps' = traps
        BY <1>6, <2>1 DEF FaultExits, ghosts
      <3>2. /\ Region' /\ Where' /\ Levelled(stack, mine, traps, Open(pc, stack))'
            /\ pc' \in {"leave", "gone"} /\ Len(stack') <= MaxDepth /\ left' \in Lefts
        BY <1>1, <3>1, CoreJump
      <3>3. Typed'
        BY <1>6, <2>1, <3>1, <3>2 DEF FaultExits, SetLast, Delivered, ghosts, Core, Typed
      <3> QED
        BY <3>2, <3>3 DEF Core
    <2>2. CASE ~ Inside
      BY <1>6, <2>2 DEF FaultExits, SetLast, Delivered, ghosts, Core, Typed, Region, Where, Open
    <2> QED
      BY <2>1, <2>2
  <1>7. CASE FaultNotes(s)
    BY <1>7 DEF FaultNotes, SetLast, Delivered, ghosts, Core, Typed, Region, Where, Open
  <1>8. CASE FaultTells(s)
    BY <1>8 DEF FaultTells, SetLast, Delivered, ghosts, Core, Typed, Region, Where, Open
  <1> QED
    BY <1>3, <1>4, <1>5, <1>6, <1>7, <1>8 DEF Fault

\* What sh_chktrap() leaves.
LEMMA ChkTrapTyped ==
    ASSUME Typed, ChkTrap
    PROVE  /\ noted' \subseteq noted /\ trapnote' \subseteq trapnote /\ lastsig' \in {lastsig, Off}
           /\ owed' \subseteq owed /\ credit' \in [Sigs -> Int]
  <1>1. /\ noted' \subseteq noted /\ trapnote' \subseteq trapnote /\ lastsig' \in {lastsig, Off}
        /\ owed' \subseteq owed
    BY DEF ChkTrap
  <1>2. credit' \in [Sigs -> Int]
    BY DEF ChkTrap, Typed
  <1> QED
    BY <1>1, <1>2

LEMMA CoreCommands ==
    ASSUME Core, Start \/ Forget \/ End
    PROVE  Core'
  <1>1. pc \notin {"enter", "end"} /\ savesig = Off /\ nsig = Off
    BY DEF Core, Region, Start, Forget, End
  <1>4. CASE Forget
    BY <1>4 DEF Forget, signals, ghosts, Core, Typed, Region, Where, Open
  <1>2. CASE Start
    <2>1. CASE SigSet
      <3>1. Jump(FALSE) /\ savesig' = Off /\ nsig' = Off /\ mine' = mine /\ traps' = traps
        BY <1>1, <1>2, <2>1 DEF Start, SigCheckExits, ghosts
      <3>2. /\ Region' /\ Where' /\ Levelled(stack, mine, traps, Open(pc, stack))'
            /\ pc' \in {"leave", "gone"} /\ Len(stack') <= MaxDepth /\ left' \in Lefts
        BY <1>1, <3>1, CoreJump
      <3>3. Typed'
        BY <1>2, <2>1, <3>2 DEF Start, SigCheckExits, signals, ghosts, Core, Typed
      <3> QED
        BY <3>2, <3>3 DEF Core
    <2>2. CASE ~ SigSet
      BY <1>1, <1>2, <2>2 DEF Start, signals, ghosts, Core, Typed, Region, Where, Open
    <2> QED
      BY <2>1, <2>2
  <1>3. CASE End
    <2>1. /\ noted' \subseteq noted /\ trapnote' \subseteq trapnote /\ lastsig' \in {lastsig, Off}
          /\ owed' \subseteq owed /\ credit' \in [Sigs -> Int]
      BY <1>3, ChkTrapTyped DEF End, Core
    <2>2. CASE SigSet
      <3>1. Jump(FALSE) /\ savesig' = Off /\ nsig' = Off /\ mine' = mine /\ traps' = traps
        BY <1>1, <1>3, <2>2 DEF End
      <3>2. /\ Region' /\ Where' /\ Levelled(stack, mine, traps, Open(pc, stack))'
            /\ pc' \in {"leave", "gone"} /\ Len(stack') <= MaxDepth /\ left' \in Lefts
        BY <1>1, <3>1, CoreJump
      <3>3. Typed'
        BY <1>3, <2>1, <3>2 DEF End, signals, Core, Typed
      <3> QED
        BY <3>2, <3>3 DEF Core
    <2>3. CASE ~ SigSet
      <3>1. Typed'
        BY <1>3, <2>1, <2>3 DEF End, signals, Core, Typed
      <3> QED
        BY <3>1, <1>1, <1>3, <2>3 DEF End, Core, Region, Where, Open
    <2> QED
      BY <2>2, <2>3
  <1> QED
    BY <1>2, <1>3, <1>4

LEMMA CoreTrap ==
    ASSUME Core, NEW s \in Sigs, NEW a \in Actions, Trap(s, a)
    PROVE  Core'
  <1>1. pc = "run" /\ savesig = Off /\ nsig = Off /\ Levelled(stack, mine, traps, 1)
    BY DEF Core, Region, Open, Trap
  <1>2. CASE a # "none" /\ InSub
    <2>1. /\ Subfork
          /\ UNCHANGED <<traps, noted, mine, owed, trapnote, lastsig, ignsig, nsig, signals, credit>>
      BY <1>2 DEF Trap
    <2>2. Jump(TRUE) /\ savesig' = Critical /\ nsig' = Off /\ mine' = mine /\ traps' = traps
      BY <1>1, <2>1 DEF Subfork
    <2>3. /\ Region' /\ Where' /\ Levelled(stack, mine, traps, Open(pc, stack))'
          /\ pc' \in {"leave", "gone"} /\ Len(stack') <= MaxDepth /\ left' \in Lefts
      BY <1>1, <2>2, CoreJump
    <2>4. Typed'
      BY <2>1, <2>2, <2>3 DEF signals, Core, Typed
    <2> QED
      BY <2>3, <2>4 DEF Core
  <1>3. CASE a = "none" \/ ~ InSub
    <2>1. /\ traps' = [traps EXCEPT ![s] = a] /\ mine' = [mine EXCEPT ![Len(mine)][s] = a]
          /\ UNCHANGED <<pc, stack, left, savesig, trapnote, lastsig, ignsig, nsig, signals, credit>>
          /\ noted' \subseteq noted /\ owed' \subseteq owed
      BY <1>3 DEF Trap
    <2>2. a = "none" \/ stack = <<>> \/ ~ IsSub(stack[Len(stack)])
      BY <1>3 DEF InSub, Inside, IsSub, Last
    <2>3. Levelled(stack, mine', traps', 1)
      BY <1>1, <2>1, <2>2, SetTrap
    <2>4. Typed'
      BY <2>1 DEF signals, Core, Typed
    <2> QED
      BY <2>1, <2>3, <2>4, <1>1 DEF Core, Region, Where, Open
  <1> QED
    BY <1>2, <1>3 DEF Trap

LEMMA CoreEnter ==
    ASSUME Core, Enter
    PROVE  Core'
  <1>1. pc = "run" /\ savesig = Off /\ nsig = Off
    BY DEF Core, Region, Enter
  <1>2. CASE SigSet
    <2>1. Jump(FALSE) /\ savesig' = Off /\ nsig' = Off /\ mine' = mine /\ traps' = traps
      BY <1>1, <1>2 DEF Enter, SigCheckExits, ghosts
    <2>2. /\ Region' /\ Where' /\ Levelled(stack, mine, traps, Open(pc, stack))'
          /\ pc' \in {"leave", "gone"} /\ Len(stack') <= MaxDepth /\ left' \in Lefts
      BY <1>1, <2>1, CoreJump
    <2>3. Typed'
      BY <1>2, <2>2 DEF Enter, SigCheckExits, signals, ghosts, Core, Typed
    <2> QED
      BY <2>2, <2>3 DEF Core
  <1>3. CASE ~ SigSet
    BY <1>1, <1>3 DEF Enter, signals, ghosts, Core, Typed, Region, Where, Open
  <1> QED
    BY <1>2, <1>3

LEMMA CorePush ==
    ASSUME Core, NEW kind \in Kinds, Push(kind)
    PROVE  Core'
  <1>1. /\ pc = "entry" /\ savesig = Off /\ nsig = Off /\ Levelled(stack, mine, traps, 1) /\ left \in Lefts
        /\ stack \in Seq(Frames) /\ traps \in Traps
    BY DEF Core, Region, Open, Push, Typed, Levelled
  <1> DEFINE fr == Frame(kind)
  <1>2. /\ stack' = Append(stack, fr) /\ pc' = "enter" /\ savesig' = Critical
        /\ UNCHANGED <<left, traps, noted, trapnote, lastsig, ignsig, nsig, signals, ghosts>>
        /\ Len(stack) < MaxDepth
    BY <1>1 DEF Push, Core, Where
  <1>3. fr \in Frames /\ fr.saved = traps /\ fr.kind = kind
    BY <1>1 DEF Frame, Frames
  <1>4. IsSub(fr) \/ stack = <<>> \/ ~ IsSub(stack[Len(stack)])
    BY <1>3, <1>1 DEF Push, InSub, Inside, IsSub, Kinds, Last
  <1> HIDE DEF fr
  <1>5. Levelled(stack', mine, traps, 1 - One(IsSub(fr)))
    BY <1>1, <1>2, <1>3, <1>4, PushFrame
  <1>6. Len(stack') = Len(stack) + 1 /\ stack' # <<>> /\ stack'[Len(stack')] = fr /\ Len(stack) \in Nat
    BY <1>1, <1>2, <1>3, AppendProperties
  <1>7. Typed'
    BY <1>2, <1>6, ConstantsAssumption DEF signals, ghosts, Core, Typed
  <1>8. Levelled(stack, mine, traps, Open(pc, stack))'
    BY <1>2, <1>5, <1>6 DEF Open, ghosts
  <1> QED
    BY <1>1, <1>2, <1>6, <1>7, <1>8 DEF Core, Region, Where, Off, Critical

LEMMA CoreSave ==
    ASSUME Core, Save
    PROVE  Core'
  <1>1. /\ pc = "enter" /\ pc' = "begin" /\ stack # <<>> /\ savesig # Off
        /\ UNCHANGED <<stack, left, savesig, lastsig, ignsig, nsig, signals, owed, credit>>
        /\ noted' \subseteq noted /\ trapnote' \subseteq trapnote
    BY DEF Core, Region, Where, Save
  <1>2. Levelled(stack, mine, traps, 1 - One(IsSub(stack[Len(stack)])))
    BY <1>1 DEF Core, Open
  <1>3. CASE IsSub(stack[Len(stack)])
    <2>1. traps' = Reset(traps) /\ mine' = Append(mine, Reset(traps))
      BY <1>3 DEF Save, IsSub, Last
    <2>2. Levelled(stack, mine, traps, 0)
      BY <1>2, <1>3 DEF One
    <2> QED
      BY <1>1, <2>1, <2>2, SaveTraps DEF Core, Typed, Region, Where, Open, signals
  <1>4. CASE ~ IsSub(stack[Len(stack)])
    <2>1. stack[Len(stack)] \in Frames
      BY <1>1 DEF Core, Levelled
    <2>2. traps' = traps /\ mine' = mine
      BY <2>1, <1>4 DEF Save, IsSub, Frames, Kinds, Last
    <2>3. Levelled(stack, mine, traps, 1)
      BY <1>2, <1>4 DEF One
    <2> QED
      BY <1>1, <2>2, <2>3 DEF Core, Typed, Region, Where, Open, signals
  <1> QED
    BY <1>3, <1>4

\* What only moves on.
LEMMA CoreMoves ==
    ASSUME Core, Begin \/ TakeSignals \/ Finish \/ Leave
    PROVE  Core'
  BY ConstantsAssumption DEF Begin, TakeSignals, Finish, Leave, Core, Typed, Region, Where, Open, Inside, signals, ghosts,
         Off, Critical

LEMMA CoreRestore ==
    ASSUME Core, Restore
    PROVE  Core'
  <1>1. /\ pc = "restore" /\ pc' = "end" /\ stack # <<>> /\ savesig # Off
        /\ UNCHANGED <<stack, left, savesig, lastsig, ignsig, nsig, signals, owed, credit>>
        /\ noted' \subseteq noted /\ trapnote' \subseteq trapnote
    BY DEF Core, Region, Where, Restore
  <1>2. Levelled(stack, mine, traps, 1)
    BY <1>1 DEF Core, Open
  <1>3. CASE IsSub(stack[Len(stack)])
    <2>1. traps' = stack[Len(stack)].saved /\ mine' = Front(mine)
      BY <1>3 DEF Restore, IsSub, Last
    <2>2. Levelled(stack, mine', traps', 0)
      BY <2>1, <1>1, <1>2, <1>3, RestoreTraps
    <2> QED
      BY <1>1, <1>3, <2>2 DEF Core, Typed, Region, Where, Open, One, signals
  <1>4. CASE ~ IsSub(stack[Len(stack)])
    <2>1. stack[Len(stack)] \in Frames
      BY <1>1, <1>2 DEF Levelled
    <2>2. traps' = traps /\ mine' = mine
      BY <2>1, <1>4 DEF Restore, IsSub, Frames, Kinds, Last
    <2> QED
      BY <1>1, <1>2, <1>4, <2>2 DEF Core, Typed, Region, Where, Open, One, signals
  <1> QED
    BY <1>3, <1>4

LEMMA CoreReturn ==
    ASSUME Core, Return
    PROVE  Core'
  <1> DEFINE outer == Front(stack)
  <1>1. /\ pc = "end" /\ stack # <<>> /\ savesig # Off /\ Len(stack) <= MaxDepth
        /\ stack \in Seq(Frames)
        /\ nsig = Off /\ UNCHANGED <<traps, noted, savesig, lastsig, ignsig, signals, ghosts>>
        /\ Levelled(stack, mine, traps, 1 - One(IsSub(stack[Len(stack)])))
    BY DEF Core, Region, Where, Open, Typed, Levelled, Return
  <1>2. Levelled(outer, mine, traps, 1)
    BY <1>1, PopFrame
  <1>3. /\ outer \in Seq(Frames) /\ Len(outer) = Len(stack) - 1 /\ Last(stack) \in Frames
        /\ Len(stack) \in Nat \ {0}
    BY <1>1, FrontProperties
  <1>4. Len(outer) <= MaxDepth
    BY <1>1, <1>3, ConstantsAssumption
  <1> HIDE DEF outer
  <1>5. CASE SigSet
    <2>1. UNCHANGED <<left, trapnote, nsig>>
      BY <1>5 DEF Return
    <2>2. CASE outer = <<>>
      <3>1. pc' = "gone" /\ stack' = outer
        BY <1>5, <2>2 DEF Return, outer
      <3> QED
        BY <3>1, <2>1, <2>2, <1>1, <1>2, <1>4 DEF Core, Typed, Region, Where, Open, signals, ghosts
    <2>3. CASE outer # <<>>
      <3> DEFINE n == Len(outer)
                 fr == [outer[n] EXCEPT !.jmp = "sub"]
                 su == [outer EXCEPT ![n] = fr]
      <3>1. n \in Nat \ {0} /\ n \in 1 .. n
        BY <1>3, <2>3
      <3>2. outer[n] \in Frames
        BY <3>1, <1>3
      <3>3. fr \in Frames /\ fr.kind = outer[n].kind /\ fr.saved = outer[n].saved /\ fr.jmp = "sub"
        BY <3>2 DEF Frames
      <3>4. stack' = su /\ pc' = "leave"
        BY <1>5, <2>3, <3>1, <3>2 DEF Return, outer
      <3> HIDE DEF fr
      <3>5. su = [outer EXCEPT ![Len(outer)] = fr]
        OBVIOUS
      <3> HIDE DEF su
      <3>6. /\ su \in Seq(Frames) /\ Len(su) = Len(outer)
            /\ \A i \in 1 .. Len(outer) : su[i].kind = outer[i].kind /\ su[i].saved = outer[i].saved
        BY <1>3, <2>3, <3>3, <3>5, MarkFrame
      <3>7. Levelled(su, mine, traps, 1) /\ su # <<>>
        BY <1>2, <3>1, <3>6, LevelledSame
      <3> QED
        BY <3>4, <3>6, <3>7, <2>1, <1>1, <1>4 DEF Core, Typed, Region, Where, Open, signals, ghosts
    <2> QED
      BY <2>2, <2>3
  <1>6. CASE ~ SigSet
    <2>1. /\ pc' = "clear" /\ left' = Exit(Last(stack)) /\ stack' = outer
          /\ trapnote' = {} /\ nsig' \in {Off, savesig} /\ nsig' # Critical
      BY <1>6, ConstantsAssumption DEF Return, outer, Off, Critical
    <2>2. left' \in Lefts
      BY <2>1, <1>3 DEF Exit, Lefts, Frames
    <2> QED
      BY <2>1, <2>2, <1>1, <1>2, <1>4 DEF Core, Typed, Region, Where, Open, signals, ghosts
  <1> QED
    BY <1>5, <1>6

LEMMA CoreClear ==
    ASSUME Core, Clear \/ SendSaved
    PROVE  Core'
  <1>1. CASE Clear
    BY <1>1 DEF Clear, Core, Typed, Region, Where, Open, signals, ghosts
  <1>2. CASE SendSaved
    BY <1>2 DEF SendSaved, Kill, Core, Typed, Region, Where, Open, ghosts
  <1> QED
    BY <1>1, <1>2

LEMMA CoreExit ==
    ASSUME Core, Wait \/ SendIgnored \/ SendLast
    PROVE  Core'
  <1>1. CASE Wait
    <2>1. /\ noted' \subseteq noted /\ trapnote' \subseteq trapnote /\ lastsig' \in {lastsig, Off}
          /\ owed' \subseteq owed /\ credit' \in [Sigs -> Int]
      BY <1>1, ChkTrapTyped DEF Wait, Core
    <2> QED
      BY <2>1, <1>1 DEF Wait, Kill, Core, Typed, Region, Where, Open, Sigs
  <1>2. CASE SendIgnored
    BY <1>2 DEF SendIgnored, Kill, Core, Typed, Region, Where, Open, ghosts
  <1>3. CASE SendLast
    BY <1>3 DEF SendLast, Kill, Core, Typed, Region, Where, Open, ghosts, Nothing, Lefts
  <1> QED
    BY <1>1, <1>2, <1>3

LEMMA CoreSend ==
    ASSUME Core, NEW s \in Sigs, Send(s)
    PROVE  Core'
  <1>1. owed' \subseteq Sigs /\ credit' \in [Sigs -> Int]
    BY DEF Send, Core, Typed
  <1> QED
    BY <1>1 DEF Send, Core, Typed, Region, Where, Open

LEMMA CoreStep == Core /\ [Next]_vars => Core'
  <1> SUFFICES ASSUME Core, [Next]_vars PROVE Core'
    OBVIOUS
  <1>1. CASE UNCHANGED vars
    BY <1>1 DEF vars, Core, Typed, Region, Where, Open
  <1>2. ASSUME NEW s \in Sigs, Fault(s) PROVE Core'
    BY <1>2, CoreFault
  <1>3. ASSUME NEW s \in Sigs, NEW a \in Actions, Trap(s, a) PROVE Core'
    BY <1>3, CoreTrap
  <1>4. ASSUME NEW kind \in Kinds, Push(kind) PROVE Core'
    BY <1>4, CorePush
  <1>5. ASSUME NEW s \in Sigs, Send(s) PROVE Core'
    BY <1>5, CoreSend
  <1> QED
    BY <1>1, <1>2, <1>3, <1>4, <1>5, CoreCommands, CoreEnter, CoreSave, CoreMoves, CoreRestore, CoreReturn, CoreClear, CoreExit
       DEF Next, Step

THEOREM CoreInvariant == Spec => []Core
  BY CoreInit, CoreStep, PTL DEF Spec

\* Types, with what a level of traps is: each level that is not ${ } has its own.
LEMMA CoreTypes == Core => TypeOK
  <1> SUFFICES ASSUME Core PROVE TypeOK
    OBVIOUS
  <1>1. Typed /\ Levelled(stack, mine, traps, Open(pc, stack))
    BY DEF Core
  <1>2. pc \in {"cmd", "run"} => Len(mine) = Levels(stack, Len(stack)) + 1
    BY <1>1 DEF Levelled, Open
  <1>3. DOMAIN stack = 1 .. Len(stack) /\ Len(stack) \in Nat
    BY <1>1 DEF Levelled
  <1>4. Levels(stack, Len(stack)) = Cardinality({i \in DOMAIN stack : stack[i].kind = "sub"})
    BY <1>3 DEF Levels, IsSub
  <1>5. Levels(stack, Len(stack)) \in Nat
    BY <1>3, LevelsType
  <1>6. pc \in {"cmd", "run"} => Len(mine) = 1 + Cardinality({i \in DOMAIN stack : stack[i].kind = "sub"})
    BY <1>2, <1>4, <1>5
  <1> QED
    BY <1>1, <1>6 DEF TypeOK, Typed, Levelled, Traps

\* sh_subshell(), sh_subfork() and sh_fault(): however a subshell ends, the shell
\* leaves the critical region with it and takes signals again.
THEOREM SignalsTaken == Spec => []NotDeaf
  <1>1. Core => NotDeaf
    BY CoreTypes DEF Core, Region, NotDeaf
  <1> QED
    BY <1>1, CoreInvariant, PTL

\* sh_subshell() and sh_sigreset(): commands run with the traps of their level, at
\* any depth and after any jump.
THEOREM TrapsOfLevel == Spec => []TrapsRestored
  <1>1. Core => TrapsRestored
    <2> SUFFICES ASSUME Core, pc \in {"cmd", "run"} PROVE traps = Last(mine)
      BY DEF TrapsRestored
    <2> QED
      BY DEF Core, Levelled, Last
  <1> QED
    BY <1>1, CoreInvariant, PTL

----------------------------------------------------------------------------
(* Where a signal that has ended a level is remembered.                    *)

HasJumped(st) == st # <<>> /\ st[Len(st)].jmp = "sub"

\* Only the innermost level has been left by a jump, and only on its way out.
Jumped ==
    /\ \A i \in 1 .. Len(stack) :
          stack[i].jmp = "sub" => i = Len(stack) /\ pc \in {"leave", "restore", "end"}
    /\ left.jmp = "sub" => pc \in {"clear", "send", "wait", "ignored", "last"}

\* A signal that is to end the level after sh_subshell() came there, and had no trap.
SetAfter ==
    pc \in {"clear", "send", "wait", "ignored", "last"} /\ SigSet =>
        lastsig \in Sigs /\ traps[lastsig] = "none" /\ lastsig \notin blocked

IgnoredOnly == ignsig \in Ignored \cup {Off}

Exits == Jumped /\ SetAfter /\ IgnoredOnly

LEMMA ExitsJump ==
    ASSUME Core, Jumped, pc \notin {"enter", "end"}, stack # <<>> \/ pc \in {"cmd", "run"},
           NEW b \in BOOLEAN, Jump(b)
    PROVE  /\ Jumped' /\ left'.jmp # "sub"
           /\ pc' = IF stack = <<>> THEN "gone" ELSE "leave"
           /\ stack # <<>> => HasJumped(stack')
  <1>1. Levelled(stack, mine, traps, 1) /\ left \in Lefts
    BY DEF Core, Open, Typed
  <1>2. stack \in Seq(Frames)
    BY <1>1 DEF Levelled
  <1>3. /\ Len(stack') = Len(stack)
        /\ stack # <<>> =>
             /\ pc' = "leave" /\ stack' # <<>> /\ left' = Nothing
             /\ \A i \in 1 .. Len(stack) : stack'[i].jmp = IF i = Len(stack) THEN "sub" ELSE stack[i].jmp
        /\ stack = <<>> => pc' = "gone" /\ stack' = <<>> /\ left' = left
    BY <1>1, JumpLeaves
  <1>4. CASE stack = <<>>
    BY <1>3, <1>4 DEF Jumped
  <1>5. CASE stack # <<>>
    <2>1. Len(stack) \in 1 .. Len(stack)
      BY <1>2, <1>5
    <2>2. left'.jmp = "none" /\ HasJumped(stack')
      BY <1>3, <1>5, <2>1 DEF Nothing, HasJumped
    <2>3. \A i \in 1 .. Len(stack) : stack'[i].jmp = "sub" => i = Len(stack)
      BY <1>3, <1>5 DEF Jumped
    <2> QED
      BY <1>3, <1>5, <2>2, <2>3 DEF Jumped
  <1> QED
    BY <1>4, <1>5

LEMMA ExitsInit == Init => Exits
  BY DEF Init, Exits, Jumped, SetAfter, IgnoredOnly, SigSet, Nothing

LEMMA ExitsFault ==
    ASSUME Core, Exits, NEW s \in Sigs, Fault(s)
    PROVE  Exits'
  <1>1. savesig = Off => pc \notin {"enter", "begin", "open", "end"}
    BY DEF Core, Region
  <1>2. traps' = traps
    BY DEF Fault, FaultSaves, FaultForks, FaultIgnores, FaultExits, FaultNotes, FaultTells
  <1>3. CASE FaultSaves(s)
    <2>1. UNCHANGED <<pc, stack, left, ignsig, trapnote, lastsig, blocked>>
      BY <1>3 DEF FaultSaves
    <2> QED
      BY <1>2, <2>1 DEF Exits, Jumped, SetAfter, IgnoredOnly, SigSet
  <1>4. CASE FaultForks(s)
    <2>1. Jump(TRUE) /\ stack # <<>> /\ savesig = Off /\ ignsig' = ignsig
      BY <1>4 DEF FaultForks, Subfork, Inside
    <2>2. Jumped' /\ pc' = "leave"
      BY <1>1, <2>1, ExitsJump DEF Exits
    <2> QED
      BY <2>1, <2>2 DEF Exits, SetAfter, IgnoredOnly
  <1>5. CASE FaultIgnores(s)
    <2>1. UNCHANGED <<pc, stack, left, traps, trapnote, lastsig, blocked>> /\ ignsig' \in {ignsig} \cup Ignored
      BY <1>5 DEF FaultIgnores
    <2> QED
      BY <2>1 DEF Exits, Jumped, SetAfter, SigSet, IgnoredOnly
  <1>6. CASE FaultExits(s)
    <2>1. CASE Inside
      <3>1. Jump(FALSE) /\ stack # <<>> /\ savesig = Off /\ ignsig' = ignsig
        BY <1>6, <2>1 DEF FaultExits, Inside
      <3>2. Jumped' /\ pc' = "leave"
        BY <1>1, <3>1, ExitsJump DEF Exits
      <3> QED
        BY <3>1, <3>2 DEF Exits, SetAfter, IgnoredOnly
    <2>2. CASE ~ Inside
      <3>1. /\ UNCHANGED <<pc, stack, left, traps, blocked, ignsig>> /\ lastsig' = s
            /\ traps[s] = "none" /\ s \notin blocked /\ savesig = Off
        BY <1>6, <2>2 DEF FaultExits, SetLast, Delivered
      <3> QED
        BY <1>1, <3>1 DEF Exits, Jumped, SetAfter, IgnoredOnly
    <2> QED
      BY <2>1, <2>2
  <1>7. CASE FaultNotes(s)
    <2>1. UNCHANGED <<pc, stack, left, traps, blocked, ignsig>> /\ s \notin blocked /\ savesig = Off
      BY <1>7 DEF FaultNotes, Delivered
    <2>2. \/ lastsig' = lastsig /\ (SigSet' <=> SigSet)
          \/ lastsig' = s /\ traps[s] = "none"
          \/ pc = "run"
      BY <1>7 DEF FaultNotes, SetLast, SigSet
    <2> QED
      BY <1>1, <2>1, <2>2 DEF Exits, Jumped, SetAfter, IgnoredOnly
  <1>8. CASE FaultTells(s)
    <2>1. UNCHANGED <<pc, stack, left, ignsig>> /\ pc = "run"
      BY <1>8 DEF FaultTells
    <2> QED
      BY <2>1 DEF Exits, Jumped, SetAfter, IgnoredOnly
  <1> QED
    BY <1>3, <1>4, <1>5, <1>6, <1>7, <1>8 DEF Fault

LEMMA ExitsCommands ==
    ASSUME Core, Exits,
           \/ Start \/ Forget \/ End \/ \E s \in Sigs, a \in Actions : Trap(s, a)
           \/ Enter \/ \E kind \in Kinds : Push(kind)
    PROVE  Exits'
  <1>1. pc \in {"cmd", "start", "run", "entry"} /\ pc \notin {"enter", "end"} /\ ignsig' = ignsig
    BY DEF Start, Forget, End, Trap, Enter, Push, SigCheckExits
  <1>2. ASSUME NEW b \in BOOLEAN, Jump(b), pc \in {"cmd", "run"}
        PROVE  Exits'
    <2>1. Jumped' /\ pc' \in {"leave", "gone"}
      BY <1>1, <1>2, ExitsJump DEF Exits
    <2> QED
      BY <1>1, <2>1 DEF Exits, SetAfter, IgnoredOnly
  <1>3. ASSUME UNCHANGED <<stack, left>>, pc' \in {"cmd", "start", "run", "entry"}
        PROVE  Exits'
    BY <1>1, <1>3 DEF Exits, Jumped, SetAfter, IgnoredOnly
  <1>4. ASSUME NEW kind \in Kinds, UNCHANGED left, pc' = "enter",
               stack' = Append(stack, Frame(kind))
        PROVE  Exits'
    <2>1. stack \in Seq(Frames) /\ traps \in Traps
      BY DEF Core, Levelled
    <2> DEFINE fr == Frame(kind)
    <2>2. fr \in Frames /\ fr.jmp = "none"
      BY <2>1 DEF Frame, Frames
    <2> HIDE DEF fr
    <2>3. /\ Len(stack') = Len(stack) + 1 /\ stack'[Len(stack) + 1] = fr /\ Len(stack) \in Nat
          /\ \A i \in 1 .. Len(stack) : stack'[i] = stack[i]
      BY <2>1, <2>2, <1>4, AppendProperties DEF fr
    <2>4. \A i \in 1 .. Len(stack') : stack'[i].jmp # "sub"
      <3>1. TAKE i \in 1 .. Len(stack')
      <3>2. CASE i = Len(stack) + 1
        BY <3>2, <2>2, <2>3
      <3>3. CASE i # Len(stack) + 1
        <4>1. i \in 1 .. Len(stack)
          BY <3>3, <2>3
        <4> QED
          BY <4>1, <2>3, <1>1 DEF Exits, Jumped
      <3> QED
        BY <3>2, <3>3
    <2>5. left'.jmp # "sub"
      BY <1>1, <1>4 DEF Exits, Jumped
    <2> QED
      BY <1>1, <1>4, <2>4, <2>5 DEF Exits, Jumped, SetAfter, IgnoredOnly, SigSet
  <1>5. CASE Start
    BY <1>5, <1>2, <1>3 DEF Start, SigCheckExits
  <1>6. CASE End
    BY <1>6, <1>2, <1>3 DEF End
  <1>7. ASSUME NEW s \in Sigs, NEW a \in Actions, Trap(s, a)
        PROVE  Exits'
    BY <1>7, <1>1, <1>2, <1>3 DEF Trap, Subfork
  <1>8. CASE Enter
    BY <1>8, <1>2, <1>3 DEF Enter, SigCheckExits
  <1>9. CASE Forget
    BY <1>9, <1>3 DEF Forget
  <1>10. ASSUME NEW kind \in Kinds, Push(kind)
         PROVE  Exits'
    BY <1>10, <1>4 DEF Push
  <1> QED
    BY <1>5, <1>6, <1>7, <1>8, <1>9, <1>10

LEMMA ExitsReturn ==
    ASSUME Core, Exits, Return
    PROVE  Exits'
  <1> DEFINE outer == Front(stack)
  <1>1. stack # <<>> /\ stack \in Seq(Frames) /\ ignsig' = ignsig /\ pc = "end"
    BY DEF Core, Where, Levelled, Return
  <1>2. /\ outer \in Seq(Frames) /\ Len(outer) = Len(stack) - 1 /\ Last(stack) \in Frames
        /\ \A i \in 1 .. Len(stack) - 1 : outer[i] = stack[i]
        /\ Last(stack) = stack[Len(stack)] /\ Len(stack) \in Nat \ {0}
    BY <1>1, FrontProperties
  <1>3. \A i \in 1 .. Len(outer) : outer[i].jmp # "sub"
    <2>1. TAKE i \in 1 .. Len(outer)
    <2>2. i \in 1 .. Len(stack) - 1 /\ i \in 1 .. Len(stack) /\ i # Len(stack)
      BY <1>2
    <2> QED
      BY <2>2, <1>2 DEF Exits, Jumped
  <1> HIDE DEF outer
  <1>4. CASE SigSet
    <2>1. left' = left /\ left.jmp # "sub"
      BY <1>1, <1>4 DEF Return, Exits, Jumped
    <2>2. CASE outer = <<>>
      <3>1. pc' = "gone" /\ stack' = outer
        BY <1>4, <2>2 DEF Return, outer
      <3> QED
        BY <3>1, <2>1, <1>1, <1>3 DEF Exits, Jumped, SetAfter, IgnoredOnly
    <2>3. CASE outer # <<>>
      <3> DEFINE n == Len(outer)
                 fr == [outer[n] EXCEPT !.jmp = "sub"]
                 su == [outer EXCEPT ![n] = fr]
      <3>1. n \in Nat \ {0} /\ n \in 1 .. n
        BY <1>2, <2>3
      <3>2. outer[n] \in Frames
        BY <3>1, <1>2
      <3>3. fr \in Frames /\ fr.kind = outer[n].kind /\ fr.saved = outer[n].saved /\ fr.jmp = "sub"
        BY <3>2 DEF Frames
      <3>4. stack' = su /\ pc' = "leave"
        BY <1>4, <2>3, <3>1, <3>2 DEF Return, outer
      <3> HIDE DEF fr
      <3>5. su = [outer EXCEPT ![Len(outer)] = fr]
        OBVIOUS
      <3> HIDE DEF su
      <3>6. /\ Len(su) = Len(outer)
            /\ \A i \in 1 .. Len(outer) : su[i].jmp = IF i = Len(outer) THEN "sub" ELSE outer[i].jmp
        BY <1>2, <2>3, <3>3, <3>5, MarkFrame
      <3>7. \A i \in 1 .. Len(stack') : stack'[i].jmp = "sub" => i = Len(stack')
        BY <3>4, <3>6, <1>3
      <3> QED
        BY <3>4, <3>7, <2>1, <1>1 DEF Exits, Jumped, SetAfter, IgnoredOnly
    <2> QED
      BY <2>2, <2>3
  <1>5. CASE ~ SigSet
    <2>1. pc' = "clear" /\ stack' = outer /\ trapnote' = {}
      BY <1>5 DEF Return, outer
    <2> QED
      BY <2>1, <1>1, <1>3 DEF Exits, Jumped, SetAfter, SigSet, IgnoredOnly
  <1> QED
    BY <1>4, <1>5

LEMMA ExitsSubshell ==
    ASSUME Core, Exits, Save \/ Begin \/ TakeSignals \/ Finish \/ Leave \/ Restore
    PROVE  Exits'
  <1>1. /\ pc \in {"enter", "begin", "open"} \/ pc' \in {"leave", "restore", "end"}
        /\ pc \notin {"clear", "send", "wait", "ignored", "last"} /\ pc' \notin {"clear", "send", "wait", "ignored", "last"}
        /\ UNCHANGED <<stack, left, ignsig>>
    BY DEF Save, Begin, TakeSignals, Finish, Leave, Restore
  <1> QED
    BY <1>1 DEF Exits, Jumped, SetAfter, IgnoredOnly

LEMMA ExitsClear ==
    ASSUME Core, Exits, Clear \/ SendSaved
    PROVE  Exits'
  <1>1. /\ pc \in {"clear", "send"} /\ pc' \in {"send", "wait"}
        /\ UNCHANGED <<stack, left, traps, trapnote, lastsig, ignsig, blocked>>
    BY DEF Clear, SendSaved, Kill, signals
  <1> QED
    BY <1>1 DEF Exits, Jumped, SetAfter, SigSet, IgnoredOnly

LEMMA ExitsWait ==
    ASSUME Core, Exits, Wait \/ SendIgnored \/ SendLast
    PROVE  Exits'
  <1>1. /\ pc \in {"wait", "ignored", "last"} /\ UNCHANGED <<stack, traps, ignsig, blocked>>
        /\ SigSet' => SigSet /\ lastsig' = lastsig
        /\ \/ pc' \in {"ignored", "last"} /\ left' = left
           \/ pc' = "run" /\ left' = Nothing
    BY DEF Wait, SendIgnored, SendLast, Kill, ChkTrap, Run, SigSet, ghosts
  <1> QED
    BY <1>1 DEF Exits, Jumped, SetAfter, IgnoredOnly, Nothing

LEMMA ExitsStep == Core /\ Exits /\ [Next]_vars => Exits'
  <1> SUFFICES ASSUME Core, Exits, [Next]_vars PROVE Exits'
    OBVIOUS
  <1>1. CASE UNCHANGED vars
    BY <1>1 DEF vars, Exits, Jumped, SetAfter, SigSet, IgnoredOnly
  <1>2. ASSUME NEW s \in Sigs, Fault(s) PROVE Exits'
    BY <1>2, ExitsFault
  <1>3. ASSUME NEW s \in Sigs, Send(s) PROVE Exits'
    BY <1>3 DEF Send, Exits, Jumped, SetAfter, SigSet, IgnoredOnly
  <1> QED
    BY <1>1, <1>2, <1>3, ExitsCommands, ExitsSubshell, ExitsReturn, ExitsClear, ExitsWait
       DEF Next, Step

----------------------------------------------------------------------------
(* Signals of the main shell.                                              *)

\* A signal is owed while the main shell has a trap for it.
OwedTrapped == \A s \in owed : mine[1][s] = "cmd"

\* Only the main shell has traps to be run.
LEMMA TrapsHere ==
    ASSUME Core
    PROVE  /\ Len(mine) \in Nat /\ Len(mine) >= 1 /\ traps = mine[Len(mine)] /\ mine \in Seq(Traps)
           /\ stack = <<>> => Len(mine) = 1
           /\ \A s \in Sigs :
                /\ Len(mine) > 1 => traps[s] # "cmd"
                /\ mine[1][s] = "cmd" => traps[s] \in {"cmd", "none"}
  <1>1. /\ mine \in Seq(Traps) /\ traps \in Traps /\ Len(mine) \in Nat /\ Len(mine) >= 1
        /\ traps = mine[Len(mine)] /\ Inherited(mine)
        /\ Len(mine) = Levels(stack, Len(stack)) + Open(pc, stack)
    BY DEF Core, Levelled
  <1>2. stack = <<>> => Len(mine) = 1
    <2>1. SUFFICES ASSUME stack = <<>> PROVE Len(mine) = 1
      OBVIOUS
    <2>2. Levels(stack, Len(stack)) = 0
      BY <2>1, LevelsZero
    <2>3. Open(pc, stack) = 1
      BY <2>1 DEF Core, Where, Open
    <2> QED
      BY <1>1, <2>2, <2>3
  <1>3. ASSUME NEW s \in Sigs
        PROVE  /\ Len(mine) > 1 => traps[s] # "cmd"
               /\ mine[1][s] = "cmd" => traps[s] \in {"cmd", "none"}
    <2>1. CASE Len(mine) = 1
      BY <2>1, <1>1
    <2>2. CASE Len(mine) > 1
      <3>1. Len(mine) \in 2 .. Len(mine)
        BY <2>2, <1>1
      <3>2. traps[s] = "none" \/ (traps[s] = "ign" /\ mine[1][s] = "ign")
        BY <3>1, <1>1 DEF Inherited
      <3> QED
        BY <3>2
    <2> QED
      BY <2>1, <2>2, <1>1
  <1> QED
    BY <1>1, <1>2, <1>3

\* The traps of the main shell change only by the command trap there.
LEMMA MainTraps ==
    ASSUME Core, Next, mine'[1] # mine[1]
    PROVE  \E s \in Sigs, a \in Actions :
              /\ Trap(s, a) /\ Len(mine) = 1 /\ owed' = owed \ {s}
              /\ mine'[1] = [mine[1] EXCEPT ![s] = a] /\ mine[1] \in Traps
  <1>1. Len(mine) \in Nat /\ Len(mine) >= 1 /\ mine \in Seq(Traps)
    BY TrapsHere
  <1>2. traps \in Traps
    BY DEF Core, Levelled
  <1>3. ASSUME Save PROVE FALSE
    <2>1. mine' \in {mine, Append(mine, Reset(traps))}
      BY <1>3 DEF Save
    <2>2. Reset(traps) \in Traps
      BY <1>2 DEF Reset, Traps, Actions
    <2>3. Append(mine, Reset(traps))[1] = mine[1]
      BY <1>1, <2>2, AppendProperties
    <2> QED
      BY <2>1, <2>3
  <1>4. ASSUME Restore PROVE FALSE
    <2>1. Levelled(stack, mine, traps, 1) /\ stack # <<>> /\ stack[Len(stack)] \in Frames
      BY <1>4 DEF Core, Open, Where, Restore, Levelled
    <2>2. CASE IsSub(stack[Len(stack)])
      <3>1. mine' = Front(mine)
        BY <1>4, <2>2 DEF Restore, IsSub, Last
      <3>2. Front(mine)[1] = mine[1]
        BY <2>1, <2>2, RestoreTraps
      <3> QED
        BY <3>1, <3>2
    <2>3. CASE ~ IsSub(stack[Len(stack)])
      BY <1>4, <2>1, <2>3 DEF Restore, IsSub, Frames, Kinds, Last
    <2> QED
      BY <2>2, <2>3
  <1>5. PICK s \in Sigs, a \in Actions : Trap(s, a) /\ mine' = [mine EXCEPT ![Len(mine)][s] = a]
                                         /\ owed' = IF Len(mine) = 1 THEN owed \ {s} ELSE owed
    BY <1>3, <1>4 DEF Next, Step, Fault, FaultSaves, FaultForks, FaultIgnores, FaultExits, FaultNotes, FaultTells,
       Start, Forget, End, Trap, Enter, Push, Begin, TakeSignals, Finish, Leave, Return, Clear, SendSaved, Wait, SendIgnored, SendLast, Send, ghosts
  <1>6. Len(mine) = 1
    BY <1>1, <1>5
  <1> QED
    <2>1. mine' = [mine EXCEPT ![1][s] = a] /\ owed' = owed \ {s} /\ Trap(s, a)
      BY <1>5, <1>6
    <2>2. 1 \in DOMAIN mine /\ mine[1] \in Traps
      BY <1>1
    <2>3. mine'[1] = [mine[1] EXCEPT ![s] = a]
      BY <2>1, <2>2
    <2> QED
      BY <1>6, <2>1, <2>2, <2>3

\* What is owed grows by a signal sent.
LEMMA OwedGrows ==
    ASSUME Core, Next
    PROVE  \/ owed' \subseteq owed
           \/ \E s \in Sigs : Send(s) /\ mine[1][s] = "cmd" /\ owed' = owed \cup {s}
  <1>1. \A s \in Sigs : Send(s) => \/ owed' \subseteq owed
                                   \/ mine[1][s] = "cmd" /\ owed' = owed \cup {s}
    BY DEF Send
  <1>2. End \/ Wait => owed' \subseteq owed
    BY DEF End, Wait, ChkTrap
  <1> QED
    BY <1>1, <1>2 DEF Next, Step, Fault, FaultSaves, FaultForks, FaultIgnores, FaultExits, FaultNotes, FaultTells,
       Start, Forget, Trap, Enter, Push, Save, Begin, TakeSignals, Finish, Leave, Restore, Return, Clear, SendSaved, SendIgnored, SendLast, ghosts

LEMMA OwedStep == Core /\ OwedTrapped /\ [Next]_vars => OwedTrapped'
  <1> SUFFICES ASSUME Core, OwedTrapped, [Next]_vars PROVE OwedTrapped'
    OBVIOUS
  <1>1. CASE UNCHANGED vars
    BY <1>1 DEF vars, OwedTrapped
  <1>2. CASE Next /\ mine'[1] # mine[1]
    <2>1. PICK s \in Sigs, a \in Actions : owed' = owed \ {s} /\ mine'[1] = [mine[1] EXCEPT ![s] = a]
                                           /\ mine[1] \in Traps
      BY <1>2, MainTraps
    <2>2. owed \subseteq Sigs
      BY DEF Core, Typed
    <2> QED
      BY <2>1, <2>2 DEF OwedTrapped, Traps
  <1>3. CASE Next /\ mine'[1] = mine[1]
    BY <1>3, OwedGrows DEF OwedTrapped
  <1> QED
    BY <1>1, <1>2, <1>3

\* Where a signal waits for its trap.
Carried(s) == lastsig = s /\ (SigSet \/ left.jmp = "sub" \/ HasJumped(stack))

Kept(s) ==
    \/ s \in pending \/ savesig = s \/ nsig = s \/ ignsig = s
    \/ s \in noted /\ "TRAP" \in trapnote /\ traps[s] = "cmd"
    \/ Carried(s)

LEMMA KeptIsKept == SignalKept <=> (odd = {} /\ pc # "gone" => \A s \in owed : Kept(s))
  BY DEF SignalKept, Kept, Carried, LastCounts, HasJumped, Inside, Last

\* Another signal does not take its place, but for the odd case.
LEMMA CarriedNotOverwritten ==
    ASSUME NEW s \in Sigs, NEW r, Carried(s), Overwritten(r) = {}
    PROVE  s = r
  <1>1. LastCounts /\ lastsig = s
    BY DEF Carried, LastCounts, HasJumped, Inside, Last
  <1> QED
    BY <1>1 DEF Overwritten

\* A signal that ends the level of the command it comes in stays in sh.lastsig.
LEMMA CarriedOn ==
    ASSUME Core, Jumped, pc \in {"cmd", "start", "run", "entry"}, NEW s, Carried(s)
    PROVE  SigSet
  <1>1. left.jmp # "sub"
    BY DEF Jumped
  <1>2. ~ HasJumped(stack)
    <2>1. stack \in Seq(Frames)
      BY DEF Core, Levelled
    <2>2. stack # <<>> => Len(stack) \in 1 .. Len(stack)
      BY <2>1
    <2> QED
      BY <2>2 DEF HasJumped, Jumped
  <1> QED
    BY <1>1, <1>2 DEF Carried

LEMMA KeptFault ==
    ASSUME Core, Exits, OwedTrapped, NEW r \in Sigs, Fault(r), odd' = {},
           NEW s \in owed, Kept(s)
    PROVE  Kept(s)'
  <1>1. savesig = Off => pc \notin {"enter", "end"}
    BY DEF Core, Region
  <1>2. s \in Sigs /\ mine[1][s] = "cmd" /\ traps[s] \in {"cmd", "none"}
    BY TrapsHere DEF Core, Typed, OwedTrapped
  <1>3. CASE FaultSaves(r)
    <2>1. savesig' = r /\ (savesig \notin Sigs \/ savesig = r)
      BY <1>3 DEF FaultSaves
    <2> QED
      BY <1>2, <1>3, <2>1 DEF FaultSaves, Delivered, Kept, Carried, SigSet
  <1>4. CASE FaultForks(r)
    BY <1>4 DEF FaultForks, Subfork
  <1>5. CASE FaultIgnores(r)
    <2>1. UNCHANGED <<pc, stack, left, traps, noted, trapnote, savesig, nsig, lastsig>> /\ pending' = pending \ {r}
      BY <1>5 DEF FaultIgnores, Delivered
    <2>2. ignsig' = ignsig \/ (ignsig' = r /\ (ignsig \notin Sigs \/ ignsig = r))
      BY <1>5 DEF FaultIgnores
    <2>3. CASE s = r
      <3>1. traps[s] = "none"
        BY <1>2, <1>5, <2>3 DEF FaultIgnores
      <3>2. Inside
        <4>1. mine[1] = traps => traps[s] = "cmd"
          BY <1>2
        <4>2. ~ Inside => traps = mine[1]
          BY TrapsHere DEF Inside
        <4> QED
          BY <3>1, <4>1, <4>2
      <3>3. ignsig' = s
        BY <1>5, <2>3, <3>1, <3>2 DEF FaultIgnores
      <3> QED
        BY <3>3 DEF Kept
    <2>4. CASE s # r
      BY <1>2, <2>1, <2>2, <2>4 DEF Kept, Carried, SigSet
    <2> QED
      BY <2>3, <2>4
  <1>6. ASSUME SetLast(r), Overwritten(r) = {}, Delivered(r),
               UNCHANGED <<traps, savesig, ignsig>>, nsig' = nsig \/ nsig = Off,
               noted \subseteq noted', trapnote \subseteq trapnote',
               s = r => SigSet' \/ HasJumped(stack') \/ (s \in noted' /\ "TRAP" \in trapnote' /\ traps[s] = "cmd")
        PROVE  Kept(s)'
    <2>1. lastsig' = r /\ (Carried(s) => s = r)
      BY <1>2, <1>6, CarriedNotOverwritten DEF SetLast
    <2>2. nsig = s => nsig' = s
      BY <1>2, <1>6, ConstantsAssumption
    <2> QED
      BY <1>2, <1>6, <2>1, <2>2 DEF Kept, Carried, Delivered
  <1>7. CASE FaultExits(r)
    <2>1. CASE Inside
      <3>1. /\ Jump(FALSE) /\ stack # <<>> /\ savesig = Off /\ trapnote' = trapnote
            /\ nsig = Off /\ Overwritten(r) = {}
        BY <1>7, <2>1 DEF FaultExits, Inside
      <3>2. HasJumped(stack')
        BY <1>1, <3>1, ExitsJump DEF Exits
      <3> QED
        BY <1>6, <1>7, <3>1, <3>2 DEF FaultExits
    <2>2. CASE ~ Inside
      <3>1. trapnote' = trapnote \cup {"SET"} /\ nsig' = nsig /\ Overwritten(r) = {}
        BY <1>7, <2>2 DEF FaultExits
      <3> QED
        BY <1>6, <1>7, <3>1 DEF FaultExits, SigSet
    <2> QED
      BY <2>1, <2>2
  <1>8. CASE FaultNotes(r)
    <2>1. CASE traps[r] = "cmd" /\ lastsig' = lastsig
      BY <1>2, <1>8, <2>1 DEF FaultNotes, Delivered, Kept, Carried, SigSet
    <2>2. CASE traps[r] # "cmd"
      BY <1>6, <1>8, <2>2 DEF FaultNotes, SigSet
    <2>3. CASE traps[r] = "cmd" /\ lastsig' # lastsig
      BY <1>6, <1>8, <2>3 DEF FaultNotes
    <2> QED
      BY <2>1, <2>2, <2>3
  <1>9. CASE FaultTells(r)
    BY <1>9 DEF FaultTells
  <1> QED
    BY <1>3, <1>4, <1>5, <1>7, <1>8, <1>9 DEF Fault

LEMMA KeptCommand ==
    ASSUME Core, Exits, OwedTrapped, odd' = {}, pc' # "gone",
           \/ Start \/ Forget \/ End \/ \E r \in Sigs, a \in Actions : Trap(r, a)
           \/ Enter \/ \E kind \in Kinds : Push(kind),
           NEW s \in owed, s \in owed', Kept(s)
    PROVE  Kept(s)'
  <1>1. /\ pc \in {"cmd", "start", "run", "entry"} /\ pc \notin {"enter", "end"}
        /\ ignsig' = ignsig /\ pending' = pending /\ nsig' = nsig
    BY DEF Start, Forget, End, Trap, Enter, Push, SigCheckExits, signals
  <1>2. s \in Sigs /\ s # savesig /\ mine[1][s] = "cmd"
    BY <1>1, ConstantsAssumption DEF Core, Typed, Region, OwedTrapped
  <1>3. Carried(s) => SigSet
    BY <1>1, CarriedOn DEF Exits
  <1>4. CASE Start \/ Forget \/ Enter \/ \E kind \in Kinds : Push(kind)
    <2>1. UNCHANGED <<noted, trapnote, traps>> /\ (SigSet /\ lastsig \in Sigs => lastsig' = lastsig)
      BY <1>4 DEF Start, Forget, Enter, Push, SigCheckExits
    <2> QED
      BY <1>1, <1>2, <1>3, <2>1 DEF Kept, Carried, SigSet
  <1>5. CASE End
    <2>1. trapnote = {} \/ s \notin noted \/ traps[s] # "cmd"
      <3>1. Due = Run /\ owed' = owed \ Run
        BY <1>5 DEF End, ChkTrap, TrapCases
      <3> QED
        BY <1>2, <3>1 DEF Due
    <2>2. SigSet => SigSet' /\ lastsig' = lastsig
      BY <1>5 DEF End, ChkTrap, Run, SigSet
    <2> QED
      BY <1>1, <1>2, <1>3, <2>1, <2>2 DEF Kept, Carried
  <1>6. ASSUME NEW r \in Sigs, NEW a \in Actions, Trap(r, a)
        PROVE  Kept(s)'
    <2>1. lastsig' = lastsig /\ trapnote' = trapnote
      BY <1>6 DEF Trap
    <2>2. CASE a # "none" /\ InSub
      <3>1. UNCHANGED <<noted, traps>>
        BY <1>6, <2>2 DEF Trap
      <3> QED
        BY <1>1, <1>2, <1>3, <2>1, <3>1 DEF Kept, Carried, SigSet
    <2>3. CASE a = "none" \/ ~ InSub
      <3>1. /\ traps' = [traps EXCEPT ![r] = a] /\ traps \in Traps
            /\ noted' = IF a = "none" THEN noted \ {r} ELSE noted
            /\ owed' = IF Len(mine) = 1 THEN owed \ {r} ELSE owed
        BY <1>6, <2>3 DEF Trap, Core, Levelled
      <3>2. s = r => traps[s] # "cmd"
        <4>1. s = r => Len(mine) # 1
          BY <3>1
        <4>2. Len(mine) \in Nat /\ Len(mine) >= 1
          BY TrapsHere
        <4>3. Len(mine) > 1 => traps[s] # "cmd"
          BY <1>2, TrapsHere
        <4>4. Len(mine) # 1 => Len(mine) > 1
          <5>1. \A n \in Nat : n >= 1 /\ n # 1 => n > 1
            OBVIOUS
          <5> QED
            BY <4>2, <5>1
        <4> QED
          BY <4>1, <4>3, <4>4
      <3>3. s # r => traps'[s] = traps[s]
        BY <1>2, <3>1 DEF Traps
      <3> QED
        BY <1>1, <1>2, <1>3, <2>1, <3>1, <3>2, <3>3 DEF Kept, Carried, SigSet
    <2> QED
      BY <2>2, <2>3
  <1> QED
    BY <1>4, <1>5, <1>6

LEMMA KeptSubshell ==
    ASSUME Core, Exits, OwedTrapped, odd' = {}, pc' # "gone",
           Save \/ Begin \/ TakeSignals \/ Finish \/ Leave \/ Restore \/ Return \/ Clear \/ SendSaved,
           NEW s \in owed, Kept(s)
    PROVE  Kept(s)'
  <1>1. s \in Sigs /\ s # Off /\ s # Critical /\ mine[1][s] = "cmd"
    BY ConstantsAssumption DEF Core, Typed, OwedTrapped
  <1>2. CASE Begin \/ TakeSignals \/ Finish \/ Leave
    <2>1. UNCHANGED <<stack, left, traps, noted, trapnote, lastsig, ignsig, nsig, pending>>
      BY <1>2 DEF Begin, TakeSignals, Finish, Leave, signals
    <2>2. savesig = s => savesig' = s
      <3>1. CASE TakeSignals
        <4>1. nsig = Off /\ Erased = {}
          BY <3>1 DEF TakeSignals, Core, Region
        <4> QED
          BY <1>1, <4>1 DEF Erased
      <3> QED
        BY <1>1, <1>2, <3>1 DEF Begin, Finish, Leave
    <2> QED
      BY <2>1, <2>2 DEF Kept, Carried, SigSet
  <1>3. CASE Save
    <2>1. UNCHANGED <<stack, left, savesig, lastsig, ignsig, nsig, pending>>
      BY <1>3 DEF Save, signals
    <2>2. \/ UNCHANGED <<traps, noted, trapnote>>
          \/ trapnote = {}
      BY <1>3 DEF Save
    <2> QED
      BY <2>1, <2>2 DEF Kept, Carried, SigSet
  <1>4. CASE Restore
    <2>1. UNCHANGED <<stack, left, savesig, lastsig, ignsig, nsig, pending>> /\ stack # <<>> /\ pc = "restore"
      BY <1>4 DEF Restore, signals, Core, Where
    <2>2. CASE Last(stack).kind = "share"
      BY <1>4, <2>1, <2>2 DEF Restore, Kept, Carried, SigSet
    <2>3. CASE Last(stack).kind # "share"
      <3>1. Levelled(stack, mine, traps, 1) /\ stack[Len(stack)] \in Frames
        BY <2>1 DEF Core, Open, Levelled
      <3>2. IsSub(stack[Len(stack)])
        BY <3>1, <2>3 DEF IsSub, Frames, Kinds, Last
      <3>3. Len(mine) > 1
        BY <3>1, <3>2, <2>1, RestoreTraps
      <3>4. traps[s] # "cmd"
        BY <1>1, <3>3, TrapsHere
      <3>5. SigSet => HasJumped(stack)
        BY <1>4, <2>1, <2>3, <3>1 DEF Restore, HasJumped, Last, Frames
      <3> QED
        BY <2>1, <3>4, <3>5 DEF Kept, Carried
    <2> QED
      BY <2>2, <2>3
  <1>5. CASE Return
    <2>1. UNCHANGED <<traps, noted, savesig, lastsig, ignsig, pending>> /\ pc = "end" /\ stack # <<>> /\ nsig = Off
      BY <1>5 DEF Return, signals, Core, Where, Region
    <2>2. CASE SigSet
      <3>1. trapnote' = trapnote
        BY <1>5, <2>2 DEF Return
      <3> QED
        BY <1>1, <2>1, <2>2, <3>1 DEF Kept, Carried, SigSet
    <2>3. CASE ~ SigSet
      <3>1. left' = Exit(Last(stack)) /\ trapnote = {}
        BY <1>5, <2>3 DEF Return
      <3>2. left.jmp # "sub"
        BY <2>1 DEF Exits, Jumped
      <3>3. HasJumped(stack) => left'.jmp = "sub"
        BY <3>1 DEF Exit, HasJumped, Last
      <3> QED
        BY <1>1, <2>1, <2>3, <3>1, <3>2, <3>3 DEF Kept, Carried
    <2> QED
      BY <2>2, <2>3
  <1>6. CASE Clear
    <2>1. UNCHANGED <<stack, left, traps, noted, trapnote, lastsig, ignsig, nsig, pending>> /\ Erased = {}
      BY <1>6 DEF Clear, signals
    <2>2. savesig = s => nsig = s
      BY <1>1, <2>1 DEF Erased
    <2> QED
      BY <2>1, <2>2 DEF Kept, Carried, SigSet
  <1>7. CASE SendSaved
    <2>1. /\ UNCHANGED <<stack, left, traps, noted, trapnote, savesig, lastsig, ignsig>>
          /\ pending' = pending \cup ({nsig} \cap Sigs)
      BY <1>7 DEF SendSaved, Kill
    <2> QED
      BY <1>1, <2>1 DEF Kept, Carried, SigSet
  <1> QED
    BY <1>2, <1>3, <1>4, <1>5, <1>6, <1>7

LEMMA KeptAfter ==
    ASSUME Core, Exits, Wait \/ SendIgnored \/ SendLast, odd' = {},
           NEW s \in owed, s \in owed', Kept(s)
    PROVE  Kept(s)'
  <1>1. /\ pc \in {"wait", "ignored", "last"} /\ pending \subseteq pending'
        /\ UNCHANGED <<stack, traps, savesig, ignsig, nsig>>
        /\ SigSet => SigSet'
    BY DEF Wait, SendIgnored, SendLast, Kill, ChkTrap, SigSet
  <1>2. s \in Sigs
    BY DEF Core, Typed
  <1>3. CASE Wait
    <2>1. left' = left /\ Due = Run /\ owed' = owed \ Run
      BY <1>3 DEF Wait, ChkTrap, TrapCases
    <2>2. trapnote = {} \/ s \notin noted \/ traps[s] # "cmd"
      BY <1>2, <2>1 DEF Due
    <2>3. ~ HasJumped(stack)
      <3>1. stack # <<>> => Len(stack) \in 1 .. Len(stack)
        BY DEF Core, Levelled
      <3> QED
        BY <1>1, <3>1 DEF HasJumped, Exits, Jumped
    <2>4. Carried(s) => lastsig' = lastsig
      <3>1. lastsig' = IF Run = {} THEN lastsig ELSE Off
        BY <1>3 DEF Wait, ChkTrap
      <3>2. Run # {} => ~ SigSet /\ ~ (lastsig \in Sigs /\ left.jmp = "sub")
        BY <1>3 DEF Wait, Run, TrapCases
      <3> QED
        BY <1>2, <2>3, <3>1, <3>2 DEF Carried
    <2> QED
      BY <1>1, <2>1, <2>2, <2>4 DEF Kept, Carried
  <1>4. CASE SendIgnored
    <2>1. UNCHANGED <<left, noted, trapnote, lastsig>>
      BY <1>4 DEF SendIgnored
    <2> QED
      BY <1>1, <2>1 DEF Kept, Carried
  <1>5. CASE SendLast
    <2>1. UNCHANGED <<noted, trapnote, lastsig>> /\ (left.jmp = "sub" => {lastsig} \cap Sigs \subseteq pending')
      BY <1>5 DEF SendLast, Kill
    <2> QED
      BY <1>1, <1>2, <2>1 DEF Kept, Carried
  <1> QED
    BY <1>3, <1>4, <1>5

\* The odd cases are remembered, and nothing follows the end of the script.
LEMMA OddStays ==
    ASSUME Core, Next
    PROVE  /\ odd \subseteq odd'
           /\ pc = "gone" => pc' = "gone"
  <1>1. odd \subseteq odd'
    BY DEF Next, Step, Fault, FaultSaves, FaultForks, FaultIgnores, FaultExits, FaultNotes, FaultTells, SetLast, Subfork,
       Start, Forget, End, Trap, Enter, Push, Save, Begin, TakeSignals, Finish, Leave, Restore, Return, Clear, SendSaved, Wait, SendIgnored, SendLast, Send
  <1>2. ASSUME pc = "gone" PROVE pc' = "gone"
    <2>1. ~ Inside
      BY <1>2 DEF Core, Where, Inside
    <2>2. \E s \in Sigs : Fault(s)
      BY <1>2 DEF Next, Step, Start, Forget, End, Trap, Enter, Push, Save, Begin, TakeSignals, Finish, Leave, Restore, Return, Clear, SendSaved, Wait,
         SendIgnored, SendLast, Send
    <2> QED
      BY <1>2, <2>1, <2>2 DEF Fault, FaultSaves, FaultForks, FaultIgnores, FaultExits, FaultNotes, FaultTells
  <1> QED
    BY <1>1, <1>2

LEMMA KeptStep == Core /\ Exits /\ OwedTrapped /\ SignalKept /\ [Next]_vars => SignalKept'
  <1> SUFFICES ASSUME Core, Exits, OwedTrapped, SignalKept, [Next]_vars PROVE SignalKept'
    OBVIOUS
  <1>1. CASE UNCHANGED vars
    BY <1>1 DEF vars, SignalKept, LastCounts, SigSet, Inside
  <1>2. CASE Next
    <2>1. SUFFICES ASSUME odd' = {}, pc' # "gone", NEW s \in owed'
                   PROVE  Kept(s)'
      BY DEF SignalKept, Kept, Carried, LastCounts, HasJumped, Inside, Last
    <2>2. \A r \in owed : Kept(r)
      BY <1>2, <2>1, OddStays, KeptIsKept
    <2>3. CASE s \notin owed
      <3>1. PICK r \in Sigs : Send(r) /\ owed' = owed \cup {r}
        BY <1>2, <2>1, <2>3, OwedGrows
      <3>2. s \in pending'
        BY <2>3, <3>1, <2>1 DEF Send
      <3> QED
        BY <3>2 DEF Kept
    <2>4. CASE s \in owed
      <3>1. ASSUME NEW r \in Sigs, Send(r) PROVE Kept(s)'
        BY <2>2, <2>4, <3>1 DEF Send, Kept, Carried, SigSet
      <3>2. ASSUME NEW r \in Sigs, Fault(r) PROVE Kept(s)'
        BY <2>1, <2>2, <2>4, <3>2, KeptFault
      <3>3. ASSUME Save \/ Begin \/ TakeSignals \/ Finish \/ Leave \/ Restore \/ Return \/ Clear \/ SendSaved
            PROVE  Kept(s)'
        BY <2>1, <2>2, <2>4, <3>3, KeptSubshell
      <3>4. ASSUME Wait \/ SendIgnored \/ SendLast PROVE Kept(s)'
        BY <2>1, <2>2, <2>4, <3>4, KeptAfter
      <3>5. ASSUME \/ Start \/ Forget \/ End \/ \E r \in Sigs, a \in Actions : Trap(r, a)
                   \/ Enter \/ \E kind \in Kinds : Push(kind)
            PROVE  Kept(s)'
        BY <2>1, <2>2, <2>4, <3>5, KeptCommand
      <3> QED
        BY <1>2, <3>1, <3>2, <3>3, <3>4, <3>5 DEF Next, Step
    <2> QED
      BY <2>3, <2>4
  <1> QED
    BY <1>1, <1>2

\* sh_fault(), sh_subshell(), sh_sigcheck() and sh_chktrap(): a signal that the
\* main shell has a trap for waits somewhere until the trap has run, at any depth
\* of subshells and with any number of signals.
THEOREM NoSignalLost == Spec => []SignalKept
  <1>1. Init => Core /\ Exits /\ OwedTrapped /\ SignalKept
    BY CoreInit, ExitsInit DEF Init, OwedTrapped, SignalKept
  <1>2. Core /\ Exits /\ OwedTrapped /\ SignalKept /\ [Next]_vars
            => (Core /\ Exits /\ OwedTrapped /\ SignalKept)'
    BY CoreStep, ExitsStep, OwedStep, KeptStep
  <1> QED
    BY <1>1, <1>2, PTL DEF Spec

----------------------------------------------------------------------------
(* No more runs of a trap than signals.  Each place that a signal waits in  *)
(* stands for one run to come, and their number is never more than the      *)
(* signals sent less the runs so far.                                       *)

\* The handler has noted the signal for a trap or has kept it in sh.lastsig, which
\* the run of a trap clears.
Noted(s) == s \in noted \/ lastsig = s
Coming(s) == s \in pending \ blocked

\* A signal sent again when sh.lastsig has just been sent is handled before the
\* process goes on, and it is then still noted once.
Waiting(s) ==
    One(s \in {savesig, nsig})
    + (IF pc \in {"run", "ignored"} THEN One(Coming(s) \/ Noted(s)) ELSE One(Coming(s)) + One(Noted(s)))

Covered == \A s \in Sigs \ Ignored : credit[s] >= 0 /\ Waiting(s) <= credit[s]

\* Signals are handled one by one.
Single == \A s, t \in pending \ blocked : s = t

\* What an interrupt has ended, and not a fork: ${ } then ends with the interrupt
\* to come, or another signal has come since.
Broken(level) == level.kind = "share" /\ level.jmp = "sub" /\ ~ level.subpid

Interrupted ==
    ~ SigSet /\ lastsig \in Interrupt =>
        ~ Broken(left) /\ (stack # <<>> => ~ Broken(stack[Len(stack)]))

LEMMA SingleStep == Single /\ [Next]_vars => Single'
  <1> SUFFICES ASSUME Single, [Next]_vars PROVE Single'
    OBVIOUS
  <1>1. CASE UNCHANGED vars
    BY <1>1 DEF vars, Single
  <1>2. ASSUME pending' \subseteq pending, blocked \subseteq blocked' PROVE Single'
    BY <1>2 DEF Single
  <1>3. ASSUME pending \subseteq blocked, blocked' = blocked, NEW s, pending' \subseteq pending \cup {s}
        PROVE  Single'
    BY <1>3 DEF Single
  <1>4. ASSUME NEW s \in Sigs, Send(s) PROVE Single'
    BY <1>3, <1>4 DEF Send
  <1>5. ASSUME NEW s \in Sigs, Fault(s) PROVE Single'
    BY <1>2, <1>5 DEF Fault, FaultSaves, FaultForks, FaultIgnores, FaultExits, FaultNotes, FaultTells, Delivered
  <1>6. CASE SendSaved
    BY <1>3, <1>6 DEF SendSaved, Kill, Runs
  <1>7. CASE Wait
    BY <1>3, <1>7 DEF Wait, Kill, Runs
  <1>8. CASE SendIgnored
    BY <1>3, <1>8 DEF SendIgnored, Kill, Runs
  <1>9. CASE SendLast
    BY <1>3, <1>9 DEF SendLast, Kill, Runs
  <1>10. CASE \/ Start \/ Forget \/ End \/ \E s \in Sigs, a \in Actions : Trap(s, a)
              \/ Enter \/ \E kind \in Kinds : Push(kind)
              \/ Save \/ Begin \/ TakeSignals \/ Finish \/ Leave \/ Restore \/ Return \/ Clear
    BY <1>2, <1>10 DEF Start, Forget, End, Trap, Enter, Push, Save, Begin, TakeSignals, Finish, Leave, Restore,
       Return, Clear, signals
  <1> QED
    BY <1>1, <1>4, <1>5, <1>6, <1>7, <1>8, <1>9, <1>10 DEF Next, Step

\* A jump of a level, with a signal that ends it or after a fork.
LEMMA InterruptedJump ==
    ASSUME Core, Interrupted, NEW b \in BOOLEAN, Jump(b),
           b \/ SigSet' \/ lastsig' \notin Interrupt,
           ~ SigSet' => ~ SigSet, ~ SigSet' /\ lastsig' \in Interrupt => lastsig = lastsig'
    PROVE  Interrupted'
  <1>1. stack \in Seq(Frames)
    BY DEF Core, Levelled
  <1>2. CASE stack = <<>>
    BY <1>2 DEF Jump, Inside, Interrupted, SigSet
  <1>3. CASE stack # <<>>
    <2> DEFINE n == Len(stack)
               fr == [stack[n] EXCEPT !.jmp = "sub", !.subpid = b \/ stack[n].subpid]
               su == [stack EXCEPT ![n] = fr]
    <2>1. n \in 1 .. n /\ stack[n] \in Frames
      BY <1>1, <1>3
    <2>2. fr \in Frames /\ (b => ~ Broken(fr))
      BY <2>1 DEF Frames, Broken
    <2>3. stack' = su /\ left' = Nothing
      BY <1>1, <1>3, <2>1 DEF Jump, Inside, Frames
    <2>4. ~ Broken(left')
      BY <2>3 DEF Broken, Nothing
    <2> HIDE DEF fr
    <2>5. Len(su) = n /\ su[n] = fr
      BY <1>1, <2>1, <2>2, ExceptSeq
    <2> HIDE DEF su
    <2>6. CASE b
      BY <2>2, <2>3, <2>4, <2>5, <2>6 DEF Interrupted
    <2>7. CASE ~ b
      BY <2>7 DEF Interrupted
    <2> QED
      BY <2>6, <2>7
  <1> QED
    BY <1>2, <1>3

LEMMA InterruptedFault ==
    ASSUME Core, Exits, Interrupted, NEW r \in Sigs, Fault(r)
    PROVE  Interrupted'
  <1>1. CASE FaultForks(r)
    <2>1. Jump(TRUE) /\ trapnote' = trapnote /\ lastsig' = lastsig
      BY <1>1 DEF FaultForks, Subfork
    <2> QED
      BY <2>1, InterruptedJump DEF SigSet
  <1>2. CASE FaultExits(r) /\ Inside
    <2>1. Jump(FALSE) /\ trapnote' = trapnote /\ lastsig' = r /\ r \in Fatal
      BY <1>2 DEF FaultExits, SetLast
    <2>2. lastsig' \notin Interrupt
      BY <2>1, ConstantsAssumption
    <2> QED
      BY <2>1, <2>2, InterruptedJump DEF SigSet
  <1>3. CASE FaultExits(r) /\ ~ Inside
    BY <1>3 DEF FaultExits, Interrupted, SigSet
  <1>4. CASE FaultSaves(r) \/ FaultIgnores(r)
    BY <1>4 DEF FaultSaves, FaultIgnores, Interrupted, SigSet
  <1>5. CASE FaultNotes(r) \/ FaultTells(r)
    <2>1. UNCHANGED <<pc, stack, left>> /\ trapnote \subseteq trapnote'
      BY <1>5 DEF FaultNotes, FaultTells
    <2>2. CASE lastsig' = lastsig \/ SigSet'
      BY <2>1, <2>2 DEF Interrupted, SigSet
    <2>3. CASE pc = "run"
      <3>1. stack # <<>> => Len(stack) \in 1 .. Len(stack)
        BY DEF Core, Levelled
      <3>2. left.jmp # "sub" /\ (stack # <<>> => stack[Len(stack)].jmp # "sub")
        BY <2>3, <3>1 DEF Exits, Jumped
      <3> QED
        BY <2>1, <3>2 DEF Interrupted, Broken
    <2> QED
      BY <1>5, <2>2, <2>3 DEF FaultNotes, FaultTells, SigSet
  <1> QED
    BY <1>1, <1>2, <1>3, <1>4, <1>5 DEF Fault

LEMMA InterruptedStep == Core /\ Exits /\ Interrupted /\ [Next]_vars => Interrupted'
  <1> SUFFICES ASSUME Core, Exits, Interrupted, [Next]_vars PROVE Interrupted'
    OBVIOUS
  <1>1. Off \notin Interrupt
    BY ConstantsAssumption DEF Sigs
  <1>2. ASSUME UNCHANGED <<stack, left>>, ~ SigSet' => ~ SigSet, lastsig' \in {lastsig, Off}
        PROVE  Interrupted'
    BY <1>1, <1>2 DEF Interrupted
  <1>3. CASE UNCHANGED vars
    BY <1>2, <1>3 DEF vars, SigSet
  <1>4. ASSUME NEW s \in Sigs, Fault(s) PROVE Interrupted'
    BY <1>4, InterruptedFault
  <1>5. CASE Start \/ Enter
    <2>1. trapnote' = trapnote /\ lastsig' = lastsig /\ ((SigSet /\ Jump(FALSE)) \/ UNCHANGED <<stack, left>>)
      BY <1>5 DEF Start, Enter, SigCheckExits
    <2> QED
      BY <1>2, <2>1, InterruptedJump DEF SigSet
  <1>6. CASE End
    <2>1. (SigSet' <=> SigSet) /\ lastsig' \in {lastsig, Off}
      BY <1>6 DEF End, ChkTrap, SigSet
    <2>2. (SigSet /\ Jump(FALSE)) \/ UNCHANGED <<stack, left>>
      BY <1>6 DEF End
    <2> QED
      BY <1>1, <1>2, <2>1, <2>2, InterruptedJump
  <1>7. ASSUME NEW s \in Sigs, NEW a \in Actions, Trap(s, a) PROVE Interrupted'
    <2>1. trapnote' = trapnote /\ lastsig' = lastsig /\ (Jump(TRUE) \/ UNCHANGED <<stack, left>>)
      BY <1>7 DEF Trap, Subfork
    <2> QED
      BY <1>2, <2>1, InterruptedJump DEF SigSet
  <1>8. ASSUME NEW kind \in Kinds, Push(kind) PROVE Interrupted'
    <2>1. stack' = Append(stack, Frame(kind)) /\ UNCHANGED <<left, lastsig, trapnote>> /\ stack \in Seq(Frames)
      BY <1>8 DEF Push, Core, Levelled
    <2> DEFINE fr == Frame(kind)
    <2>2. fr \in Frames /\ ~ Broken(fr)
      BY DEF Frame, Frames, Broken, Core, Levelled
    <2> HIDE DEF fr
    <2>3. stack'[Len(stack')] = fr
      BY <2>1, <2>2, AppendProperties DEF fr
    <2> QED
      BY <2>1, <2>2, <2>3 DEF Interrupted, SigSet
  <1>9. CASE Save
    <2>1. UNCHANGED <<stack, left>> /\ pc = "enter"
      BY <1>9 DEF Save
    <2>2. stack # <<>> => Len(stack) \in 1 .. Len(stack)
      BY DEF Core, Levelled
    <2> QED
      BY <2>1, <2>2 DEF Interrupted, Broken, Exits, Jumped
  <1>10. CASE Restore
    <2>1. UNCHANGED <<stack, left, lastsig>> /\ pc = "restore" /\ stack # <<>>
      BY <1>10 DEF Restore, Core, Where
    <2>2. trapnote' = trapnote \/ stack[Len(stack)].kind # "share"
      BY <1>10 DEF Restore, Last
    <2>3. left.jmp # "sub"
      BY <2>1 DEF Exits, Jumped
    <2> QED
      BY <2>1, <2>2, <2>3 DEF Interrupted, Broken, SigSet
  <1>11. CASE Return
    <2>1. CASE SigSet
      BY <1>2, <1>11, <2>1 DEF Return, Interrupted, SigSet
    <2>2. CASE ~ SigSet
      <3>1. /\ stack' = Front(stack) /\ left' = Exit(Last(stack)) /\ lastsig' = lastsig /\ pc' = "clear"
            /\ stack \in Seq(Frames) /\ stack # <<>>
        BY <1>11, <2>2 DEF Return, Core, Where, Levelled
      <3>2. Broken(left') => Broken(stack[Len(stack)])
        BY <3>1 DEF Broken, Exit, Last
      <3>3. stack' # <<>> => ~ Broken(stack'[Len(stack')])
        <4>1. Jumped'
          BY <1>11, ExitsReturn DEF Exits
        <4>2. stack' \in Seq(Frames)
          BY <3>1, FrontProperties
        <4>3. stack' # <<>> => Len(stack') \in 1 .. Len(stack')
          BY <4>2
        <4> QED
          BY <3>1, <4>1, <4>3 DEF Jumped, Broken
      <3> QED
        BY <2>2, <3>1, <3>2, <3>3 DEF Interrupted
    <2> QED
      BY <2>1, <2>2
  <1>12. CASE SendLast
    BY <1>12 DEF SendLast, Interrupted, SigSet, Nothing, Broken
  <1>13. CASE Wait
    BY <1>2, <1>13 DEF Wait, ChkTrap, SigSet
  <1>14. CASE \/ Forget \/ Begin \/ TakeSignals \/ Finish \/ Leave \/ Clear \/ SendSaved \/ SendIgnored
              \/ \E s \in Sigs : Send(s)
    BY <1>2, <1>14 DEF Forget, Begin, TakeSignals, Finish, Leave, Clear, SendSaved, SendIgnored, Send, SigSet
  <1> QED
    BY <1>3, <1>4, <1>5, <1>6, <1>7, <1>8, <1>9, <1>10, <1>11, <1>12, <1>13, <1>14 DEF Next, Step

\* No place is taken that was not, or another is left for it.
Lighter(s) == Waiting(s)' <= Waiting(s)

LEMMA LighterFault ==
    ASSUME Core, Single, NEW r \in Sigs, Fault(r), NEW s \in Sigs \ Ignored
    PROVE  Lighter(s)
  <1>1. pending' = pending \ {r} /\ r \in pending \ blocked /\ blocked \subseteq blocked'
    BY DEF Fault, FaultSaves, FaultForks, FaultIgnores, FaultExits, FaultNotes, FaultTells, Delivered
  <1>2. ~ Coming(s)' /\ (s = r => Coming(s)) /\ (s # r => ~ Coming(s))
    BY <1>1 DEF Coming, Single
  <1>3. s # Off /\ s # Critical
    BY ConstantsAssumption
  <1>4. CASE FaultSaves(r)
    <2>1. UNCHANGED <<pc, noted, lastsig, nsig>> /\ savesig' \in {savesig, r} /\ pc \notin {"run", "ignored"}
      BY <1>4 DEF FaultSaves, Core, Region
    <2>2. Noted(s)' <=> Noted(s)
      BY <2>1 DEF Noted
    <2>3. s \in {savesig, nsig}' => s \in {savesig, nsig} \/ s = r
      BY <2>1
    <2> QED
      BY <1>2, <2>1, <2>2, <2>3 DEF Lighter, Waiting, One
  <1>5. CASE ~ FaultSaves(r)
    <2>1. /\ noted' \subseteq noted \cup {r} /\ lastsig' \in {lastsig, r}
          /\ savesig' \in {savesig, Critical} /\ nsig' \in {nsig, Off}
      BY <1>5 DEF Fault, FaultForks, FaultIgnores, FaultExits, FaultNotes, FaultTells, Subfork, SetLast
    <2>2. Noted(s)' => Noted(s) \/ s = r
      BY <2>1 DEF Noted
    <2>3. s \in {savesig, nsig}' => s \in {savesig, nsig}
      BY <1>3, <2>1
    <2> QED
      BY <1>2, <2>2, <2>3 DEF Lighter, Waiting, One
  <1> QED
    BY <1>4, <1>5

\* Nothing is sent.
LEMMA LighterMove ==
    ASSUME Core, pending \subseteq blocked, UNCHANGED signals, NEW s \in Sigs \ Ignored,
           noted' \subseteq noted, lastsig' \in {lastsig, Off},
           s \in {savesig, nsig}' => s \in {savesig, nsig}
    PROVE  Lighter(s)
  <1>1. ~ Coming(s) /\ ~ Coming(s)'
    BY DEF Coming, signals
  <1>2. Noted(s)' => Noted(s)
    BY ConstantsAssumption DEF Noted
  <1> QED
    BY <1>1, <1>2 DEF Lighter, Waiting, One

LEMMA LighterCommand ==
    ASSUME Core,
           \/ Start \/ Forget \/ \E r \in Sigs, a \in Actions : Trap(r, a)
           \/ Enter \/ \E kind \in Kinds : Push(kind),
           NEW s \in Sigs \ Ignored
    PROVE  Lighter(s)
  <1>1. s # Off /\ s # Critical
    BY ConstantsAssumption
  <1>2. /\ pending \subseteq blocked /\ UNCHANGED <<signals, nsig>> /\ noted' \subseteq noted
        /\ lastsig' \in {lastsig, Off} /\ savesig' \in {savesig, Critical}
    BY DEF Start, Forget, Trap, Subfork, Enter, Push, SigCheckExits, Runs
  <1> QED
    BY <1>1, <1>2, LighterMove

LEMMA LighterSubshell ==
    ASSUME Core, Save \/ Begin \/ TakeSignals \/ Finish \/ Leave \/ Restore \/ Return \/ Clear,
           NEW s \in Sigs \ Ignored
    PROVE  Lighter(s)
  <1>1. s # Off /\ s # Critical
    BY ConstantsAssumption
  <1>2. /\ pending \subseteq blocked /\ UNCHANGED <<signals, lastsig>> /\ noted' \subseteq noted
        /\ savesig' \in {savesig, Off, Critical} /\ nsig' \in {nsig, Off, savesig}
    BY DEF Save, Begin, TakeSignals, Finish, Leave, Restore, Return, Clear, Runs
  <1> QED
    BY <1>1, <1>2, LighterMove

LEMMA LighterSend ==
    ASSUME Core, Exits, SendSaved \/ SendIgnored \/ SendLast, NEW s \in Sigs \ Ignored
    PROVE  Lighter(s)
  <1>1. s # Off /\ savesig # s /\ savesig' = savesig
    BY ConstantsAssumption DEF SendSaved, SendIgnored, SendLast, Core, Region
  <1>2. ~ Coming(s) /\ (Noted(s)' <=> Noted(s)) /\ (Coming(s)' => s \in pending' \ pending)
    BY DEF SendSaved, SendIgnored, SendLast, Runs, Kill, Coming, Noted
  <1>3. CASE SendSaved
    <2>1. pc = "send" /\ pc' = "wait" /\ nsig' = Off /\ (s \in pending' \ pending => s = nsig)
      BY <1>3 DEF SendSaved, Kill
    <2> QED
      BY <1>1, <1>2, <2>1 DEF Lighter, Waiting, One
  <1>4. CASE SendIgnored
    <2>1. pc = "ignored" /\ pc' = "last" /\ nsig' = nsig /\ (s \in pending' \ pending => s = ignsig)
      BY <1>4 DEF SendIgnored, Kill
    <2>2. ~ Coming(s)'
      BY <1>1, <1>2, <2>1 DEF Exits, IgnoredOnly
    <2> QED
      BY <1>1, <1>2, <2>1, <2>2 DEF Lighter, Waiting, One
  <1>5. CASE SendLast
    <2>1. pc = "last" /\ pc' = "run" /\ nsig' = nsig /\ (s \in pending' \ pending => s = lastsig)
      BY <1>5 DEF SendLast, Kill
    <2>2. Coming(s)' => Noted(s)
      BY <1>2, <2>1 DEF Noted
    <2> QED
      BY <1>1, <1>2, <2>1, <2>2 DEF Lighter, Waiting, One
  <1> QED
    BY <1>3, <1>4, <1>5

\* The traps noted are run, each for a signal that waited for it.
LEMMA CoveredRuns ==
    ASSUME Core, Interrupted, Covered, End \/ Wait, NEW s \in Sigs \ Ignored
    PROVE  credit'[s] >= 0 /\ Waiting(s)' <= credit'[s]
  <1>1. /\ pc \in {"run", "wait"} /\ pending \subseteq blocked /\ UNCHANGED <<savesig, nsig, blocked>> /\ ChkTrap
    BY DEF End, Wait, Runs, signals, Kill
  <1>2. ~ Coming(s) /\ s # Off
    BY <1>1, ConstantsAssumption DEF Coming
  <1>3. credit[s] >= 0 /\ credit[s] \in Int /\ Waiting(s) <= credit[s] /\ Waiting(s) \in Int /\ Waiting(s)' \in Int
    BY DEF Covered, Core, Typed, Waiting, One
  <1>4. Waiting(s) = One(s \in {savesig, nsig}) + One(Noted(s))
    BY <1>2 DEF Waiting, One
  <1>5. /\ Coming(s)' => /\ Wait /\ pc' = "ignored"
                         /\ lastsig = s /\ s \in Interrupt /\ Broken(left)
    <2>1. CASE End
      BY <1>1, <2>1 DEF End, signals, Coming
    <2>2. CASE Wait
      BY <1>1, <2>2 DEF Wait, Kill, Coming, Broken
    <2> QED
      BY <2>1, <2>2
  <1>6. CASE s \in Run
    <2>1. ~ SigSet /\ s \in noted /\ trapnote # {}
      BY <1>6 DEF Run, Due
    <2>2. credit'[s] = credit[s] - 1 /\ ~ Noted(s)'
      BY <1>1, <1>2, <1>3, <1>6, <2>1 DEF ChkTrap, Noted
    <2>3. ~ Coming(s)'
      BY <1>5, <2>1 DEF Interrupted
    <2>4. Noted(s)
      BY <2>1 DEF Noted
    <2>5. Waiting(s)' = One(s \in {savesig, nsig})
      BY <1>1, <2>2, <2>3 DEF Waiting, One
    <2> QED
      BY <1>3, <1>4, <2>2, <2>4, <2>5 DEF One
  <1>7. CASE s \notin Run
    <2>1. credit'[s] = credit[s] /\ (Noted(s)' => Noted(s))
      BY <1>1, <1>2, <1>7 DEF ChkTrap, Noted
    <2>2. Coming(s)' => Noted(s) /\ pc' = "ignored"
      BY <1>5 DEF Noted
    <2>3. Waiting(s)' <= One(s \in {savesig, nsig}) + One(Noted(s))
      BY <1>1, <2>1, <2>2 DEF Waiting, One
    <2> QED
      BY <1>3, <1>4, <2>1, <2>3
  <1> QED
    BY <1>6, <1>7

LEMMA CoveredSend ==
    ASSUME Core, Covered, NEW r \in Sigs, Send(r), NEW s \in Sigs \ Ignored
    PROVE  credit'[s] >= 0 /\ Waiting(s)' <= credit'[s]
  <1>1. credit[s] >= 0 /\ credit[s] \in Int /\ Waiting(s) <= credit[s] /\ Waiting(s) \in Int /\ Waiting(s)' \in Int
    BY DEF Covered, Core, Typed, Waiting, One
  <1>2. /\ UNCHANGED <<pc, noted, savesig, nsig, lastsig, blocked>>
        /\ pending' = pending \cup {r} /\ pending \subseteq blocked /\ credit' = [credit EXCEPT ![r] = @ + 1]
    BY DEF Send
  <1>3. ~ Coming(s) /\ (Noted(s)' <=> Noted(s)) /\ (Coming(s)' => s = r)
    BY <1>2 DEF Coming, Noted
  <1>4. credit'[s] = IF s = r THEN credit[s] + 1 ELSE credit[s]
    BY <1>2 DEF Core, Typed
  <1>5. Waiting(s)' <= Waiting(s) + One(s = r)
    BY <1>2, <1>3 DEF Waiting, One
  <1> QED
    BY <1>1, <1>4, <1>5 DEF One

LEMMA CoveredStep == Core /\ Exits /\ Single /\ Interrupted /\ Covered /\ [Next]_vars => Covered'
  <1> SUFFICES ASSUME Core, Exits, Single, Interrupted, Covered, [Next]_vars, NEW s \in Sigs \ Ignored
               PROVE  credit'[s] >= 0 /\ Waiting(s)' <= credit'[s]
    BY DEF Covered
  <1>1. credit[s] >= 0 /\ credit[s] \in Int /\ Waiting(s) <= credit[s] /\ Waiting(s) \in Int /\ Waiting(s)' \in Int
    BY DEF Covered, Core, Typed, Waiting, One
  <1>2. CASE UNCHANGED vars
    <2>1. (Coming(s)' <=> Coming(s)) /\ (Noted(s)' <=> Noted(s))
      BY <1>2 DEF vars, Coming, Noted
    <2> QED
      BY <1>1, <1>2, <2>1 DEF vars, Waiting, One
  <1>3. ASSUME Lighter(s), credit' = credit
        PROVE  credit'[s] >= 0 /\ Waiting(s)' <= credit'[s]
    BY <1>1, <1>3 DEF Lighter
  <1>4. ASSUME NEW r \in Sigs, Send(r)
        PROVE  credit'[s] >= 0 /\ Waiting(s)' <= credit'[s]
    BY <1>4, CoveredSend
  <1>5. CASE End \/ Wait
    BY <1>5, CoveredRuns
  <1>6. ASSUME NEW r \in Sigs, Fault(r)
        PROVE  Lighter(s) /\ credit' = credit
    BY <1>6, LighterFault
       DEF Fault, FaultSaves, FaultForks, FaultIgnores, FaultExits, FaultNotes, FaultTells, ghosts
  <1>7. ASSUME \/ Start \/ Forget \/ \E r \in Sigs, a \in Actions : Trap(r, a)
               \/ Enter \/ \E kind \in Kinds : Push(kind)
        PROVE  Lighter(s) /\ credit' = credit
    <2>1. credit' = credit
      BY <1>7 DEF Start, Forget, Trap, Enter, Push, ghosts
    <2> QED
      BY <1>7, <2>1, LighterCommand
  <1>8. ASSUME Save \/ Begin \/ TakeSignals \/ Finish \/ Leave \/ Restore \/ Return \/ Clear
        PROVE  Lighter(s) /\ credit' = credit
    <2>1. credit' = credit
      BY <1>8 DEF Save, Begin, TakeSignals, Finish, Leave, Restore, Return, Clear, ghosts
    <2> QED
      BY <1>8, <2>1, LighterSubshell
  <1>9. ASSUME SendSaved \/ SendIgnored \/ SendLast
        PROVE  Lighter(s) /\ credit' = credit
    <2>1. credit' = credit
      BY <1>9 DEF SendSaved, SendIgnored, SendLast, ghosts
    <2> QED
      BY <1>9, <2>1, LighterSend
  <1> QED
    BY <1>2, <1>3, <1>4, <1>5, <1>6, <1>7, <1>8, <1>9 DEF Next, Step

LEMMA CoveredInit == Init => Single /\ Interrupted /\ Covered
  <1> SUFFICES ASSUME Init PROVE Single /\ Interrupted /\ Covered
    OBVIOUS
  <1>1. Single /\ Interrupted
    <2>1. pending = {} /\ lastsig = Off /\ Off \notin Interrupt
      BY ConstantsAssumption DEF Init, Sigs
    <2> QED
      BY <2>1 DEF Single, Interrupted
  <1>2. ASSUME NEW s \in Sigs \ Ignored PROVE credit[s] >= 0 /\ Waiting(s) <= credit[s]
    <2>1. s # Off /\ ~ Coming(s) /\ ~ Noted(s) /\ s \notin {savesig, nsig} /\ credit[s] = 0
      BY ConstantsAssumption DEF Init, Coming, Noted
    <2> QED
      BY <2>1 DEF Waiting, One
  <1> QED
    BY <1>1, <1>2 DEF Covered

\* sh_subshell(), sh_fault() and sh_chktrap(): however often a signal is sent again
\* at the ends of subshells, its trap runs no more often than it was sent.
THEOREM NoRunTwice == Spec => []NoPhantom
  <1>1. Init => Core /\ Exits /\ Single /\ Interrupted /\ Covered
    BY CoreInit, ExitsInit, CoveredInit
  <1>2. Core /\ Exits /\ Single /\ Interrupted /\ Covered /\ [Next]_vars
            => (Core /\ Exits /\ Single /\ Interrupted /\ Covered)'
    BY CoreStep, ExitsStep, SingleStep, InterruptedStep, CoveredStep
  <1>3. Covered => NoPhantom
    BY DEF Covered, NoPhantom
  <1> QED
    BY <1>1, <1>2, <1>3, PTL DEF Spec

=============================================================================
