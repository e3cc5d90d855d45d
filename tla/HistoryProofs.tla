--------------------------- MODULE HistoryProofs ---------------------------
(***************************************************************************)
(* Theorems about the history file (History), for any number of shells and *)
(* files, any length of the file and any sizes of tables and windows.      *)
(***************************************************************************)
EXTENDS History, SequenceTheorems, WellFoundedInduction, TLAPS

----------------------------------------------------------------------------
(* Induction over the naturals, for a set instead of a predicate.          *)

LEMMA Smallest ==
    ASSUME NEW S, S \subseteq Nat, S # {}
    PROVE  \E x \in S : \A y \in S : x <= y
  <1>1. \E x \in S : \A y \in S : ~ (<<y, x>> \in OpToRel(<, Nat))
    <2> DEFINE R == OpToRel(<, Nat)
    <2>1. IsWellFoundedOn(R, Nat)
      BY NatLessThanWellFounded
    <2> HIDE DEF R
    <2>2. \E x \in S : \A y \in S : ~ (<<y, x>> \in R)
      BY <2>1, WFMin
    <2> QED
      BY <2>2 DEF R
  <1>2. PICK x \in S : \A y \in S : ~ (<<y, x>> \in OpToRel(<, Nat))
    BY <1>1
  <1>3. ASSUME NEW y \in S
        PROVE  x <= y
    <2>1. x \in Nat /\ y \in Nat
      OBVIOUS
    <2>2. ~ (<<y, x>> \in OpToRel(<, Nat))
      BY <1>2
    <2>3. ~ (y < x)
      BY <2>1, <2>2 DEF OpToRel
    <2> QED
      BY <2>1, <2>3
  <1> QED
    BY <1>3

LEMMA Counting ==
    ASSUME NEW S, 0 \in S, \A n \in Nat : n \in S => n + 1 \in S
    PROVE  Nat \subseteq S
  <1> SUFFICES ASSUME Nat \ S # {}
               PROVE  FALSE
    OBVIOUS
  <1>1. PICK x \in Nat \ S : \A y \in Nat \ S : x <= y
    BY Smallest
  <1>2. x # 0 /\ x - 1 \in Nat /\ x = (x - 1) + 1
    BY <1>1
  <1>3. x - 1 \in S
    BY <1>1, <1>2
  <1> QED
    BY <1>1, <1>2, <1>3

----------------------------------------------------------------------------
(* Loops over a sequence: the values after each of n steps.                *)

Values(f, n, a, F) == f[0] = a /\ \A i \in 1 .. n : f[i] = F[<<i, f[i - 1]>>]

LEMMA Iterated ==
    ASSUME NEW A, NEW a \in A, NEW n \in Nat, NEW F \in [(1 .. n) \X A -> A]
    PROVE  \E f \in [0 .. n -> A] : Values(f, n, a, F)
  <1> DEFINE Upto(m) == \E f \in [0 .. m -> A] :
                            f[0] = a /\ \A i \in 1 .. m : f[i] = F[<<i, f[i - 1]>>]
             S == {m \in Nat : m <= n => Upto(m)}
  <1>1. 0 \in S
    <2> DEFINE e == [i \in 0 .. 0 |-> a]
    <2>1. e \in [0 .. 0 -> A] /\ e[0] = a
      OBVIOUS
    <2>2. \A i \in 1 .. 0 : e[i] = F[<<i, e[i - 1]>>]
      OBVIOUS
    <2> HIDE DEF e
    <2>3. Upto(0)
      BY <2>1, <2>2
    <2> QED
      BY <2>3
  <1>2. ASSUME NEW m \in Nat, m \in S
        PROVE  m + 1 \in S
    <2> SUFFICES ASSUME m + 1 <= n
                 PROVE  Upto(m + 1)
      OBVIOUS
    <2>1. PICK f \in [0 .. m -> A] : f[0] = a /\ \A i \in 1 .. m : f[i] = F[<<i, f[i - 1]>>]
      BY <1>2
    <2> DEFINE g == [i \in 0 .. m + 1 |-> IF i <= m THEN f[i] ELSE F[<<m + 1, f[m]>>]]
    <2>2. F[<<m + 1, f[m]>>] \in A
      OBVIOUS
    <2>3. g \in [0 .. m + 1 -> A]
      BY <2>2
    <2>4. g[0] = a /\ \A i \in 0 .. m : g[i] = f[i]
      BY <2>1
    <2>5. g[m + 1] = F[<<m + 1, f[m]>>]
      OBVIOUS
    <2> HIDE DEF g
    <2>6. ASSUME NEW i \in 1 .. m + 1
          PROVE  g[i] = F[<<i, g[i - 1]>>]
      <3>1. CASE i <= m
        <4>1. i \in 1 .. m /\ i \in 0 .. m /\ i - 1 \in 0 .. m
          BY <3>1
        <4>2. g[i] = f[i] /\ g[i - 1] = f[i - 1]
          BY <4>1, <2>4
        <4> QED
          BY <4>1, <4>2, <2>1
      <3>2. CASE i = m + 1
        <4>1. i - 1 = m /\ m \in 0 .. m
          BY <3>2
        <4>2. g[i - 1] = f[m]
          BY <4>1, <2>4
        <4> QED
          BY <3>2, <4>2, <2>5
      <3> QED
        BY <3>1, <3>2
    <2> QED
      BY <2>3, <2>4, <2>6
  <1>3. Nat \subseteq S
    <2> HIDE DEF S
    <2> QED
      BY <1>1, <1>2, Counting
  <1>4. n \in S
    BY <1>3
  <1>5. Upto(n)
    BY <1>4
  <1> QED
    BY <1>5 DEF Values

LEMMA LoopTyped ==
    ASSUME NEW A, NEW n \in Nat, NEW b, b[0] \in A, \A i \in 1 .. n : b[i - 1] \in A => b[i] \in A
    PROVE  b[n] \in A
  <1> DEFINE S == {m \in Nat : m <= n => b[m] \in A}
  <1>1. 0 \in S
    OBVIOUS
  <1>2. ASSUME NEW m \in Nat, m \in S
        PROVE  m + 1 \in S
    <2> SUFFICES ASSUME m + 1 <= n
                 PROVE  b[m + 1] \in A
      OBVIOUS
    <2>1. b[m] \in A /\ m + 1 \in 1 .. n /\ (m + 1) - 1 = m
      BY <1>2
    <2> QED
      BY <2>1
  <1>3. Nat \subseteq S
    <2> HIDE DEF S
    <2> QED
      BY <1>1, <1>2, Counting
  <1>4. n \in S
    BY <1>3
  <1> QED
    BY <1>4

----------------------------------------------------------------------------
(* Types                                                                   *)

Kinds == {"body", "nul", "undo", "mark", "stamp"}
CellSet == [k : Kinds, n : Int]
Entries == [0 .. Slots - 1 -> Nat]
Points == {"off", "reopen", "opened", "load", "clean", "unlink", "copy", "repair",
           "ready", "parse", "long", "run", "seek", "edit"}
Olds == [ino : Nat, ind : Int, cnt : Nat, cmds : Entries]
Tables == [pc : Points, ino : Nat, hsize : Nat, ind : Int, cnt : Nat, mark : Nat, first : Int,
           cmds : Entries, init : BOOLEAN, old : Olds, cmd : Int, ret : Points]
FileSet == [cells : Seq(CellSet), age : 0 .. Recent]

\* Where the loop of hist_eof() is, and what has been copied by hist_trim().
Readers == [ind : Int, cmds : Entries, mark : Nat, p : Nat, st : {"new", "cmd", "nul", "start"}]
Copies == [ind : Int, cnt : Nat, cmds : Entries, mark : Nat, out : Seq(CellSet)]

LEMMA Constants ==
    /\ Size \in Nat /\ Size >= 1 /\ Slots \in Nat /\ Slots > Size /\ Slots > 0
    /\ Radix \in Nat /\ Radix > 1 /\ Recent \in Nat /\ Recent > 1 /\ Before \in Nat
  BY ConstantsAssumption

LEMMA EntriesType ==
    ASSUME NEW c \in Entries, NEW n \in Int, NEW o \in Nat
    PROVE  SetCmd(c, n, o) \in Entries /\ c[n % Slots] \in Nat
  <1>1. n % Slots \in 0 .. Slots - 1
    BY Constants
  <1> QED
    BY <1>1 DEF SetCmd, Entries

LEMMA CellTypes ==
    /\ Stamp \in CellSet /\ Nul \in CellSet /\ Undo \in CellSet
    /\ \A n \in Int : Cell("body", n) \in CellSet /\ Cell("mark", n) \in CellSet
    /\ \A n \in Int : Command(n) \in Seq(CellSet) /\ Marker(n) \in Seq(CellSet)
  <1>1. /\ Stamp \in CellSet /\ Nul \in CellSet /\ Undo \in CellSet
        /\ \A n \in Int : Cell("body", n) \in CellSet /\ Cell("mark", n) \in CellSet
    BY DEF Stamp, Nul, Undo, Cell, CellSet, Kinds
  <1>2. ASSUME NEW n \in Int
        PROVE  Command(n) \in Seq(CellSet) /\ Marker(n) \in Seq(CellSet)
    BY <1>1 DEF Command, Marker
  <1> QED
    BY <1>1, <1>2

LEMMA ReadCellType ==
    ASSUME NEW a \in Readers, NEW x \in CellSet, NEW init \in BOOLEAN
    PROVE  ReadCell(a, x, init) \in Readers
  <1> DEFINE q == a.p + 1
             next(i, st) == [a EXCEPT !.ind = i, !.cmds = SetCmd(@, i, q), !.p = q, !.st = st]
             inside == [a EXCEPT !.p = q, !.st = "cmd"]
  <1>1. a.p \in Nat /\ q \in Nat /\ a.ind \in Int /\ a.cmds \in Entries /\ x.n \in Int
    BY DEF Readers, CellSet
  <1> HIDE DEF q
  <1>2. inside \in Readers
    BY <1>1 DEF Readers
  <1>3. ASSUME NEW i \in Int, NEW st \in {"new", "cmd", "nul", "start"}
        PROVE  next(i, st) \in Readers
    <2> DEFINE c == SetCmd(a.cmds, i, q)
    <2>1. c \in Entries
      BY <1>1, EntriesType
    <2>2. next(i, st) = [a EXCEPT !.ind = i, !.cmds = c, !.p = q, !.st = st]
      BY DEF Readers
    <2> HIDE DEF c
    <2> QED
      BY <1>1, <2>1, <2>2 DEF Readers
  <1>4. Number(x.n) + 1 \in Int
    BY <1>1 DEF Number
  <1> DEFINE m == IF init THEN a.ind ELSE Number(x.n) + 1
             marked == [next(m, "start") EXCEPT !.mark = q]
  <1>5. m \in Int /\ a.ind + 1 \in Int /\ a.ind - 1 \in Int
    BY <1>1, <1>4
  <1> HIDE DEF m
  <1>6. marked \in Readers
    <2> DEFINE r == next(m, "start")
    <2>1. r \in Readers
      BY <1>3, <1>5
    <2> HIDE DEF r
    <2>2. [r EXCEPT !.mark = q] \in Readers
      BY <1>1, <2>1 DEF Readers
    <2> QED
      BY <2>2 DEF r
  <1>7. /\ next(a.ind + 1, "nul") \in Readers /\ next(a.ind - 1, "start") \in Readers
        /\ next(a.ind + 1, "cmd") \in Readers /\ next(a.ind, "nul") \in Readers
    BY <1>1, <1>3, <1>5
  <1>8. ReadCell(a, x, init) \in {inside, marked, next(a.ind + 1, "nul"), next(a.ind - 1, "start"),
                                   next(a.ind + 1, "cmd"), next(a.ind, "nul")}
    BY DEF ReadCell, q, m
  <1> QED
    BY <1>2, <1>6, <1>7, <1>8

LEMMA ReadOnType ==
    ASSUME NEW a \in Readers, NEW cells \in Seq(CellSet), NEW init \in BOOLEAN
    PROVE  ReadOn(a, cells, init) \in Readers
  <1> DEFINE n == Len(cells)
             Turn(i, v) == IF i <= a.p THEN a ELSE ReadCell(v, cells[i], init)
             b == CHOOSE b : b = [i \in 0 .. n |-> IF i <= a.p THEN a
                                                   ELSE ReadCell(b[i - 1], cells[i], init)]
             F == [x \in (1 .. n) \X Readers |-> Turn(x[1], x[2])]
  <1>1. n \in Nat /\ a.p \in Nat /\ \A i \in 1 .. n : cells[i] \in CellSet
    BY DEF Readers
  <1>2. \A i \in 1 .. n, v \in Readers : Turn(i, v) \in Readers
    BY <1>1, ReadCellType
  <1>3. F \in [(1 .. n) \X Readers -> Readers]
    <2> HIDE DEF Turn
    <2> QED
      BY <1>2
  <1>4. PICK f \in [0 .. n -> Readers] : Values(f, n, a, F)
    <2>1. n \in Nat /\ a \in Readers
      BY <1>1
    <2> HIDE DEF F, n, b, Turn
    <2> QED
      BY <2>1, <1>3, Iterated
  <1>5. f[0] = a /\ \A i \in 1 .. n : f[i] = F[<<i, f[i - 1]>>]
    BY <1>4 DEF Values
  <1>6. \A i \in 1 .. n : f[i] = Turn(i, f[i - 1])
    <2> SUFFICES ASSUME NEW i \in 1 .. n
                 PROVE  f[i] = Turn(i, f[i - 1])
      OBVIOUS
    <2>1. f[i - 1] \in Readers
      BY <1>1
    <2>2. F[<<i, f[i - 1]>>] = Turn(i, f[i - 1])
      <3> HIDE DEF Turn
      <3> QED
        BY <2>1
    <2> QED
      BY <2>2, <1>5
  <1> HIDE DEF F
  <1>7. f = [i \in 0 .. n |-> IF i <= a.p THEN a ELSE ReadCell(f[i - 1], cells[i], init)]
    <2>1. \A i \in 0 .. n : f[i] = IF i <= a.p THEN a ELSE ReadCell(f[i - 1], cells[i], init)
      BY <1>1, <1>5, <1>6
    <2> QED
      BY <2>1
  <1>8. b = [i \in 0 .. n |-> IF i <= a.p THEN a ELSE ReadCell(b[i - 1], cells[i], init)]
    BY <1>7
  <1>9. ReadOn(a, cells, init) = b[n]
    BY DEF ReadOn
  <1> HIDE DEF b
  <1>10. b[0] = a
    BY <1>1, <1>8
  <1>11. ASSUME NEW i \in 1 .. n, b[i - 1] \in Readers
         PROVE  b[i] \in Readers
    <2>1. b[i] = Turn(i, b[i - 1])
      BY <1>1, <1>8
    <2> QED
      BY <2>1, <1>2, <1>11
  <1>12. b[n] \in Readers
    BY <1>1, <1>10, <1>11, LoopTyped
  <1> QED
    BY <1>9, <1>12

LEMMA CopyOneType ==
    ASSUME NEW b \in Copies, NEW x \in Seq(CellSet)
    PROVE  CopyOne(b, x) \in Copies
  <1> DEFINE end == b.cnt + Len(x)
             mark == end > b.mark + Gap
             n == b.ind + 1
             to == IF mark THEN end + 1 ELSE end
             c == SetCmd(b.cmds, n, to)
             m == IF mark THEN to ELSE b.mark
             tail == IF mark THEN Marker(n) ELSE <<>>
             o == b.out \o x \o tail
  <1>1. /\ b.cnt \in Nat /\ b.mark \in Nat /\ b.ind \in Int /\ b.cmds \in Entries
        /\ b.out \in Seq(CellSet) /\ Len(x) \in Nat
    BY DEF Copies
  <1>2. n \in Int /\ end \in Nat
    BY <1>1
  <1> HIDE DEF n, end, mark
  <1>3. to \in Nat /\ m \in Nat
    BY <1>1, <1>2
  <1>4. c \in Entries
    <2> HIDE DEF to
    <2> QED
      BY <1>1, <1>2, <1>3, EntriesType
  <1>5. tail \in Seq(CellSet)
    BY <1>2, CellTypes
  <1>6. o \in Seq(CellSet)
    <2> HIDE DEF tail
    <2> QED
      BY <1>1, <1>5, ConcatProperties
  <1>7. x # <<>> => CopyOne(b, x) = [b EXCEPT !.ind = n, !.cnt = to, !.cmds = c, !.mark = m, !.out = o]
    BY DEF CopyOne, n, end, mark, Copies
  <1>8. x = <<>> => CopyOne(b, x) = b
    BY DEF CopyOne
  <1> HIDE DEF to, c, m, o
  <1>9. [b EXCEPT !.ind = n, !.cnt = to, !.cmds = c, !.mark = m, !.out = o] \in Copies
    BY <1>2, <1>3, <1>4, <1>6 DEF Copies
  <1> QED
    BY <1>7, <1>8, <1>9

LEMMA CopyAllType ==
    ASSUME NEW hp, hp.ind \in Int, hp.cnt \in Nat, hp.cmds \in Entries, hp.mark \in Nat,
           NEW commands \in Seq(Seq(CellSet))
    PROVE  CopyAll(hp, commands) \in Copies
  <1> DEFINE none == [ind |-> hp.ind, cnt |-> hp.cnt, cmds |-> hp.cmds, mark |-> hp.mark,
                      out |-> <<>>]
             n == Len(commands)
             Turn(i, v) == CopyOne(v, commands[i])
             b == CHOOSE b : b = [i \in 0 .. n |-> IF i = 0 THEN none
                                                   ELSE CopyOne(b[i - 1], commands[i])]
             F == [x \in (1 .. n) \X Copies |-> Turn(x[1], x[2])]
  <1>1. n \in Nat /\ none \in Copies /\ \A i \in 1 .. n : commands[i] \in Seq(CellSet)
    BY DEF Copies
  <1>2. CopyAll(hp, commands) = b[n]
    BY DEF CopyAll
  <1> HIDE DEF none
  <1>3. \A i \in 1 .. n, v \in Copies : Turn(i, v) \in Copies
    BY <1>1, CopyOneType
  <1>4. F \in [(1 .. n) \X Copies -> Copies]
    <2> HIDE DEF Turn
    <2> QED
      BY <1>3
  <1>5. PICK f \in [0 .. n -> Copies] : Values(f, n, none, F)
    <2> HIDE DEF F, n, b, Turn
    <2> QED
      BY <1>1, <1>4, Iterated
  <1>6. f[0] = none /\ \A i \in 1 .. n : f[i] = F[<<i, f[i - 1]>>]
    BY <1>5 DEF Values
  <1>7. \A i \in 1 .. n : f[i] = Turn(i, f[i - 1])
    <2> SUFFICES ASSUME NEW i \in 1 .. n
                 PROVE  f[i] = Turn(i, f[i - 1])
      OBVIOUS
    <2>1. f[i - 1] \in Copies
      <3>1. i - 1 \in 0 .. n
        BY <1>1
      <3> HIDE DEF F, n, b, Turn
      <3> QED
        BY <3>1
    <2>2. F[<<i, f[i - 1]>>] = Turn(i, f[i - 1])
      <3> HIDE DEF Turn
      <3> QED
        BY <2>1
    <2> QED
      BY <2>2, <1>6
  <1> HIDE DEF F
  <1>8. f = [i \in 0 .. n |-> IF i = 0 THEN none ELSE CopyOne(f[i - 1], commands[i])]
    <2>1. \A i \in 0 .. n : f[i] = IF i = 0 THEN none ELSE CopyOne(f[i - 1], commands[i])
      BY <1>1, <1>6, <1>7
    <2> QED
      BY <2>1
  <1>9. b = [i \in 0 .. n |-> IF i = 0 THEN none ELSE CopyOne(b[i - 1], commands[i])]
    BY <1>8
  <1> HIDE DEF b
  <1>10. b[0] = none
    BY <1>1, <1>9
  <1>11. ASSUME NEW i \in 1 .. n, b[i - 1] \in Copies
         PROVE  b[i] \in Copies
    <2>1. i \in 0 .. n /\ i # 0
      BY <1>1
    <2>2. b[i] = IF i = 0 THEN none ELSE CopyOne(b[i - 1], commands[i])
      BY <2>1, <1>9
    <2> QED
      BY <2>1, <2>2, <1>3, <1>11
  <1>12. b[n] \in Copies
    BY <1>1, <1>10, <1>11, LoopTyped
  <1> QED
    BY <1>2, <1>12

LEMMA CopiedType ==
    ASSUME NEW cells \in Seq(CellSet), NEW offset \in Nat
    PROVE  Copied(cells, offset) \in Seq(CellSet)
  <1> DEFINE ends == {p \in (offset + 1)..Len(cells) : cells[p].k \notin {"body", "stamp"}}
             e == CHOOSE p \in ends : \A q \in ends : p <= q
  <1>1. CASE ends = {}
    <2>1. Copied(cells, offset) = <<>>
      BY <1>1 DEF Copied
    <2> QED
      BY <2>1
  <1>2. CASE ends # {}
    <2>1. Len(cells) \in Nat /\ ends \subseteq Nat
      OBVIOUS
    <2>2. \E p \in ends : \A q \in ends : p <= q
      <3> HIDE DEF ends
      <3> QED
        BY <1>2, <2>1, Smallest
    <2>3. e \in ends
      <3> HIDE DEF ends
      <3> QED
        BY <2>2
    <2>4. Copied(cells, offset) = SubSeq(cells, offset + 1, e)
      BY <1>2 DEF Copied
    <2>5. e \in (offset + 1) .. Len(cells)
      BY <2>3
    <2> HIDE DEF e
    <2>6. \A i \in offset + 1 .. e : cells[i] \in CellSet
      BY <2>1, <2>5
    <2>7. SubSeq(cells, offset + 1, e) \in Seq(CellSet)
      BY <2>1, <2>5, <2>6, SubSeqProperties
    <2> QED
      BY <2>4, <2>7
  <1> QED
    BY <1>1, <1>2

LEMMA KeptType ==
    ASSUME NEW old \in Olds, files \in Seq(FileSet), old.ino \in 1 .. Len(files)
    PROVE  Kept(old) \in Seq(Seq(CellSet))
  <1> DEFINE n == old.ind - Least(old)
             At1(i) == Copied(files[old.ino].cells, Tell(old, Least(old) + i - 1))
  <1>1. old.ind \in Int /\ old.cmds \in Entries /\ files[old.ino].cells \in Seq(CellSet)
    <2>1. old.ind \in Int /\ old.cmds \in Entries
      BY DEF Olds
    <2>2. files[old.ino] \in FileSet
      BY ElementOfSeq
    <2> QED
      BY <2>1, <2>2 DEF FileSet
  <1>2. Least(old) \in Int
    BY <1>1, Constants DEF Least
  <1>3. ASSUME NEW i \in Int
        PROVE  At1(i) \in Seq(CellSet)
    <2>1. Tell(old, Least(old) + i - 1) \in Nat
      <3> DEFINE l == Least(old) + i - 1
      <3>1. l \in Int
        BY <1>2
      <3> HIDE DEF l
      <3>2. old.cmds[l % Slots] \in Nat
        BY <1>1, <3>1, Constants, EntriesType
      <3> QED
        BY <3>2 DEF Tell, l
    <2> QED
      BY <1>1, <2>1, CopiedType
  <1>4. n \in Int /\ Kept(old) = [i \in 1 .. n |-> At1(i)]
    BY <1>1, <1>2 DEF Kept
  <1> DEFINE m == IF n >= 0 THEN n ELSE 0
  <1> HIDE DEF n, At1
  <1>5. m \in Nat /\ 1 .. n = 1 .. m
    BY <1>4
  <1> HIDE DEF m
  <1>6. [i \in 1 .. m |-> At1(i)] \in [1 .. m -> Seq(CellSet)]
    BY <1>3
  <1>7. [i \in 1 .. m |-> At1(i)] \in Seq(Seq(CellSet))
    <2> DEFINE q == [i \in 1 .. m |-> At1(i)]
               S == Seq(CellSet)
    <2>1. q \in [1 .. m -> S]
      BY <1>6
    <2> HIDE DEF q, S
    <2>2. q \in Seq(S)
      BY <1>5, <2>1
    <2> QED
      BY <2>2 DEF q, S
  <1> QED
    BY <1>4, <1>5, <1>7

LEMMA NearEndType ==
    ASSUME NEW cells \in Seq(CellSet), NEW from
    PROVE  NearEnd(cells, from).ind \in Int /\ NearEnd(cells, from).cnt \in Nat
  <1> DEFINE at == {p \in 1..Len(cells) : p > from + 1 /\ cells[p].k = "mark" /\ cells[p - 1].k = "nul"}
             e == CHOOSE p \in at : \A q \in at : p <= q
  <1>1. Len(cells) \in Nat /\ at \subseteq 1 .. Len(cells)
    OBVIOUS
  <1>2. ASSUME NEW p \in 1 .. Len(cells)
        PROVE  cells[p].n \in Int
    <2>1. cells[p] \in CellSet
      BY ElementOfSeq
    <2> QED
      BY <2>1 DEF CellSet
  <1>3. CASE from <= 1 \/ at = {}
    <2>1. NearEnd(cells, from) = [ind |-> 1, cnt |-> 1]
      BY <1>3 DEF NearEnd
    <2> QED
      BY <2>1
  <1>4. CASE ~ (from <= 1) /\ at # {}
    <2>1. NearEnd(cells, from) = [ind |-> cells[e].n, cnt |-> e]
      BY <1>4 DEF NearEnd
    <2> HIDE DEF at
    <2>2. \E p \in at : \A q \in at : p <= q
      <3>1. at \subseteq Nat /\ at # {}
        BY <1>1, <1>4
      <3> QED
        BY <3>1, Smallest
    <2>3. e \in at
      BY <2>2
    <2> HIDE DEF e
    <2>4. e \in 1 .. Len(cells)
      BY <2>3, <1>1
    <2> QED
      BY <2>1, <2>4, <1>2
  <1> QED
    BY <1>3, <1>4

\* What the loop of hist_eof() does to the History_t of a shell.
LEMMA TableType ==
    ASSUME NEW hp \in Tables, NEW st \in {"new", "cmd"}, NEW cells \in Seq(CellSet),
           NEW init \in BOOLEAN
    PROVE  LET a == ReadOn(Reader(hp, st), cells, init)
           IN  /\ Table(hp, a) \in Tables
               /\ \A f \in {"pc", "ino", "hsize", "first", "init", "old", "cmd", "ret"} :
                     Table(hp, a)[f] = hp[f]
  <1> DEFINE q == Reader(hp, st)
             a == ReadOn(q, cells, init)
  <1>1. q \in Readers
    BY DEF Reader, Readers, Tables
  <1> HIDE DEF q
  <1>2. a \in Readers
    BY <1>1, ReadOnType
  <1> HIDE DEF a
  <1>3. a.ind \in Int /\ a.cmds \in Entries /\ a.mark \in Nat /\ a.p \in Nat
    BY <1>2 DEF Readers
  <1>4. Table(hp, a) \in Tables
    BY <1>3 DEF Table, Tables
  <1>5. \A f \in {"pc", "ino", "hsize", "first", "init", "old", "cmd", "ret"} :
            Table(hp, a)[f] = hp[f]
    BY DEF Table, Tables
  <1> QED
    BY <1>4, <1>5 DEF a, q

\* What only reading the file leaves as it was.
SameFile(hp, r) == r.ino = hp.ino /\ r.old = hp.old /\ r.hsize = hp.hsize /\ r.init = hp.init

LEMMA HistEofType ==
    ASSUME NEW hp \in Tables, NEW cells \in Seq(CellSet), NEW ret \in Points
    PROVE  /\ HistEof(hp, cells, ret) \in Tables /\ SameFile(hp, HistEof(hp, cells, ret))
           /\ \/ HistEof(hp, cells, ret).pc = ret
              \/ HistEof(hp, cells, ret).pc = "repair" /\ HistEof(hp, cells, ret).ret = ret
  <1> DEFINE a == ReadOn(Reader(hp, "new"), cells, hp.init)
             q == Table(hp, a)
  <1>1. hp.init \in BOOLEAN
    BY DEF Tables
  <1>2. /\ q \in Tables
        /\ \A f \in {"pc", "ino", "hsize", "first", "init", "old", "cmd", "ret"} : q[f] = hp[f]
    BY <1>1, TableType
  <1>3. \/ HistEof(hp, cells, ret) = [q EXCEPT !.pc = "repair", !.ret = ret]
        \/ HistEof(hp, cells, ret) = [q EXCEPT !.pc = ret]
    BY DEF HistEof
  <1> HIDE DEF q
  <1>4. q.ino = hp.ino /\ q.old = hp.old /\ q.hsize = hp.hsize /\ q.init = hp.init
    BY <1>2
  <1>5. "repair" \in Points
    BY DEF Points
  <1>6. CASE HistEof(hp, cells, ret) = [q EXCEPT !.pc = "repair", !.ret = ret]
    BY <1>2, <1>4, <1>5, <1>6 DEF Tables, SameFile
  <1>7. CASE HistEof(hp, cells, ret) = [q EXCEPT !.pc = ret]
    BY <1>2, <1>4, <1>7 DEF Tables, SameFile
  <1> QED
    BY <1>3, <1>6, <1>7

LEMMA OldTypes ==
    /\ None \in Olds
    /\ \A ino, hsize \in Nat, init \in BOOLEAN, old \in Olds :
          NewTable(ino, hsize, init, old) \in Tables
  <1>1. [i \in 0..(Slots - 1) |-> 0] \in Entries
    BY DEF Entries
  <1>2. [i \in 0..(Slots - 1) |-> IF i = 1 THEN 1 ELSE 0] \in Entries
    BY DEF Entries
  <1>3. None \in Olds
    BY <1>1 DEF None, Olds
  <1>4. ASSUME NEW ino \in Nat, NEW hsize \in Nat, NEW init \in BOOLEAN, NEW old \in Olds
        PROVE  NewTable(ino, hsize, init, old) \in Tables
    <2> DEFINE c == [i \in 0..(Slots - 1) |-> IF i = 1 THEN 1 ELSE 0]
    <2>1. c \in Entries
      BY <1>2
    <2>2. NewTable(ino, hsize, init, old) =
            [pc |-> "opened", ino |-> ino, hsize |-> hsize, ind |-> 1, cnt |-> 1, mark |-> 0,
             first |-> 1, cmds |-> c, init |-> init, old |-> old, cmd |-> 0, ret |-> "off"]
      BY DEF NewTable
    <2> HIDE DEF c
    <2> QED
      BY <2>1, <2>2 DEF Tables, Points
  <1> QED
    BY <1>3, <1>4

----------------------------------------------------------------------------
(* The inductive invariant                                                 *)

Closed == {"off", "reopen"}

Typed ==
    /\ files \in Seq(FileSet) /\ path \in 0 .. Len(files)
    /\ h \in [Shells -> Tables]
    /\ due \in [Shells -> 0 .. Recent] /\ fresh \subseteq Shells /\ typed \in Nat

Placed ==
    \A s \in Shells :
        /\ h[s].pc \notin Closed => h[s].ino \in 1 .. Len(files)
        /\ h[s].old # None => h[s].old.ino \in 1 .. Len(files)
        /\ h[s].pc = "copy" => h[s].old # None
        /\ h[s].pc = "repair" => h[s].ret \in {"load", "clean", "ready", "parse", "edit"}

Stamped(fs, i) == fs[i].cells # <<>> /\ fs[i].cells[1].k = "stamp"
Foreign(fs, i) == fs[i].cells # <<>> /\ fs[i].cells[1].k # "stamp"

\* Only shells that are opening a file may find it without its stamp.
Fronts ==
    \A s \in Shells :
        /\ h[s].pc \notin Closed \cup {"opened"} => Stamped(files, h[s].ino)
        /\ h[s].pc = "opened" => IF h[s].hsize = 0 THEN ~ Foreign(files, h[s].ino) ELSE Cells(s) # <<>>

\* As long as a file that is no history has the name, no shell has used any.
Unused ==
    path # 0 /\ Foreign(files, path) =>
        /\ Len(files) = 1
        /\ \A s \in Shells : /\ h[s].pc \in Closed \cup {"opened"} /\ due[s] = 0
                             /\ Attached(s) => s \in fresh

\* A shell that has got to its prompt has a timer.
Served(hp) == \/ hp.pc \in {"ready", "parse", "long", "run", "edit", "seek", "copy"}
              \/ hp.pc = "repair" /\ hp.ret \in {"ready", "parse", "edit"}
Timed == \A s \in Shells : Served(h[s]) => due[s] > 0

\* The file that has the name is touched before it can be taken for unused.
Touched ==
    \A s \in Shells :
        Attached(s) /\ s \notin fresh =>
            /\ files[path].age + due[s] <= Recent
            /\ due[s] = 0 => files[path].age = 0

\* Whoever is about to unlink its file has found it unused.
Sought ==
    \A s \in Shells :
        h[s].pc = "unlink" /\ h[s].ino = path => \A t \in Shells : Attached(t) => t \in fresh

Inv == Typed /\ Placed /\ Fronts /\ Unused /\ Timed /\ Touched /\ Sought

----------------------------------------------------------------------------
(* Steps of a shell that has its file open.                                *)

\* s has written to its file.
Appends(s) ==
    /\ files' \in Seq(FileSet) /\ Len(files') = Len(files)
    /\ \A i \in 1 .. Len(files) : i # h[s].ino => files'[i] = files[i]
    /\ files'[h[s].ino].age = 0
    /\ Uses(s)

\* s goes on to r with the same file, which has its stamp now.
Moves(s, r) ==
    /\ Goes(s, r) /\ r \in Tables /\ path' = path /\ typed' \in Nat
    /\ h[s].pc \notin Closed /\ r.pc \notin Closed \cup {"opened"}
    /\ r.ino = h[s].ino /\ r.old \in {h[s].old, None}
    /\ r.pc = "copy" => r.old # None
    /\ r.pc = "repair" => r.ret \in {"load", "clean", "ready", "parse", "edit"}
    /\ due' = due \/ SetTimer(s)
    /\ Served(r) => Served(h[s]) \/ SetTimer(s)
    /\ Stamped(files', r.ino)
    /\ \/ files' = files /\ fresh' = fresh
       \/ Appends(s) /\ r.pc # "unlink"
    /\ r.pc = "unlink" => files[r.ino].age >= Recent

LEMMA FileTypes ==
    ASSUME Typed
    PROVE  /\ Len(files) \in Nat /\ path \in Nat
           /\ \A i \in 1 .. Len(files) : files[i] \in FileSet
           /\ \A i \in 1 .. Len(files) : files[i].age \in 0 .. Recent
           /\ \A i \in 1 .. Len(files) : files[i].cells \in Seq(CellSet)
           /\ \A s \in Shells : h[s] \in Tables /\ due[s] \in 0 .. Recent
  <1>1. files \in Seq(FileSet) /\ Len(files) \in Nat /\ path \in Nat
    BY DEF Typed
  <1>2. ASSUME NEW i \in 1 .. Len(files)
        PROVE  files[i] \in FileSet
    BY <1>1, ElementOfSeq
  <1>3. ASSUME NEW i \in 1 .. Len(files)
        PROVE  files[i].age \in 0 .. Recent /\ files[i].cells \in Seq(CellSet)
    BY <1>2 DEF FileSet
  <1>4. ASSUME NEW s \in Shells
        PROVE  h[s] \in Tables /\ due[s] \in 0 .. Recent
    BY DEF Typed
  <1> QED
    BY <1>1, <1>2, <1>3, <1>4

LEMMA GoesType ==
    ASSUME Typed, NEW s \in Shells, NEW r \in Tables, Goes(s, r)
    PROVE  /\ h' \in [Shells -> Tables] /\ h'[s] = r
           /\ \A t \in Shells \ {s} : h'[t] = h[t]
  BY DEF Typed, Goes

LEMMA TimerType ==
    ASSUME Typed, NEW s \in Shells, due' = due \/ SetTimer(s)
    PROVE  /\ due' \in [Shells -> 0 .. Recent]
           /\ \A t \in Shells \ {s} : due'[t] = due[t]
           /\ \/ due' = due
              \/ due'[s] > 0 /\ due'[s] = IF due[s] = 0 THEN Recent ELSE due[s]
  <1>1. due \in [Shells -> 0 .. Recent] /\ Recent \in Nat /\ Recent > 0
    BY Constants DEF Typed
  <1>2. CASE due' = due
    BY <1>1, <1>2
  <1>3. CASE SetTimer(s)
    <2>1. PICK d : d = IF due[s] = 0 THEN Recent ELSE due[s]
      OBVIOUS
    <2>2. d \in 0 .. Recent /\ d > 0
      BY <1>1, <2>1
    <2>3. due' = [due EXCEPT ![s] = d]
      BY <1>3, <2>1 DEF SetTimer
    <2>4. due' \in [Shells -> 0 .. Recent] /\ due'[s] = d /\ \A t \in Shells \ {s} : due'[t] = due[t]
      BY <1>1, <2>2, <2>3
    <2> QED
      BY <2>1, <2>2, <2>4
  <1> QED
    BY <1>2, <1>3

LEMMA UsesType ==
    ASSUME Typed, NEW s \in Shells, Uses(s)
    PROVE  /\ fresh' \subseteq Shells /\ \A t \in Shells \ {s} : t \in fresh' <=> t \in fresh
           /\ (\E u \in Shells : h[u].pc = "unlink" /\ h[u].ino = h[s].ino) => fresh' = fresh
           /\ s \in fresh' => s \in fresh
  BY DEF Typed, Uses

LEMMA MovesKeep ==
    ASSUME Inv, NEW s \in Shells, NEW r, Moves(s, r)
    PROVE  Inv'
  <1>1. /\ Typed /\ Placed /\ Fronts /\ Unused /\ Timed /\ Touched /\ Sought
        /\ Len(files) \in Nat /\ path \in Nat
        /\ \A i \in 1 .. Len(files) : files[i].age \in 0 .. Recent
        /\ \A t \in Shells : due[t] \in 0 .. Recent
    BY FileTypes DEF Inv
  <1>2. /\ h' \in [Shells -> Tables] /\ h'[s] = r
        /\ \A t \in Shells \ {s} : h'[t] = h[t]
    BY <1>1, GoesType DEF Moves
  <1>3. /\ due' \in [Shells -> 0 .. Recent] /\ \A t \in Shells \ {s} : due'[t] = due[t]
        /\ \/ due' = due
           \/ due'[s] > 0 /\ due'[s] = IF due[s] = 0 THEN Recent ELSE due[s]
    BY <1>1, TimerType DEF Moves
  <1>4. r.ino = h[s].ino /\ h[s].ino \in 1 .. Len(files) /\ path' = path
    BY <1>1 DEF Moves, Placed
  <1>5. /\ files' \in Seq(FileSet) /\ Len(files') = Len(files)
        /\ \A i \in 1 .. Len(files) : i # r.ino => files'[i] = files[i]
        /\ files'[r.ino].age \in {0, files[r.ino].age}
    BY <1>1, <1>4 DEF Moves, Appends, Typed
  <1>6. /\ fresh' \subseteq Shells /\ \A t \in Shells \ {s} : t \in fresh' <=> t \in fresh
        /\ (\E u \in Shells : h[u].pc = "unlink" /\ h[u].ino = h[s].ino) => fresh' = fresh
        /\ s \in fresh' => s \in fresh
        /\ s \notin fresh' => s \notin fresh \/ files'[r.ino].age = 0
    <2>1. CASE files' = files /\ fresh' = fresh
      BY <2>1, <1>1 DEF Typed
    <2>2. CASE Appends(s)
      BY <2>2, <1>1, <1>4, UsesType DEF Appends
    <2> QED
      BY <2>1, <2>2 DEF Moves
  <1>7. \A t \in Shells : Attached(t)' <=> Attached(t)
    <2>1. Attached(s)' <=> Attached(s)
      BY <1>2, <1>4 DEF Moves, Attached, Closed
    <2>2. ASSUME NEW t \in Shells \ {s}
          PROVE  Attached(t)' <=> Attached(t)
      BY <1>2, <1>4 DEF Attached
    <2> QED
      BY <2>1, <2>2
  <1>8. Typed'
    BY <1>1, <1>2, <1>3, <1>4, <1>5, <1>6 DEF Typed, Moves
  <1>9. Placed'
    <2> SUFFICES ASSUME NEW t \in Shells
                 PROVE  /\ h'[t].pc \notin Closed => h'[t].ino \in 1 .. Len(files')
                        /\ h'[t].old # None => h'[t].old.ino \in 1 .. Len(files')
                        /\ h'[t].pc = "copy" => h'[t].old # None
                        /\ h'[t].pc = "repair" => h'[t].ret \in {"load", "clean", "ready", "parse", "edit"}
      BY DEF Placed
    <2>1. CASE t = s
      BY <2>1, <1>1, <1>2, <1>4, <1>5 DEF Moves, Placed
    <2>2. CASE t # s
      BY <2>2, <1>1, <1>2, <1>5 DEF Placed
    <2> QED
      BY <2>1, <2>2
  <1>10. Fronts'
    <2> SUFFICES ASSUME NEW t \in Shells
                 PROVE  /\ h'[t].pc \notin Closed \cup {"opened"} => Stamped(files', h'[t].ino)
                        /\ h'[t].pc = "opened" =>
                             IF h'[t].hsize = 0 THEN ~ Foreign(files', h'[t].ino)
                             ELSE files'[h'[t].ino].cells # <<>>
      BY DEF Fronts, Cells
    <2>1. CASE h'[t].ino = r.ino
      BY <2>1 DEF Moves, Stamped, Foreign
    <2>2. CASE h'[t].ino # r.ino
      <3>1. t # s /\ h'[t] = h[t]
        BY <2>2, <1>2
      <3>2. h[t].pc \notin Closed => files'[h[t].ino] = files[h[t].ino]
        BY <2>2, <3>1, <1>1, <1>5 DEF Placed
      <3> QED
        BY <3>1, <3>2, <1>1 DEF Fronts, Stamped, Foreign, Cells, Closed
    <2> QED
      BY <2>1, <2>2
  <1>11. Unused'
    <2> SUFFICES ASSUME path # 0, Foreign(files', path)
                 PROVE  FALSE
      BY <1>4 DEF Unused
    <2>1. path # r.ino
      BY DEF Moves, Stamped, Foreign
    <2>2. path \in 1 .. Len(files) /\ files'[path] = files[path]
      BY <2>1, <1>1, <1>5 DEF Typed
    <2>3. Len(files) = 1
      BY <2>2, <1>1 DEF Unused, Foreign
    <2> QED
      BY <2>1, <2>2, <2>3, <1>4
  <1>12. Timed'
    <2> SUFFICES ASSUME NEW t \in Shells, Served(h'[t])
                 PROVE  due'[t] > 0
      BY DEF Timed, Served
    <2>1. CASE t = s
      <3>1. CASE Served(h[s])
        BY <2>1, <3>1, <1>1, <1>3 DEF Timed
      <3>2. CASE SetTimer(s)
        BY <2>1, <3>2, <1>1, Constants DEF SetTimer, Typed
      <3> QED
        BY <2>1, <3>1, <3>2, <1>2 DEF Moves
    <2>2. CASE t # s
      BY <2>2, <1>1, <1>2, <1>3 DEF Timed
    <2> QED
      BY <2>1, <2>2
  <1>13. Touched'
    <2> SUFFICES ASSUME NEW t \in Shells, Attached(t), t \notin fresh'
                 PROVE  /\ files'[path].age + due'[t] <= Recent
                        /\ due'[t] = 0 => files'[path].age = 0
      BY <1>4, <1>7 DEF Touched
    <2>1. path \in 1 .. Len(files) /\ h[t].ino = path
      BY <1>1 DEF Attached, Placed, Closed
    <2>2. files'[path].age \in {0, files[path].age} /\ files[path].age \in 0 .. Recent
      BY <2>1, <1>1, <1>5
    <2>3. due[t] \in 0 .. Recent /\ due'[t] \in 0 .. Recent
      BY <1>1, <1>3
    <2>4. CASE files'[path].age = 0
      BY <2>3, <2>4, Constants
    <2>5. CASE files'[path].age = files[path].age /\ files'[path].age # 0
      <3>1. t \notin fresh
        <4>1. CASE t = s
          BY <4>1, <2>1, <2>5, <1>4, <1>6
        <4>2. CASE t # s
          BY <4>2, <1>6
        <4> QED
          BY <4>1, <4>2
      <3>2. files[path].age + due[t] <= Recent /\ due[t] # 0
        BY <3>1, <2>5, <1>1 DEF Touched
      <3>3. due'[t] = due[t]
        BY <3>2, <1>3
      <3> QED
        BY <3>2, <3>3, <2>5
    <2> QED
      BY <2>2, <2>4, <2>5
  <1>14. Sought'
    <2> SUFFICES ASSUME NEW u \in Shells, h'[u].pc = "unlink", h'[u].ino = path,
                        NEW t \in Shells, Attached(t)
                 PROVE  t \in fresh'
      BY <1>4, <1>7 DEF Sought
    <2>1. CASE u = s
      <3>1. r.pc = "unlink" /\ r.ino = path
        BY <2>1, <1>2
      <3>2. files[path].age >= Recent /\ fresh' = fresh
        BY <3>1 DEF Moves
      <3>3. path \in 1 .. Len(files)
        BY <3>1, <1>4
      <3>4. files[path].age \in Int /\ due[t] \in Nat
        BY <3>3, <1>1
      <3>5. ~ (/\ files[path].age + due[t] <= Recent
               /\ due[t] = 0 => files[path].age = 0)
        BY <3>2, <3>4, Constants
      <3>6. t \in fresh
        BY <3>5, <1>1 DEF Touched
      <3> QED
        BY <3>2, <3>6
    <2>2. CASE u # s
      <3>1. h[u].pc = "unlink" /\ h[u].ino = path
        BY <2>2, <1>2
      <3>2. t \in fresh
        BY <3>1, <1>1 DEF Sought
      <3>3. CASE t = s
        <4>1. h[s].ino = path
          BY <3>3 DEF Attached
        <4> QED
          BY <4>1, <3>1, <3>2, <1>6
      <3>4. CASE t # s
        BY <3>2, <3>4, <1>6
      <3> QED
        BY <3>3, <3>4
    <2> QED
      BY <2>1, <2>2
  <1> QED
    BY <1>8, <1>9, <1>10, <1>11, <1>12, <1>13, <1>14 DEF Inv

----------------------------------------------------------------------------
(* The other steps: a shell closes its file or opens one, a file is        *)
(* touched, time passes.                                                   *)

Leaves(s, r) ==
    /\ Goes(s, r) /\ r \in Tables /\ r.pc \in Closed
    /\ files' = files /\ path' \in {path, 0} /\ typed' = typed
    /\ due' \in {due, [due EXCEPT ![s] = 0]} /\ fresh' \in {fresh, fresh \ {s}}
    /\ r.old # None => r.old.ino \in 1 .. Len(files)

LEMMA LeavesKeep ==
    ASSUME Inv, NEW s \in Shells, NEW r, Leaves(s, r)
    PROVE  Inv'
  <1>1. /\ Typed /\ Placed /\ Fronts /\ Unused /\ Timed /\ Touched /\ Sought
        /\ files' = files /\ Len(files) \in Nat
    BY FileTypes DEF Inv, Leaves
  <1>2. /\ h' \in [Shells -> Tables] /\ h'[s] = r
        /\ \A t \in Shells \ {s} : h'[t] = h[t]
    BY <1>1, GoesType DEF Leaves
  <1>3. /\ due' \in [Shells -> 0 .. Recent] /\ \A t \in Shells \ {s} : due'[t] = due[t]
        /\ due'[s] \in {due[s], 0}
    BY <1>1, Constants DEF Leaves, Typed
  <1>4. ~ Attached(s)' /\ ~ Served(h'[s]) /\ h'[s].pc \in Closed
    BY <1>2 DEF Attached, Leaves, Closed, Served
  <1>5. ASSUME NEW t \in Shells, Attached(t)'
        PROVE  t # s /\ h'[t] = h[t] /\ due'[t] = due[t] /\ path' = path /\ Attached(t)
    <2>1. t # s /\ h'[t] = h[t]
      BY <1>2, <1>4, <1>5
    <2>2. h[t].pc \notin Closed /\ h[t].ino = path'
      BY <2>1, <1>5 DEF Attached, Closed
    <2>3. path' # 0
      BY <2>2, <1>1 DEF Placed
    <2> QED
      BY <2>1, <2>2, <2>3, <1>3 DEF Attached, Leaves, Closed
  <1>6. Typed'
    <2>1. path' \in 0 .. Len(files') /\ fresh' \subseteq Shells /\ typed' \in Nat
      BY <1>1 DEF Typed, Leaves
    <2> QED
      BY <2>1, <1>1, <1>2, <1>3 DEF Typed
  <1>7. Placed'
    <2> SUFFICES ASSUME NEW t \in Shells
                 PROVE  /\ h'[t].pc \notin Closed => h'[t].ino \in 1 .. Len(files')
                        /\ h'[t].old # None => h'[t].old.ino \in 1 .. Len(files')
                        /\ h'[t].pc = "copy" => h'[t].old # None
                        /\ h'[t].pc = "repair" => h'[t].ret \in {"load", "clean", "ready", "parse", "edit"}
      BY DEF Placed
    <2>1. CASE t = s
      BY <2>1, <1>1, <1>2 DEF Leaves, Closed
    <2>2. CASE t # s
      BY <2>2, <1>1, <1>2 DEF Placed
    <2> QED
      BY <2>1, <2>2
  <1>8. Fronts'
    <2> SUFFICES ASSUME NEW t \in Shells, h'[t].pc \notin Closed
                 PROVE  /\ h'[t].pc \notin Closed \cup {"opened"} => Stamped(files', h'[t].ino)
                        /\ h'[t].pc = "opened" =>
                             IF h'[t].hsize = 0 THEN ~ Foreign(files', h'[t].ino)
                             ELSE files'[h'[t].ino].cells # <<>>
      BY DEF Fronts, Cells, Closed
    <2>1. t # s /\ h'[t] = h[t]
      BY <1>2, <1>4
    <2> QED
      BY <2>1, <1>1 DEF Fronts, Cells
  <1>9. Unused'
    <2> SUFFICES ASSUME path' # 0, Foreign(files', path'), NEW t \in Shells
                 PROVE  /\ Len(files') = 1 /\ h'[t].pc \in Closed \cup {"opened"} /\ due'[t] = 0
                        /\ Attached(t)' => t \in fresh'
      BY DEF Unused
    <2>1. path' = path /\ path # 0 /\ Foreign(files, path)
      BY <1>1 DEF Leaves
    <2>2. /\ Len(files) = 1
          /\ \A u \in Shells : /\ h[u].pc \in Closed \cup {"opened"} /\ due[u] = 0
                               /\ Attached(u) => u \in fresh
      BY <2>1, <1>1 DEF Unused
    <2>3. Attached(t)' => t \in fresh'
      BY <2>2, <1>5 DEF Leaves
    <2>4. h'[t].pc \in Closed \cup {"opened"} /\ due'[t] = 0
      BY <2>2, <1>2, <1>3, <1>4
    <2> QED
      BY <2>2, <2>3, <2>4, <1>1
  <1>10. Timed'
    <2> SUFFICES ASSUME NEW t \in Shells, Served(h'[t])
                 PROVE  due'[t] > 0
      BY DEF Timed, Served
    <2>1. t # s /\ h'[t] = h[t] /\ due'[t] = due[t]
      BY <1>2, <1>3, <1>4
    <2> QED
      BY <2>1, <1>1 DEF Timed
  <1>11. Touched'
    <2> SUFFICES ASSUME NEW t \in Shells, Attached(t)', t \notin fresh'
                 PROVE  /\ files'[path'].age + due'[t] <= Recent
                        /\ due'[t] = 0 => files'[path'].age = 0
      BY DEF Touched
    <2>1. t # s /\ due'[t] = due[t] /\ path' = path /\ Attached(t)
      BY <1>5
    <2>2. t \notin fresh
      BY <2>1 DEF Leaves
    <2> QED
      BY <2>1, <2>2, <1>1 DEF Touched
  <1>12. Sought'
    <2> SUFFICES ASSUME NEW u \in Shells, h'[u].pc = "unlink", h'[u].ino = path',
                        NEW t \in Shells, Attached(t)'
                 PROVE  t \in fresh'
      BY DEF Sought
    <2>1. t # s /\ path' = path /\ Attached(t)
      BY <1>5
    <2>2. u # s /\ h'[u] = h[u]
      BY <1>2, <1>4 DEF Closed
    <2>3. t \in fresh
      BY <2>1, <2>2, <1>1 DEF Sought
    <2> QED
      BY <2>1, <2>3 DEF Leaves
  <1> QED
    BY <1>6, <1>7, <1>8, <1>9, <1>10, <1>11, <1>12 DEF Inv

\* The file that s opens, with the name, is the one there was or a new one.
LEMMA OpensFile ==
    ASSUME Inv, NEW s \in Shells, Open(s)
    PROVE  /\ files' \in Seq(FileSet) /\ Len(files') \in Nat /\ Len(files) <= Len(files')
           /\ \A i \in 1 .. Len(files) : files'[i] = files[i]
           /\ path' \in 1 .. Len(files')
           /\ path' # path => path' \notin 1 .. Len(files) /\ files'[path'].cells = <<>>
           /\ path' = path => files' = files
           /\ Goes(s, NewTable(path', Len(files'[path'].cells), h[s].init, h[s].old))
           /\ Len(files'[path'].cells) \in Nat
           /\ Len(files'[path'].cells) = 0 => files'[path'].cells = <<>>
  <1>1. Typed /\ files \in Seq(FileSet) /\ Len(files) \in Nat /\ path \in 0 .. Len(files)
        /\ \A i \in 1 .. Len(files) : files[i].cells \in Seq(CellSet)
    BY FileTypes DEF Inv, Typed
  <1>2. CASE path # 0
    <2>1. /\ files' = files /\ path' = path /\ path \in 1 .. Len(files)
          /\ Goes(s, NewTable(path, Len(files[path].cells), h[s].init, h[s].old))
      BY <1>1, <1>2 DEF Open
    <2>2. files[path].cells \in Seq(CellSet)
      BY <1>1, <2>1
    <2>3. Len(files[path].cells) \in Nat /\ (Len(files[path].cells) = 0 => files[path].cells = <<>>)
      BY <2>2
    <2> QED
      BY <2>1, <2>3, <1>1
  <1>3. CASE path = 0
    <2> DEFINE f == [cells |-> <<>>, age |-> 0]
    <2>1. files' = Append(files, f) /\ path' = Len(files') /\ Goes(s, NewTable(path', 0, h[s].init, h[s].old))
      BY <1>3 DEF Open
    <2>2. f \in FileSet /\ f.cells = <<>> /\ Len(f.cells) = 0
      BY Constants DEF FileSet
    <2> HIDE DEF f
    <2>3. /\ files' \in Seq(FileSet) /\ Len(files') = Len(files) + 1
          /\ \A i \in 1 .. Len(files) : files'[i] = files[i]
          /\ files'[Len(files) + 1] = f
      BY <2>1, <2>2, <1>1, AppendProperties
    <2>4. path' = Len(files) + 1 /\ files'[path'] = f
      BY <2>1, <2>3
    <2>5. /\ Len(files') \in Nat /\ Len(files) <= Len(files') /\ path' \in 1 .. Len(files')
          /\ path' \notin 1 .. Len(files) /\ path' # path
      BY <2>3, <2>4, <1>1, <1>3
    <2> QED
      BY <2>1, <2>2, <2>3, <2>4, <2>5
  <1> QED
    BY <1>2, <1>3

LEMMA OpenKeeps ==
    ASSUME Inv, NEW s \in Shells, Open(s)
    PROVE  Inv'
  <1> DEFINE r == NewTable(path', Len(files'[path'].cells), h[s].init, h[s].old)
  <1>1. /\ Typed /\ Placed /\ Fronts /\ Unused /\ Timed /\ Touched /\ Sought
        /\ Len(files) \in Nat /\ h[s] \in Tables
    BY FileTypes DEF Inv
  <1>2. /\ files' \in Seq(FileSet) /\ Len(files') \in Nat /\ Len(files) <= Len(files')
        /\ \A i \in 1 .. Len(files) : files'[i] = files[i] /\ i \in 1 .. Len(files')
        /\ path' \in 1 .. Len(files') /\ path' \in Nat
        /\ path' # path => path' \notin 1 .. Len(files) /\ files'[path'].cells = <<>>
        /\ path' = path => files' = files
        /\ Goes(s, r)
        /\ Len(files'[path'].cells) \in Nat
        /\ Len(files'[path'].cells) = 0 => files'[path'].cells = <<>>
    BY <1>1, OpensFile
  <1>3. /\ r \in Tables
        /\ r.ino = path' /\ r.old = h[s].old /\ r.pc = "opened" /\ r.hsize = Len(files'[path'].cells)
    <2>1. h[s].init \in BOOLEAN /\ h[s].old \in Olds
      BY <1>1 DEF Tables
    <2>2. r \in Tables
      BY <2>1, <1>2, OldTypes
    <2> QED
      BY <2>2 DEF NewTable
  <1> HIDE DEF r
  <1>4. /\ h' \in [Shells -> Tables] /\ h'[s] = r
        /\ \A t \in Shells \ {s} : h'[t] = h[t]
    BY <1>1, <1>2, <1>3, GoesType
  <1>5. due' = due /\ fresh' = fresh \cup {s} /\ typed' = typed /\ h[s].pc \in Closed
    BY DEF Open, Closed
  <1>6. ASSUME NEW t \in Shells \ {s}, h[t].pc \notin Closed
        PROVE  /\ h[t].ino \in 1 .. Len(files) /\ files'[h[t].ino] = files[h[t].ino]
               /\ Attached(t)' => path' = path /\ Attached(t)
    <2>1. h[t].ino \in 1 .. Len(files)
      BY <1>1, <1>6 DEF Placed
    <2>2. Attached(t)' => path' = path /\ Attached(t)
      BY <2>1, <1>2, <1>4, <1>6 DEF Attached, Closed
    <2> QED
      BY <2>1, <2>2, <1>2
  <1>7. Typed'
    <2>1. fresh' \subseteq Shells /\ path' \in 0 .. Len(files')
      BY <1>1, <1>2, <1>5 DEF Typed
    <2> QED
      BY <2>1, <1>1, <1>2, <1>4, <1>5 DEF Typed
  <1>8. Placed'
    <2> SUFFICES ASSUME NEW t \in Shells
                 PROVE  /\ h'[t].pc \notin Closed => h'[t].ino \in 1 .. Len(files')
                        /\ h'[t].old # None => h'[t].old.ino \in 1 .. Len(files')
                        /\ h'[t].pc = "copy" => h'[t].old # None
                        /\ h'[t].pc = "repair" => h'[t].ret \in {"load", "clean", "ready", "parse", "edit"}
      BY DEF Placed
    <2>1. CASE t = s
      BY <2>1, <1>1, <1>2, <1>3, <1>4 DEF Placed
    <2>2. CASE t # s
      BY <2>2, <1>1, <1>2, <1>4 DEF Placed
    <2> QED
      BY <2>1, <2>2
  <1>9. Fronts'
    <2> SUFFICES ASSUME NEW t \in Shells, h'[t].pc \notin Closed
                 PROVE  /\ h'[t].pc \notin Closed \cup {"opened"} => Stamped(files', h'[t].ino)
                        /\ h'[t].pc = "opened" =>
                             IF h'[t].hsize = 0 THEN ~ Foreign(files', h'[t].ino)
                             ELSE files'[h'[t].ino].cells # <<>>
      BY DEF Fronts, Cells, Closed
    <2>1. CASE t = s
      <3>1. r.hsize = 0 => ~ Foreign(files', r.ino)
        BY <1>2, <1>3 DEF Foreign
      <3>2. r.hsize # 0 => files'[r.ino].cells # <<>>
        BY <1>3
      <3> QED
        BY <2>1, <3>1, <3>2, <1>3, <1>4
    <2>2. CASE t # s
      <3>1. h'[t] = h[t] /\ files'[h[t].ino] = files[h[t].ino]
        BY <2>2, <1>4, <1>6
      <3> QED
        BY <3>1, <1>1 DEF Fronts, Stamped, Foreign, Cells
    <2> QED
      BY <2>1, <2>2
  <1>10. ASSUME NEW t \in Shells, Attached(t)', t \notin fresh'
         PROVE  t # s /\ Attached(t) /\ path' = path /\ files' = files /\ t \notin fresh
    <2>1. t # s /\ t \notin fresh
      BY <1>5, <1>10
    <2>2. h[t].pc \notin Closed
      BY <2>1, <1>4, <1>10 DEF Attached, Closed
    <2> QED
      BY <2>1, <2>2, <1>2, <1>6, <1>10
  <1>11. Unused'
    <2> SUFFICES ASSUME Foreign(files', path'), NEW t \in Shells
                 PROVE  /\ Len(files') = 1 /\ h'[t].pc \in Closed \cup {"opened"} /\ due'[t] = 0
                        /\ Attached(t)' => t \in fresh'
      BY DEF Unused
    <2>1. path' = path /\ files' = files
      BY <1>2 DEF Foreign
    <2>2. path # 0
      BY <2>1, <1>2
    <2>3. /\ Len(files) = 1
          /\ \A u \in Shells : /\ h[u].pc \in Closed \cup {"opened"} /\ due[u] = 0
                               /\ Attached(u) => u \in fresh
      BY <2>1, <2>2, <1>1 DEF Unused
    <2>4. h'[t].pc \in Closed \cup {"opened"}
      BY <2>3, <1>3, <1>4
    <2>5. Attached(t)' => t \in fresh'
      BY <2>3, <1>10, <1>5
    <2> QED
      BY <2>1, <2>3, <2>4, <2>5, <1>5
  <1>12. Timed'
    <2> SUFFICES ASSUME NEW t \in Shells, Served(h'[t])
                 PROVE  due'[t] > 0
      BY DEF Timed, Served
    <2>1. t # s /\ h'[t] = h[t]
      BY <1>3, <1>4 DEF Served
    <2> QED
      BY <2>1, <1>1, <1>5 DEF Timed
  <1>13. Touched'
    <2> SUFFICES ASSUME NEW t \in Shells, Attached(t)', t \notin fresh'
                 PROVE  /\ files'[path'].age + due'[t] <= Recent
                        /\ due'[t] = 0 => files'[path'].age = 0
      BY DEF Touched
    <2> QED
      BY <1>1, <1>5, <1>10 DEF Touched
  <1>14. Sought'
    <2> SUFFICES ASSUME NEW u \in Shells, h'[u].pc = "unlink", h'[u].ino = path',
                        NEW t \in Shells, Attached(t)', t \notin fresh'
                 PROVE  FALSE
      BY DEF Sought
    <2>1. Attached(t) /\ path' = path /\ t \notin fresh
      BY <1>10
    <2>2. u # s /\ h'[u] = h[u]
      BY <1>3, <1>4
    <2> QED
      BY <2>1, <2>2, <1>1 DEF Sought
  <1> QED
    BY <1>7, <1>8, <1>9, <1>11, <1>12, <1>13, <1>14 DEF Inv

\* Files that get older or are touched, and timers that run.
LEMMA TouchKeeps ==
    ASSUME Inv, NEW s \in Shells, HistTouch(s)
    PROVE  Inv'
  <1>1. /\ Typed /\ Placed /\ Fronts /\ Unused /\ Timed /\ Touched /\ Sought
        /\ Len(files) \in Nat
        /\ \A i \in 1 .. Len(files) : files[i] \in FileSet
        /\ h' = h /\ path' = path /\ typed' = typed /\ path \in 0 .. Len(files)
        /\ due \in [Shells -> 0 .. Recent] /\ files \in Seq(FileSet)
    BY FileTypes DEF Inv, HistTouch, Typed
  <1>2. due[s] = 1 /\ due' = [due EXCEPT ![s] = Recent] /\ Uses(s)
    BY DEF HistTouch
  <1>3. /\ due' \in [Shells -> 0 .. Recent]
        /\ due'[s] = Recent /\ \A t \in Shells \ {s} : due'[t] = due[t]
    BY <1>1, <1>2, Constants
  <1>4. /\ fresh' \subseteq Shells /\ \A t \in Shells \ {s} : t \in fresh' <=> t \in fresh
        /\ (\E u \in Shells : h[u].pc = "unlink" /\ h[u].ino = h[s].ino) => fresh' = fresh
        /\ s \in fresh' => s \in fresh
    BY <1>1, <1>2, UsesType
  <1>5. /\ files' \in Seq(FileSet) /\ Len(files') = Len(files)
        /\ \A i \in 1 .. Len(files) : files'[i].cells = files[i].cells
        /\ path # 0 => files'[path].age = 0
    <2>1. CASE path = 0
      BY <2>1, <1>1 DEF HistTouch
    <2>2. CASE path # 0
      <3> DEFINE f == [files[path] EXCEPT !.age = 0]
      <3>1. files' = [files EXCEPT ![path] = f]
        BY <2>2 DEF HistTouch
      <3>2. path \in 1 .. Len(files) /\ files[path] \in FileSet
        BY <2>2, <1>1
      <3>3. f \in FileSet /\ f.cells = files[path].cells /\ f.age = 0
        BY <3>2, Constants DEF FileSet
      <3> HIDE DEF f
      <3>4. /\ files' \in Seq(FileSet) /\ Len(files') = Len(files)
            /\ \A i \in 1 .. Len(files) : files'[i] = IF i = path THEN f ELSE files[i]
        BY <3>1, <3>2, <3>3, <1>1, ExceptSeq
      <3> QED
        BY <3>2, <3>3, <3>4
    <2> QED
      BY <2>1, <2>2
  <1>6. \A t \in Shells : Attached(t)' <=> Attached(t)
    BY <1>1 DEF Attached
  <1>7. Typed'
    BY <1>1, <1>3, <1>4, <1>5 DEF Typed
  <1>8. Placed'
    BY <1>1, <1>5 DEF Placed
  <1>9. Fronts'
    <2> SUFFICES ASSUME NEW t \in Shells, h[t].pc \notin Closed
                 PROVE  /\ h[t].pc \notin Closed \cup {"opened"} => Stamped(files', h[t].ino)
                        /\ h[t].pc = "opened" =>
                             IF h[t].hsize = 0 THEN ~ Foreign(files', h[t].ino)
                             ELSE files'[h[t].ino].cells # <<>>
      BY <1>1 DEF Fronts, Cells, Closed
    <2>1. files'[h[t].ino].cells = files[h[t].ino].cells
      BY <1>1, <1>5 DEF Placed
    <2> QED
      BY <2>1, <1>1 DEF Fronts, Stamped, Foreign, Cells
  <1>10. Unused'
    <2> SUFFICES ASSUME path # 0, Foreign(files', path)
                 PROVE  FALSE
      BY <1>1 DEF Unused
    <2>1. path \in 1 .. Len(files)
      BY <1>1
    <2>2. Foreign(files, path)
      BY <2>1, <1>5 DEF Foreign
    <2>3. due[s] = 0
      BY <2>2, <1>1 DEF Unused
    <2> QED
      BY <2>3, <1>2
  <1>11. Timed'
    <2> SUFFICES ASSUME NEW t \in Shells, Served(h[t])
                 PROVE  due'[t] > 0
      BY <1>1 DEF Timed, Served
    <2>1. CASE t = s
      BY <2>1, <1>3, Constants
    <2>2. CASE t # s
      BY <2>2, <1>1, <1>3 DEF Timed
    <2> QED
      BY <2>1, <2>2
  <1>12. Touched'
    <2> SUFFICES ASSUME NEW t \in Shells, Attached(t)
                 PROVE  /\ files'[path].age + due'[t] <= Recent
                        /\ due'[t] = 0 => files'[path].age = 0
      BY <1>1, <1>6 DEF Touched
    <2>1. files'[path].age = 0
      BY <1>1, <1>5 DEF Attached, Placed, Closed
    <2>2. due'[t] \in 0 .. Recent
      BY <1>3
    <2> QED
      BY <2>1, <2>2, Constants
  <1>13. Sought'
    <2> SUFFICES ASSUME NEW u \in Shells, h[u].pc = "unlink", h[u].ino = path,
                        NEW t \in Shells, Attached(t)
                 PROVE  t \in fresh'
      BY <1>1, <1>6 DEF Sought
    <2>1. t \in fresh
      BY <1>1 DEF Sought
    <2>2. CASE t = s
      <3>1. h[s].ino = path
        BY <2>2 DEF Attached
      <3> QED
        BY <2>1, <3>1, <1>4
    <2>3. CASE t # s
      BY <2>1, <2>3, <1>4
    <2> QED
      BY <2>2, <2>3
  <1> QED
    BY <1>7, <1>8, <1>9, <1>10, <1>11, <1>12, <1>13 DEF Inv

LEMMA TickKeeps ==
    ASSUME Inv, Tick
    PROVE  Inv'
  <1>1. /\ Typed /\ Placed /\ Fronts /\ Unused /\ Timed /\ Touched /\ Sought
        /\ Len(files) \in Nat
        /\ \A i \in 1 .. Len(files) : files[i] \in FileSet
        /\ h' = h /\ path' = path /\ typed' = typed /\ fresh' = fresh /\ path \in 0 .. Len(files)
        /\ due \in [Shells -> 0 .. Recent] /\ files \in Seq(FileSet)
    BY FileTypes DEF Inv, Tick, Typed
  <1>2. \A t \in Shells : h[t].pc \in Waiting /\ due[t] # 1
    BY DEF Tick
  <1>3. /\ due' \in [Shells -> 0 .. Recent]
        /\ \A t \in Shells : due'[t] = IF due[t] = 0 THEN 0 ELSE due[t] - 1
    <2>1. due' = [t \in Shells |-> IF due[t] = 0 THEN 0 ELSE due[t] - 1]
      BY DEF Tick
    <2> QED
      BY <2>1, <1>1, Constants
  <1> DEFINE old(i) == [files[i] EXCEPT !.age = IF @ < Recent THEN @ + 1 ELSE @]
  <1>4. ASSUME NEW i \in 1 .. Len(files)
        PROVE  /\ old(i) \in FileSet /\ old(i).cells = files[i].cells
               /\ old(i).age = IF files[i].age < Recent THEN files[i].age + 1 ELSE files[i].age
    <2>1. files[i] \in FileSet
      BY <1>1
    <2> QED
      BY <2>1, Constants DEF FileSet
  <1>5. files' = [i \in 1 .. Len(files) |-> old(i)]
    BY DEF Tick
  <1> HIDE DEF old
  <1>6. /\ files' \in Seq(FileSet) /\ Len(files') = Len(files)
        /\ \A i \in 1 .. Len(files) :
              /\ files'[i].cells = files[i].cells /\ files[i].age \in 0 .. Recent
              /\ files'[i].age = IF files[i].age < Recent THEN files[i].age + 1 ELSE files[i].age
    <2>1. files' \in [1 .. Len(files) -> FileSet]
      BY <1>4, <1>5
    <2>2. files' \in Seq(FileSet) /\ Len(files') = Len(files)
      BY <2>1, <1>1
    <2>3. ASSUME NEW i \in 1 .. Len(files)
          PROVE  /\ files'[i].cells = files[i].cells /\ files[i].age \in 0 .. Recent
                 /\ files'[i].age = IF files[i].age < Recent THEN files[i].age + 1 ELSE files[i].age
      <3>1. files'[i] = old(i) /\ files[i] \in FileSet
        BY <1>1, <1>5
      <3>2. files[i].age \in 0 .. Recent
        BY <3>1 DEF FileSet
      <3> QED
        BY <3>1, <3>2, <1>4
    <2> QED
      BY <2>2, <2>3
  <1>7. \A t \in Shells : Attached(t)' <=> Attached(t)
    BY <1>1 DEF Attached
  <1>8. Typed'
    BY <1>1, <1>3, <1>6 DEF Typed
  <1>9. Placed'
    BY <1>1, <1>6 DEF Placed
  <1>10. Fronts'
    <2> SUFFICES ASSUME NEW t \in Shells, h[t].pc \notin Closed
                 PROVE  /\ h[t].pc \notin Closed \cup {"opened"} => Stamped(files', h[t].ino)
                        /\ h[t].pc = "opened" =>
                             IF h[t].hsize = 0 THEN ~ Foreign(files', h[t].ino)
                             ELSE files'[h[t].ino].cells # <<>>
      BY <1>1 DEF Fronts, Cells, Closed
    <2>1. files'[h[t].ino].cells = files[h[t].ino].cells
      BY <1>1, <1>6 DEF Placed
    <2> QED
      BY <2>1, <1>1 DEF Fronts, Stamped, Foreign, Cells
  <1>11. Unused'
    <2>1. CASE path = 0
      BY <2>1, <1>1 DEF Unused
    <2>2. CASE path # 0
      <3>1. path \in 1 .. Len(files)
        BY <2>2, <1>1
      <3>2. Foreign(files, path)' <=> Foreign(files, path)
        BY <3>1, <1>1, <1>6 DEF Foreign
      <3>3. \A t \in Shells : due[t] = 0 => due'[t] = 0
        BY <1>3
      <3> QED
        BY <3>2, <3>3, <1>1, <1>6, <1>7 DEF Unused
    <2> QED
      BY <2>1, <2>2
  <1>12. Timed'
    <2> SUFFICES ASSUME NEW t \in Shells, Served(h[t])
                 PROVE  due'[t] > 0
      BY <1>1 DEF Timed, Served
    <2>1. due[t] > 0 /\ due[t] # 1 /\ due[t] \in Nat
      BY <1>1, <1>2 DEF Timed
    <2> QED
      BY <2>1, <1>3
  <1>13. Touched'
    <2> SUFFICES ASSUME NEW t \in Shells, Attached(t), t \notin fresh
                 PROVE  /\ files'[path].age + due'[t] <= Recent
                        /\ due'[t] = 0 => files'[path].age = 0
      BY <1>1, <1>7 DEF Touched
    <2>1. Served(h[t])
      BY <1>2 DEF Attached, Waiting, Served
    <2>2. due[t] > 0 /\ due[t] # 1 /\ due[t] \in Nat
      BY <2>1, <1>1, <1>2 DEF Timed
    <2>3. path \in 1 .. Len(files)
      BY <1>1 DEF Attached, Placed, Closed
    <2>4. files[path].age + due[t] <= Recent
      BY <1>1 DEF Touched
    <2> QED
      BY <2>2, <2>3, <2>4, <1>3, <1>6, Constants
  <1>14. Sought'
    BY <1>1, <1>7 DEF Sought
  <1> QED
    BY <1>8, <1>9, <1>10, <1>11, <1>12, <1>13, <1>14 DEF Inv

----------------------------------------------------------------------------
(* Each action is one of these steps.                                      *)

LEMMA WritesAppends ==
    ASSUME Typed, Placed, NEW s \in Shells, h[s].pc \notin Closed, NEW x \in Seq(CellSet),
           Writes(s, x),
           \/ Stamped(files, h[s].ino)
           \/ ~ Foreign(files, h[s].ino) /\ x # <<>> /\ x[1].k = "stamp"
    PROVE  Appends(s) /\ Stamped(files', h[s].ino)
  <1> DEFINE i == h[s].ino
             c == files[i].cells
             f == [cells |-> c \o x, age |-> 0]
  <1>1. /\ files \in Seq(FileSet) /\ i \in 1 .. Len(files) /\ files[i] \in FileSet
        /\ c \in Seq(CellSet) /\ Len(files) \in Nat
    BY FileTypes DEF Placed, Typed
  <1>2. c \o x \in Seq(CellSet) /\ Len(c \o x) = Len(c) + Len(x)
        /\ \A j \in 1 .. Len(c) + Len(x) : (c \o x)[j] = IF j <= Len(c) THEN c[j] ELSE x[j - Len(c)]
    BY <1>1, ConcatProperties
  <1>3. f \in FileSet
    BY <1>2, Constants DEF FileSet
  <1>4. files' = [files EXCEPT ![i] = f] /\ Uses(s)
    BY <1>1 DEF Writes, FileSet
  <1>5. f.cells # <<>> /\ f.cells[1].k = "stamp"
    <2> DEFINE d == c \o x
    <2>1. Len(c) \in Nat /\ Len(x) \in Nat
      BY <1>1
    <2>2. CASE Stamped(files, i)
      <3>1. c # <<>> /\ c[1].k = "stamp"
        BY <2>2 DEF Stamped
      <3> HIDE DEF c
      <3>2. Len(c) >= 1
        BY <3>1, <1>1
      <3>3. d[1] = c[1] /\ Len(d) >= 1
        BY <3>2, <2>1, <1>2
      <3>4. f.cells = d
        OBVIOUS
      <3> HIDE DEF d, f
      <3> QED
        BY <3>1, <3>3, <3>4
    <2>3. CASE ~ Stamped(files, i)
      <3>1. c = <<>> /\ x # <<>> /\ x[1].k = "stamp"
        BY <2>3 DEF Stamped, Foreign
      <3>2. f.cells = x
        BY <3>1, ConcatEmptySeq
      <3> QED
        BY <3>1, <3>2
    <2> QED
      BY <2>2, <2>3
  <1> HIDE DEF f
  <1>6. /\ files' \in Seq(FileSet) /\ Len(files') = Len(files)
        /\ \A j \in 1 .. Len(files) : files'[j] = IF j = i THEN f ELSE files[j]
    BY <1>1, <1>3, <1>4, ExceptSeq
  <1>7. f.age = 0
    BY DEF f
  <1>8. files'[i] = f
    BY <1>1, <1>6
  <1> QED
    BY <1>4, <1>5, <1>6, <1>7, <1>8 DEF Appends, Stamped

\* The state of s, as the steps below need it.
LEMMA Here ==
    ASSUME Inv, NEW s \in Shells
    PROVE  /\ Typed /\ Placed /\ Fronts /\ h[s] \in Tables /\ h[s].ret \in Points
           /\ h[s].pc \notin Closed => h[s].ino \in 1 .. Len(files) /\ Cells(s) \in Seq(CellSet)
           /\ h[s].pc \notin Closed \cup {"opened"} => Stamped(files, h[s].ino)
           /\ h[s].old # None => h[s].old.ino \in 1 .. Len(files)
           /\ h[s].pc = "copy" => h[s].old # None
           /\ h[s].pc = "repair" => h[s].ret \in {"load", "clean", "ready", "parse", "edit"}
           /\ typed \in Nat /\ files \in Seq(FileSet)
  <1>1. Typed /\ Placed /\ Fronts /\ h[s] \in Tables
    BY FileTypes DEF Inv
  <1>2. h[s].pc \notin Closed => h[s].ino \in 1 .. Len(files) /\ Cells(s) \in Seq(CellSet)
    BY <1>1, FileTypes DEF Placed, Cells
  <1>3. h[s].ret \in Points
    BY <1>1 DEF Tables
  <1> QED
    BY <1>1, <1>2, <1>3 DEF Typed, Placed, Fronts

\* A step that only reads the file.
LEMMA ReadsMove ==
    ASSUME Inv, NEW s \in Shells, NEW r \in Tables, Goes(s, r),
           UNCHANGED <<files, path, due, fresh>>, typed' \in Nat,
           h[s].pc \notin Closed, Stamped(files, h[s].ino),
           r.ino = h[s].ino, r.old = h[s].old,
           \/ r.pc \in {"load", "clean", "ready", "parse", "long", "run", "edit", "seek"}
           \/ r.pc = "repair" /\ r.ret \in {"load", "clean", "ready", "parse", "edit"},
           Served(r) => Served(h[s])
    PROVE  Inv'
  <1>1. Moves(s, r)
    BY DEF Moves, Closed
  <1> QED
    BY <1>1, MovesKeep

LEMMA StartKeeps ==
    ASSUME Inv, NEW s \in Shells, LoadNear(s) \/ LoadMore(s)
    PROVE  Inv'
  <1>1. /\ h[s] \in Tables /\ Placed /\ typed \in Nat
        /\ Cells(s) \in Seq(CellSet) /\ h[s].ino \in 1 .. Len(files)
        /\ h[s].pc \notin Closed \cup {"opened"} => Stamped(files, h[s].ino)
        /\ UNCHANGED <<files, path, due, fresh>> /\ typed' = typed /\ h[s].pc \notin Closed
    BY Here DEF LoadNear, LoadMore, Reads, Closed
  <1>2. \A from : NearEnd(Cells(s), from).ind \in Int /\ NearEnd(Cells(s), from).cnt \in Nat
    BY <1>1, NearEndType
  <1>3. CASE LoadNear(s)
    <2> DEFINE near == NearEnd(Cells(s), h[s].hsize - Window)
               hp == [At(h[s], near) EXCEPT !.init = TRUE, !.first = near.ind]
               r == HistEof(hp, Cells(s), "load")
    <2>1. near.ind \in Int /\ near.cnt \in Nat
      BY <1>2
    <2>2. Goes(s, r)
      BY <1>3 DEF LoadNear
    <2>3. Stamped(files, h[s].ino)
      <3>1. h[s].hsize > 0 /\ h[s].pc = "opened" /\ Cells(s)[1].k = "stamp"
        BY <1>3 DEF LoadNear
      <3>2. Cells(s) # <<>>
        BY <3>1, Here DEF Fronts
      <3> QED
        BY <3>1, <3>2 DEF Stamped, Cells
    <2> HIDE DEF near
    <2>4. hp \in Tables /\ hp.ino = h[s].ino /\ hp.old = h[s].old
      BY <2>1, <1>1 DEF At, Tables
    <2> HIDE DEF hp
    <2>5. "load" \in Points
      BY DEF Points
    <2>6. /\ r \in Tables /\ SameFile(hp, r)
          /\ (r.pc = "load" \/ (r.pc = "repair" /\ r.ret = "load"))
      BY <1>1, <2>4, <2>5, HistEofType
    <2> HIDE DEF r
    <2>7. r.ino = h[s].ino /\ r.old = h[s].old /\ ~ Served(r)
      BY <2>4, <2>6 DEF SameFile, Served
    <2> QED
      BY <1>1, <2>2, <2>3, <2>6, <2>7, ReadsMove
  <1>4. CASE LoadMore(s)
    <2> DEFINE near(k) == NearEnd(Cells(s), h[s].hsize - Window * 2^k)
               enough == {k \in 1..h[s].hsize : near(k).ind <= Start(h[s])}
               best == CHOOSE k \in enough : \A j \in enough : k <= j
               from == IF h[s].first <= Start(h[s]) THEN h[s] ELSE At(h[s], near(best))
               q == HistEof(from, Cells(s), "clean")
               r == [q EXCEPT !.first = Start(h[s])]
    <2>1. Goes(s, r) /\ h[s].pc = "load"
      BY <1>4 DEF LoadMore
    <2>2. near(best).ind \in Int /\ near(best).cnt \in Nat
      BY <1>2
    <2> HIDE DEF near, best, enough
    <2>3. from \in Tables /\ from.ino = h[s].ino /\ from.old = h[s].old
      BY <2>2, <1>1 DEF At, Tables
    <2> HIDE DEF from
    <2>4. "clean" \in Points
      BY DEF Points
    <2>5. /\ q \in Tables /\ SameFile(from, q)
          /\ (q.pc = "clean" \/ (q.pc = "repair" /\ q.ret = "clean"))
      BY <1>1, <2>3, <2>4, HistEofType
    <2> HIDE DEF q
    <2>6. Start(h[s]) \in Int
      <3>1. h[s].ind \in Int
        BY <1>1 DEF Tables
      <3> QED
        BY <3>1, Constants DEF Start, Least
    <2>7. /\ r \in Tables /\ r.ino = q.ino /\ r.old = q.old /\ r.pc = q.pc /\ r.ret = q.ret
      BY <2>5, <2>6 DEF Tables
    <2> HIDE DEF r
    <2>8. r.ino = h[s].ino /\ r.old = h[s].old /\ ~ Served(r)
      BY <2>3, <2>5, <2>7 DEF SameFile, Served
    <2>9. Stamped(files, h[s].ino)
      BY <1>1, <2>1 DEF Closed
    <2> QED
      BY <1>1, <2>1, <2>5, <2>7, <2>8, <2>9, ReadsMove
  <1> QED
    BY <1>3, <1>4

LEMMA PromptKeeps ==
    ASSUME Inv, NEW s \in Shells, ReadLine(s) \/ HistEdit(s) \/ Prompt(s)
    PROVE  Inv'
  <1> DEFINE hp == IF h[s].pc = "run" /\ Prompt(s) THEN [h[s] EXCEPT !.cmd = 0] ELSE h[s]
             ret == IF ReadLine(s) THEN "parse" ELSE IF Prompt(s) THEN "ready" ELSE "edit"
             r == HistEof(hp, Cells(s), ret)
  <1>1. /\ h[s] \in Tables /\ typed \in Nat /\ Cells(s) \in Seq(CellSet)
        /\ Stamped(files, h[s].ino) /\ Served(h[s])
        /\ UNCHANGED <<files, path, due, fresh, typed>> /\ h[s].pc \notin Closed
    BY Here DEF ReadLine, HistEdit, Prompt, Reads, Closed, Served
  <1>2. ret \in {"parse", "ready", "edit"} /\ ret \in Points
    BY DEF Points
  <1>3. Goes(s, r)
    <2>1. CASE ReadLine(s)
      BY <2>1 DEF ReadLine, Prompt
    <2>2. CASE Prompt(s)
      BY <2>2 DEF ReadLine, Prompt
    <2>3. CASE HistEdit(s) /\ ~ ReadLine(s) /\ ~ Prompt(s)
      BY <2>3 DEF HistEdit
    <2> QED
      BY <2>1, <2>2, <2>3
  <1>4. hp \in Tables /\ hp.ino = h[s].ino /\ hp.old = h[s].old
    BY <1>1 DEF Tables
  <1> HIDE DEF hp, ret
  <1>5. /\ r \in Tables /\ SameFile(hp, r)
        /\ (r.pc = ret \/ (r.pc = "repair" /\ r.ret = ret))
    BY <1>1, <1>2, <1>4, HistEofType
  <1> HIDE DEF r
  <1>6. r.ino = h[s].ino /\ r.old = h[s].old
    BY <1>4, <1>5 DEF SameFile
  <1> QED
    BY <1>1, <1>2, <1>3, <1>5, <1>6, ReadsMove

LEMMA RunsType ==
    ASSUME NEW hp \in Tables
    PROVE  /\ Runs(hp) \in Tables /\ Runs(hp).ino = hp.ino /\ Runs(hp).old = hp.old
           /\ Runs(hp).pc = "run"
  <1> DEFINE c == CASE hp.pc = "parse" -> 0 [] hp.pc = "long" -> Unended [] OTHER -> hp.cmd
             r == [hp EXCEPT !.pc = "run", !.cmd = c]
  <1>1. c \in Int
    BY DEF Unended, Tables
  <1>2. Runs(hp) = r
    BY DEF Runs, Tables
  <1> HIDE DEF c
  <1>3. r \in Tables /\ r.ino = hp.ino /\ r.old = hp.old /\ r.pc = "run"
    BY <1>1 DEF Tables, Points
  <1> QED
    BY <1>2, <1>3

LEMMA FlushKeeps ==
    ASSUME Inv, NEW s \in Shells, FlushNothing(s) \/ FlushEmpty(s) \/ Flush(s)
    PROVE  Inv'
  <1> DEFINE m == Len(Cells(s))
  <1>1. /\ h[s] \in Tables /\ typed \in Nat /\ Cells(s) \in Seq(CellSet)
        /\ Stamped(files, h[s].ino) /\ Served(h[s])
        /\ UNCHANGED <<files, path, due, fresh>> /\ h[s].pc \notin Closed
    BY Here DEF FlushNothing, FlushEmpty, Flush, Closed, Served
  <1>2. ASSUME NEW r \in Tables, Goes(s, r), r.ino = h[s].ino, r.old = h[s].old,
               r.pc \in {"run", "seek"}, typed' \in Nat
        PROVE  Inv'
    BY <1>1, <1>2, ReadsMove
  <1>3. m \in Nat
    BY <1>1
  <1>4. CASE FlushNothing(s)
    <2>1. Goes(s, Runs(h[s])) /\ typed' = typed
      BY <1>4 DEF FlushNothing
    <2> QED
      BY <2>1, <1>1, <1>2, RunsType
  <1>5. CASE FlushEmpty(s)
    <2> DEFINE q == Runs(h[s])
               r == [q EXCEPT !.cnt = m]
    <2>1. Goes(s, r) /\ typed' = typed
      BY <1>5 DEF FlushEmpty
    <2>2. q \in Tables /\ q.ino = h[s].ino /\ q.old = h[s].old /\ q.pc = "run"
      BY <1>1, RunsType
    <2> HIDE DEF q, m
    <2>3. r \in Tables /\ r.ino = h[s].ino /\ r.old = h[s].old /\ r.pc = "run"
      BY <2>2, <1>3 DEF Tables
    <2> HIDE DEF r
    <2> QED
      BY <2>1, <2>3, <1>1, <1>2
  <1>6. CASE Flush(s)
    <2>1. CASE typed' = typed + 1 /\ Goes(s, [h[s] EXCEPT !.pc = "seek", !.cnt = m, !.cmd = Before + typed'])
      <3> DEFINE n == Before + typed'
                 r == [h[s] EXCEPT !.pc = "seek", !.cnt = m, !.cmd = n]
      <3>1. n \in Int /\ typed' \in Nat
        BY <1>1, <2>1, Constants
      <3>2. Goes(s, r)
        BY <2>1
      <3> HIDE DEF n, m
      <3>3. r \in Tables /\ r.ino = h[s].ino /\ r.old = h[s].old /\ r.pc = "seek"
        BY <1>1, <1>3, <3>1 DEF Tables, Points
      <3> HIDE DEF r
      <3> QED
        BY <3>1, <3>2, <3>3, <1>2
    <2>2. CASE typed' = typed /\ Goes(s, [h[s] EXCEPT !.pc = "seek", !.cnt = m])
      <3> DEFINE r == [h[s] EXCEPT !.pc = "seek", !.cnt = m]
      <3>1. Goes(s, r) /\ typed' \in Nat
        BY <1>1, <2>2
      <3> HIDE DEF m
      <3>2. r \in Tables /\ r.ino = h[s].ino /\ r.old = h[s].old /\ r.pc = "seek"
        BY <1>1, <1>3 DEF Tables, Points
      <3> HIDE DEF r
      <3> QED
        BY <3>1, <3>2, <1>2
    <2> QED
      BY <1>6, <2>1, <2>2 DEF Flush
  <1> QED
    BY <1>4, <1>5, <1>6

\* A step that writes to the file.
LEMMA WritesMove ==
    ASSUME Inv, NEW s \in Shells, NEW r \in Tables, Goes(s, r),
           NEW x \in Seq(CellSet), Writes(s, x),
           path' = path, typed' \in Nat, due' = due \/ SetTimer(s), h[s].pc \notin Closed,
           \/ Stamped(files, h[s].ino)
           \/ ~ Foreign(files, h[s].ino) /\ x # <<>> /\ x[1].k = "stamp",
           r.ino = h[s].ino, r.old \in {h[s].old, None}, r.pc = "copy" => r.old # None,
           r.pc \in {"load", "clean", "ready", "copy", "parse", "long", "run", "edit"},
           Served(r) => Served(h[s]) \/ SetTimer(s)
    PROVE  Inv'
  <1>1. Typed /\ Placed
    BY Here
  <1>2. Appends(s) /\ Stamped(files', h[s].ino)
    BY <1>1, WritesAppends
  <1>3. Moves(s, r)
    BY <1>1, <1>2 DEF Moves, Closed
  <1> QED
    BY <1>3, MovesKeep

LEMMA PutStampKeeps ==
    ASSUME Inv, NEW s \in Shells, PutStamp(s)
    PROVE  Inv'
  <1> DEFINE p == Ready(h[s])
             r == [h[s] EXCEPT !.pc = p]
             x == <<Stamp>>
  <1>1. h[s] \in Tables /\ h[s].pc = "opened" /\ h[s].hsize = 0 /\ typed \in Nat
        /\ h[s].pc \notin Closed
    BY Here DEF PutStamp, Closed
  <1>2. p \in {"copy", "run"} /\ p \in Points /\ (p = "copy" => h[s].old # None)
    BY DEF Ready, Points
  <1>3. Goes(s, r)
    BY DEF PutStamp
  <1> HIDE DEF p
  <1>4. r \in Tables /\ r.ino = h[s].ino /\ r.old = h[s].old /\ r.pc = p
    BY <1>1, <1>2 DEF Tables
  <1> HIDE DEF r
  <1>5. x \in Seq(CellSet) /\ x # <<>> /\ x[1].k = "stamp"
    BY CellTypes DEF Stamp, Cell
  <1>6. Writes(s, x) /\ SetTimer(s) /\ path' = path /\ typed' = typed
    BY DEF PutStamp
  <1> HIDE DEF x
  <1>7. ~ Foreign(files, h[s].ino)
    BY <1>1, Here DEF Fronts
  <1> QED
    BY <1>1, <1>2, <1>3, <1>4, <1>5, <1>6, <1>7, WritesMove

LEMMA CopyKeeps ==
    ASSUME Inv, NEW s \in Shells, Copy(s)
    PROVE  Inv'
  <1> DEFINE b == CopyAll(h[s], Kept(h[s].old))
             c == SetCmd(b.cmds, b.ind - 1, b.cnt + 1)
             r == [h[s] EXCEPT !.ind = b.ind - 1, !.cnt = b.cnt + 1, !.mark = b.mark, !.old = None,
                               !.cmds = c, !.pc = "run"]
             x == b.out \o <<Undo>>
  <1>1. /\ h[s] \in Tables /\ h[s].pc = "copy" /\ h[s].pc \notin Closed
        /\ Stamped(files, h[s].ino) /\ files \in Seq(FileSet)
        /\ typed \in Nat /\ h[s].old # None /\ h[s].old.ino \in 1 .. Len(files)
    BY Here DEF Copy, Closed
  <1>2. /\ h[s].old \in Olds /\ h[s].ind \in Int /\ h[s].cnt \in Nat /\ h[s].cmds \in Entries
        /\ h[s].mark \in Nat
    BY <1>1 DEF Tables
  <1>3. Kept(h[s].old) \in Seq(Seq(CellSet))
    BY <1>1, <1>2, KeptType
  <1>4. b \in Copies
    BY <1>2, <1>3, CopyAllType
  <1>5. Writes(s, x) /\ Goes(s, r) /\ SetTimer(s) /\ path' = path /\ typed' = typed
    BY DEF Copy
  <1> HIDE DEF b
  <1>6. /\ b.ind - 1 \in Int /\ b.cnt + 1 \in Nat /\ b.mark \in Nat /\ b.out \in Seq(CellSet)
        /\ b.cmds \in Entries
    BY <1>4 DEF Copies
  <1>7. c \in Entries
    BY <1>6, EntriesType
  <1>8. x \in Seq(CellSet)
    <2>1. <<Undo>> \in Seq(CellSet)
      BY CellTypes
    <2> QED
      BY <1>6, <2>1, ConcatProperties
  <1> HIDE DEF x, c
  <1>9. r \in Tables /\ r.ino = h[s].ino /\ r.old = None /\ r.pc = "run"
    BY <1>1, <1>6, <1>7, OldTypes DEF Tables, Points
  <1> HIDE DEF r
  <1> QED
    BY <1>1, <1>5, <1>8, <1>9, WritesMove

LEMMA RepairKeeps ==
    ASSUME Inv, NEW s \in Shells, Repair(s)
    PROVE  Inv'
  <1> DEFINE x == <<Nul, Undo>>
             cells == Cells(s) \o x
             n == IF 2 - Size < 0 THEN 1 ELSE 2 - Size
             c == SetCmd(h[s].cmds, h[s].ind - 1, h[s].cnt + 1)
             back == [h[s] EXCEPT !.ind = n, !.cnt = 1, !.cmds = c]
             q == Table(h[s], ReadOn(Reader(back, "cmd"), cells, h[s].init))
             ret == h[s].ret
             r == [q EXCEPT !.pc = ret, !.ret = "off"]
  <1>1. /\ h[s] \in Tables /\ h[s].pc = "repair" /\ h[s].pc \notin Closed
        /\ Stamped(files, h[s].ino) /\ typed \in Nat /\ Cells(s) \in Seq(CellSet)
        /\ ret \in {"load", "clean", "ready", "parse", "edit"} /\ ret \in Points
    BY Here DEF Repair, Closed
  <1>2. /\ h[s].ind \in Int /\ h[s].cnt \in Nat /\ h[s].cmds \in Entries /\ h[s].init \in BOOLEAN
    BY <1>1 DEF Tables
  <1>3. x \in Seq(CellSet) /\ cells \in Seq(CellSet)
    <2>1. x \in Seq(CellSet)
      BY CellTypes
    <2> HIDE DEF x
    <2> QED
      BY <2>1, <1>1, ConcatProperties
  <1>4. Writes(s, x) /\ path' = path /\ typed' = typed /\ due' = due
    BY DEF Repair
  <1>5. back = [h[s] EXCEPT !.ind = n, !.cnt = 1, !.cmds = SetCmd(@, h[s].ind - 1, h[s].cnt + 1)]
    BY <1>1 DEF Tables
  <1>6. Goes(s, r)
    BY <1>5 DEF Repair
  <1> HIDE DEF x, cells
  <1>7. c \in Entries /\ n \in Int
    BY <1>2, EntriesType, Constants
  <1> HIDE DEF c, n
  <1>8. Reader(back, "cmd") \in Readers
    <2>1. back \in Tables
      BY <1>1, <1>7 DEF Tables
    <2> HIDE DEF back
    <2> QED
      BY <2>1 DEF Reader, Readers, Tables
  <1>9. q \in Tables /\ q.ino = h[s].ino /\ q.old = h[s].old
    <2> DEFINE a == ReadOn(Reader(back, "cmd"), cells, h[s].init)
    <2>1. a \in Readers
      BY <1>2, <1>3, <1>8, ReadOnType
    <2> HIDE DEF a
    <2>2. a.ind \in Int /\ a.cmds \in Entries /\ a.mark \in Nat /\ a.p \in Nat
      BY <2>1 DEF Readers
    <2>3. Table(h[s], a) \in Tables /\ Table(h[s], a).ino = h[s].ino /\ Table(h[s], a).old = h[s].old
      BY <2>2, <1>1 DEF Table, Tables
    <2> QED
      BY <2>3 DEF a
  <1> HIDE DEF q, ret
  <1>10. r \in Tables /\ r.ino = h[s].ino /\ r.old = h[s].old /\ r.pc = ret
    BY <1>1, <1>9 DEF Tables, Points
  <1> HIDE DEF r
  <1>11. Served(r) => Served(h[s])
    BY <1>1, <1>10 DEF Served, ret
  <1> QED
    BY <1>1, <1>3, <1>4, <1>6, <1>10, <1>11, WritesMove

LEMMA WrittenType ==
    ASSUME NEW hp \in Tables, NEW mark \in BOOLEAN
    PROVE  /\ Written(hp, mark) \in Tables /\ Written(hp, mark).ino = hp.ino
           /\ Written(hp, mark).old = hp.old /\ Written(hp, mark).pc = "run"
  <1> DEFINE n == hp.ind + 1
             to == IF mark THEN Ends(hp) + 1 ELSE Ends(hp)
             m == IF mark THEN to ELSE hp.mark
             c == SetCmd(hp.cmds, n, to)
             r == [hp EXCEPT !.pc = "run", !.ind = n, !.cnt = to, !.cmds = c, !.mark = m]
  <1>1. hp.cnt \in Nat /\ hp.mark \in Nat /\ hp.ind \in Int /\ hp.cmds \in Entries
    BY DEF Tables
  <1>2. n \in Int /\ to \in Nat /\ m \in Nat
    BY <1>1 DEF Ends
  <1>3. Written(hp, mark) = r
    BY DEF Written, Tables
  <1> HIDE DEF n, to, m
  <1>4. c \in Entries
    BY <1>1, <1>2, EntriesType
  <1> HIDE DEF c
  <1>5. r \in Tables /\ r.ino = hp.ino /\ r.old = hp.old /\ r.pc = "run"
    BY <1>2, <1>4 DEF Tables, Points
  <1> QED
    BY <1>3, <1>5

LEMMA CommandKeeps ==
    ASSUME Inv, NEW s \in Shells, HistWrite(s) \/ HistCancel(s)
    PROVE  Inv'
  <1>1. /\ h[s] \in Tables /\ h[s].pc \in {"seek", "edit"} /\ h[s].pc \notin Closed
        /\ Stamped(files, h[s].ino) /\ Served(h[s])
        /\ path' = path /\ typed' \in Nat /\ due' = due
    BY Here DEF HistWrite, HistCancel, Closed, Served
  <1>2. /\ h[s].ind \in Int /\ h[s].cnt \in Nat /\ h[s].cmds \in Entries /\ h[s].mark \in Nat
        /\ h[s].cmd \in Int
    BY <1>1 DEF Tables
  <1>3. CASE HistWrite(s)
    <2> DEFINE x(mark) == Command(h[s].cmd) \o (IF mark THEN Marker(h[s].ind + 1) ELSE <<>>)
    <2>1. PICK mark \in BOOLEAN, k \in Nat :
            /\ Goes(s, Written(h[s], mark))
            /\ k \in 1 .. Len(x(mark)) /\ Writes(s, SubSeq(x(mark), 1, k))
      <3>1. PICK mark \in {FALSE, Ends(h[s]) > h[s].mark + Gap} :
              /\ Goes(s, Written(h[s], mark))
              /\ \E k \in 1 .. Len(x(mark)) : Writes(s, SubSeq(x(mark), 1, k))
        BY <1>3, Zenon DEF HistWrite
      <3>2. mark \in BOOLEAN
        <4> DEFINE p == Ends(h[s]) > h[s].mark + Gap
        <4>1. mark \in {FALSE, p}
          OBVIOUS
        <4>2. p \in BOOLEAN
          BY SMT
        <4> HIDE DEF p
        <4> QED
          BY <4>1, <4>2
      <3>3. PICK k \in 1 .. Len(x(mark)) : Writes(s, SubSeq(x(mark), 1, k))
        BY <3>1, Zenon
      <3>4. k \in Nat
        OBVIOUS
      <3> HIDE DEF x
      <3> QED
        BY <3>1, <3>2, <3>3, <3>4
    <2> DEFINE y == x(mark)
               z == SubSeq(y, 1, k)
               r == Written(h[s], mark)
    <2>2. Command(h[s].cmd) \in Seq(CellSet) /\ Marker(h[s].ind + 1) \in Seq(CellSet)
      <3>1. h[s].cmd \in Int /\ h[s].ind + 1 \in Int
        BY <1>2
      <3> HIDE DEF x, y, z, r
      <3> QED
        BY <3>1, CellTypes, Zenon
    <2>3. y \in Seq(CellSet)
      <3> DEFINE tail == IF mark THEN Marker(h[s].ind + 1) ELSE <<>>
      <3>1. <<>> \in Seq(CellSet)
        OBVIOUS
      <3>2. tail \in Seq(CellSet)
        BY <2>2, <3>1
      <3> HIDE DEF tail
      <3>3. Command(h[s].cmd) \o tail \in Seq(CellSet)
        BY <2>2, <3>2, ConcatProperties
      <3> QED
        BY <3>3 DEF tail
    <2>4. k \in 1 .. Len(y) /\ Writes(s, z) /\ Goes(s, r)
      BY <2>1
    <2> HIDE DEF x, y
    <2>5. z \in Seq(CellSet)
      <3>1. Len(y) \in Nat /\ \A i \in 1 .. k : y[i] \in CellSet
        BY <2>3, <2>4, ElementOfSeq
      <3> QED
        BY <3>1, <2>3, <2>4, SubSeqProperties
    <2>6. r \in Tables /\ r.ino = h[s].ino /\ r.old = h[s].old /\ r.pc = "run"
      BY <1>1, WrittenType
    <2> HIDE DEF z, r
    <2> QED
      BY <1>1, <2>4, <2>5, <2>6, WritesMove
  <1>4. CASE HistCancel(s)
    <2> DEFINE x == <<Undo>>
               c == SetCmd(h[s].cmds, h[s].ind - 1, h[s].cnt + 1)
               n == h[s].cnt + 1
               m == h[s].ind - 1
               r == [h[s] EXCEPT !.pc = "parse", !.cnt = n, !.ind = m, !.cmds = c]
    <2>1. Writes(s, x)
      BY <1>4 DEF HistCancel
    <2>2. Goes(s, r)
      <3>1. r = [h[s] EXCEPT !.pc = "parse", !.cnt = @ + 1, !.ind = @ - 1,
                             !.cmds = SetCmd(@, h[s].ind - 1, h[s].cnt + 1)]
        BY <1>1 DEF Tables
      <3> QED
        BY <3>1, <1>4 DEF HistCancel
    <2>3. n \in Nat /\ m \in Int /\ c \in Entries
      BY <1>2, EntriesType
    <2>4. x \in Seq(CellSet)
      BY CellTypes
    <2> HIDE DEF c, n, m
    <2>5. r \in Tables /\ r.ino = h[s].ino /\ r.old = h[s].old /\ r.pc = "parse"
      BY <1>1, <2>3 DEF Tables, Points
    <2> HIDE DEF x, r
    <2> QED
      BY <1>1, <2>1, <2>2, <2>4, <2>5, WritesMove
  <1> QED
    BY <1>3, <1>4

LEMMA PieceKeeps ==
    ASSUME Inv, NEW s \in Shells, Piece(s)
    PROVE  Inv'
  <1> DEFINE n == Before + typed'
             x == <<Cell("body", n)>>
             r == [h[s] EXCEPT !.pc = "long", !.cmd = n]
  <1>1. /\ h[s] \in Tables /\ h[s].pc \notin Closed /\ Stamped(files, h[s].ino) /\ Served(h[s])
        /\ path' = path /\ typed' \in Nat /\ due' = due
    BY Here DEF Piece, Closed, Served
  <1>2. n \in Int
    BY <1>1, Constants
  <1>3. Writes(s, x) /\ Goes(s, r)
    BY DEF Piece
  <1> HIDE DEF n
  <1>4. x \in Seq(CellSet)
    BY <1>2, CellTypes
  <1>5. r \in Tables /\ r.ino = h[s].ino /\ r.old = h[s].old /\ r.pc = "long"
    BY <1>1, <1>2 DEF Tables, Points
  <1> HIDE DEF x, r
  <1> QED
    BY <1>1, <1>3, <1>4, <1>5, WritesMove

LEMMA CleanKeeps ==
    ASSUME Inv, NEW s \in Shells, Clean(s)
    PROVE  Inv'
  <1> DEFINE trim == HistClean(h[s].ino) /\ h[s].first > 1 /\ h[s].hsize > HistMax
             p == IF trim THEN "unlink" ELSE Ready(h[s])
             r == [h[s] EXCEPT !.init = FALSE, !.hsize = 0, !.first = 1, !.pc = p]
  <1>1. /\ h[s] \in Tables /\ h[s].pc = "clean" /\ h[s].pc \notin Closed
        /\ Stamped(files, h[s].ino) /\ typed \in Nat
        /\ UNCHANGED <<files, path, fresh>> /\ typed' = typed
    BY Here DEF Clean, Closed
  <1>2. p \in Points /\ p \in {"unlink", "copy", "run"}
    BY DEF Points, Ready
  <1>3. /\ p = "copy" => h[s].old # None
        /\ p = "unlink" => files[h[s].ino].age >= Recent
    BY DEF Ready, HistClean
  <1>4. Goes(s, r) /\ (due' = due \/ SetTimer(s)) /\ (p # "unlink" => SetTimer(s))
    BY DEF Clean
  <1> HIDE DEF p, trim
  <1>5. r \in Tables /\ r.ino = h[s].ino /\ r.old = h[s].old /\ r.pc = p
    <2> DEFINE q == [h[s] EXCEPT !.init = FALSE]
               u == [q EXCEPT !.hsize = 0]
               v == [u EXCEPT !.first = 1]
    <2>1. r = [v EXCEPT !.pc = p]
      BY <1>1 DEF Tables
    <2>2. q \in Tables /\ q.ino = h[s].ino /\ q.old = h[s].old
      BY <1>1 DEF Tables
    <2> HIDE DEF q
    <2>3. u \in Tables /\ u.ino = q.ino /\ u.old = q.old
      BY <2>2 DEF Tables
    <2> HIDE DEF u
    <2>4. v \in Tables /\ v.ino = u.ino /\ v.old = u.old
      BY <2>3 DEF Tables
    <2> HIDE DEF v
    <2>5. [v EXCEPT !.pc = p] \in Tables
      BY <2>4, <1>2 DEF Tables
    <2>6. /\ [v EXCEPT !.pc = p].ino = v.ino /\ [v EXCEPT !.pc = p].old = v.old
          /\ [v EXCEPT !.pc = p].pc = p
      BY <2>4 DEF Tables
    <2> HIDE DEF r
    <2> QED
      BY <2>1, <2>2, <2>3, <2>4, <2>5, <2>6
  <1> HIDE DEF r
  <1>6. Served(r) => SetTimer(s)
    BY <1>2, <1>4, <1>5 DEF Served
  <1>7. Moves(s, r)
    BY <1>1, <1>2, <1>3, <1>4, <1>5, <1>6 DEF Moves, Closed
  <1> QED
    BY <1>7, MovesKeep

LEMMA UnlinkKeeps ==
    ASSUME Inv, NEW s \in Shells, Unlink(s)
    PROVE  Inv'
  <1>1. /\ h[s] \in Tables /\ h[s].pc = "unlink" /\ h[s].pc \notin Closed
        /\ Stamped(files, h[s].ino) /\ typed \in Nat /\ h[s].ino \in 1 .. Len(files)
        /\ UNCHANGED <<files, fresh>> /\ typed' = typed
    BY Here DEF Unlink, Closed
  <1>2. CASE path # 0
    <2> DEFINE o == [ino |-> h[s].ino, ind |-> h[s].ind, cnt |-> h[s].cnt, cmds |-> h[s].cmds]
               r == [h[s] EXCEPT !.pc = "reopen", !.init = TRUE, !.old = o]
    <2>1. o \in Olds /\ o.ino = h[s].ino
      BY <1>1 DEF Olds, Tables
    <2>2. Goes(s, r) /\ path' = 0 /\ due' = due
      BY <1>2 DEF Unlink
    <2> HIDE DEF o
    <2>3. r \in Tables /\ r.pc = "reopen" /\ r.old = o
      BY <1>1, <2>1 DEF Tables, Points
    <2> HIDE DEF r
    <2>4. Leaves(s, r)
      BY <1>1, <2>1, <2>2, <2>3 DEF Leaves, Closed
    <2> QED
      BY <2>4, LeavesKeep
  <1>3. CASE path = 0
    <2> DEFINE r == [h[s] EXCEPT !.pc = "run"]
    <2>1. Goes(s, r) /\ path' = path /\ SetTimer(s)
      BY <1>3 DEF Unlink
    <2>2. r \in Tables /\ r.ino = h[s].ino /\ r.old = h[s].old /\ r.pc = "run"
      BY <1>1 DEF Tables, Points
    <2> HIDE DEF r
    <2>3. Moves(s, r)
      BY <1>1, <2>1, <2>2 DEF Moves, Closed
    <2> QED
      BY <2>3, MovesKeep
  <1> QED
    BY <1>2, <1>3

LEMMA CloseKeeps ==
    ASSUME Inv, NEW s \in Shells, HistCheck(s) \/ WriteFails(s) \/ Close(s)
    PROVE  Inv'
  <1>1. /\ h[s] \in Tables /\ files' = files /\ typed' = typed
        /\ h[s].old # None => h[s].old.ino \in 1 .. Len(files)
    BY Here DEF HistCheck, WriteFails, Close
  <1>2. CASE HistCheck(s)
    <2> DEFINE r == [h[s] EXCEPT !.pc = "reopen", !.ino = 0]
    <2>1. Goes(s, r) /\ path' = 0 /\ due' = due /\ fresh' = fresh
      BY <1>2 DEF HistCheck
    <2>2. r \in Tables /\ r.pc = "reopen" /\ r.old = h[s].old
      BY <1>1 DEF Tables, Points
    <2> HIDE DEF r
    <2>3. Leaves(s, r)
      BY <1>1, <2>1, <2>2 DEF Leaves, Closed
    <2> QED
      BY <2>3, LeavesKeep
  <1>3. CASE WriteFails(s)
    <2> DEFINE r == [h[s] EXCEPT !.pc = "reopen", !.ino = 0, !.old = None]
    <2>1. Goes(s, r) /\ path' = path /\ due' = due /\ fresh' = fresh
      BY <1>3 DEF WriteFails
    <2>2. r \in Tables /\ r.pc = "reopen" /\ r.old = None
      BY <1>1, OldTypes DEF Tables, Points
    <2> HIDE DEF r
    <2>3. Leaves(s, r)
      BY <1>1, <2>1, <2>2 DEF Leaves, Closed
    <2> QED
      BY <2>3, LeavesKeep
  <1>4. CASE Close(s) /\ Goes(s, [h[s] EXCEPT !.pc = "reopen", !.ino = 0]) /\ due' = due
    <2> DEFINE r == [h[s] EXCEPT !.pc = "reopen", !.ino = 0]
    <2>1. Goes(s, r) /\ path' = path /\ due' = due /\ fresh' = fresh \ {s}
      BY <1>4 DEF Close
    <2>2. r \in Tables /\ r.pc = "reopen" /\ r.old = h[s].old
      BY <1>1 DEF Tables, Points
    <2> HIDE DEF r
    <2>3. Leaves(s, r)
      BY <1>1, <2>1, <2>2 DEF Leaves, Closed
    <2> QED
      BY <2>3, LeavesKeep
  <1>5. CASE /\ Close(s) /\ due' = [due EXCEPT ![s] = 0]
             /\ Goes(s, [NewTable(0, 0, FALSE, None) EXCEPT !.pc = "off"])
    <2> DEFINE q == NewTable(0, 0, FALSE, None)
               r == [q EXCEPT !.pc = "off"]
    <2>1. Goes(s, r) /\ path' = path /\ due' = [due EXCEPT ![s] = 0] /\ fresh' = fresh \ {s}
      BY <1>5 DEF Close
    <2>2. q \in Tables /\ q.old = None
      BY OldTypes DEF NewTable
    <2> HIDE DEF q
    <2>3. r \in Tables /\ r.pc = "off" /\ r.old = None
      BY <2>2 DEF Tables, Points
    <2> HIDE DEF r
    <2>4. Leaves(s, r)
      BY <1>1, <2>1, <2>3 DEF Leaves, Closed
    <2> QED
      BY <2>4, LeavesKeep
  <1> QED
    BY <1>2, <1>3, <1>4, <1>5 DEF Close

LEMMA InitialFile ==
    /\ InitialCells \in Seq(CellSet) /\ InitialCells # <<>> /\ InitialCells[1] = Stamp
  <1> DEFINE q == NewTable(0, 0, FALSE, None)
             commands == [c \in 1 .. Before |-> Command(c)]
             b == CopyAll(q, commands)
             x == <<Stamp>>
  <1>1. q \in Tables
    BY OldTypes
  <1>2. commands \in Seq(Seq(CellSet))
    <2>1. \A c \in 1 .. Before : Command(c) \in Seq(CellSet)
      BY CellTypes
    <2>2. commands \in [1 .. Before -> Seq(CellSet)]
      BY <2>1
    <2> QED
      BY <2>2, Constants, SeqDef
  <1> HIDE DEF q, commands
  <1>3. q.ind \in Int /\ q.cnt \in Nat /\ q.cmds \in Entries /\ q.mark \in Nat
    BY <1>1 DEF Tables
  <1>4. b \in Copies
    BY <1>2, <1>3, CopyAllType
  <1> HIDE DEF b
  <1>5. b.out \in Seq(CellSet)
    BY <1>4 DEF Copies
  <1>6. x \in Seq(CellSet) /\ Len(x) = 1 /\ x[1] = Stamp
    BY CellTypes
  <1> HIDE DEF x
  <1>7. /\ x \o b.out \in Seq(CellSet) /\ Len(x \o b.out) = 1 + Len(b.out)
        /\ (x \o b.out)[1] = Stamp
    BY <1>5, <1>6, ConcatProperties
  <1>8. InitialCells = x \o b.out
    BY DEF InitialCells, x, b, q, commands
  <1>9. Len(b.out) \in Nat
    BY <1>5
  <1>10. InitialCells # <<>>
    BY <1>7, <1>8, <1>9
  <1> QED
    BY <1>7, <1>8, <1>10

LEMMA InitInv ==
    ASSUME Init
    PROVE  Inv
  <1> DEFINE q == NewTable(0, 0, FALSE, None)
             r == [q EXCEPT !.pc = "off"]
  <1>1. q \in Tables /\ q.old = None
    BY OldTypes DEF NewTable
  <1>2. h = [s \in Shells |-> r]
    BY DEF Init
  <1> HIDE DEF q
  <1>3. r \in Tables /\ r.pc = "off" /\ r.old = None
    BY <1>1 DEF Tables, Points
  <1> HIDE DEF r
  <1>4. /\ h \in [Shells -> Tables]
        /\ \A s \in Shells : h[s].pc = "off" /\ h[s].old = None
    BY <1>2, <1>3
  <1>5. \A s \in Shells : ~ Attached(s) /\ ~ Served(h[s])
    BY <1>4 DEF Attached, Served
  <1>6. due \in [Shells -> 0 .. Recent] /\ (\A s \in Shells : due[s] = 0) /\ fresh = {} /\ typed = 0
    BY Constants DEF Init
  <1>7. files \in Seq(FileSet) /\ path \in 0 .. Len(files) /\ Len(files) \in {0, 1}
    <2>1. CASE files = <<>> /\ path = 0
      BY <2>1
    <2>2. CASE files = <<[cells |-> <<Cell("body", 0)>>, age |-> Recent]>> /\ path = 1
      <3>1. [cells |-> <<Cell("body", 0)>>, age |-> Recent] \in FileSet
        BY CellTypes, Constants DEF FileSet
      <3> QED
        BY <2>2, <3>1
    <2>3. CASE /\ path = 1
               /\ \E age \in 0 .. Recent :
                     files = <<[cells |-> InitialCells, age |-> age]>>
      <3>1. \A age \in 0 .. Recent : [cells |-> InitialCells, age |-> age] \in FileSet
        BY InitialFile, Constants DEF FileSet
      <3> QED
        BY <2>3, <3>1
    <2> QED
      BY <2>1, <2>2, <2>3 DEF Init
  <1>8. Typed
    BY <1>4, <1>6, <1>7 DEF Typed
  <1>9. Placed /\ Fronts
    BY <1>4 DEF Placed, Fronts, Closed
  <1>10. Unused
    <2>1. path # 0 => Len(files) = 1
      BY <1>7
    <2> QED
      BY <1>4, <1>5, <1>6, <2>1 DEF Unused, Closed
  <1>11. Timed /\ Touched /\ Sought
    BY <1>4, <1>5 DEF Timed, Touched, Sought
  <1> QED
    BY <1>8, <1>9, <1>10, <1>11 DEF Inv

LEMMA NextKeeps ==
    ASSUME Inv, [Next]_vars
    PROVE  Inv'
  <1>1. CASE UNCHANGED vars
    <2>1. UNCHANGED <<files, path, h, due, fresh, typed>>
      BY <1>1 DEF vars
    <2> QED
      BY <2>1 DEF Inv, Typed, Placed, Fronts, Unused, Timed, Touched, Sought, Stamped, Foreign,
                  Attached, Cells
  <1>2. CASE Tick
    BY <1>2, TickKeeps
  <1>3. ASSUME NEW s \in Shells, Step(s)
        PROVE  Inv'
    <2>1. CASE Open(s)
      BY <2>1, OpenKeeps
    <2>2. CASE HistCheck(s) \/ WriteFails(s) \/ Close(s)
      BY <2>2, CloseKeeps
    <2>3. CASE PutStamp(s)
      BY <2>3, PutStampKeeps
    <2>4. CASE LoadNear(s) \/ LoadMore(s)
      BY <2>4, StartKeeps
    <2>5. CASE Clean(s)
      BY <2>5, CleanKeeps
    <2>6. CASE Unlink(s)
      BY <2>6, UnlinkKeeps
    <2>7. CASE Copy(s)
      BY <2>7, CopyKeeps
    <2>8. CASE ReadLine(s) \/ HistEdit(s) \/ Prompt(s)
      BY <2>8, PromptKeeps
    <2>9. CASE Repair(s)
      BY <2>9, RepairKeeps
    <2>10. CASE HistWrite(s) \/ HistCancel(s)
      BY <2>10, CommandKeeps
    <2>11. CASE HistTouch(s)
      BY <2>11, TouchKeeps
    <2>12. CASE FlushNothing(s) \/ FlushEmpty(s) \/ Flush(s)
      BY <2>12, FlushKeeps
    <2>13. CASE Piece(s)
      BY <2>13, PieceKeeps
    <2> QED
      BY <1>3, <2>1, <2>2, <2>3, <2>4, <2>5, <2>6, <2>7, <2>8, <2>9, <2>10, <2>11, <2>12, <2>13
         DEF Step
  <1> QED
    BY <1>1, <1>2, <1>3 DEF Next

----------------------------------------------------------------------------
(* The theorems                                                            *)

\* Only a shell that opens, refuses or unlinks a file changes who has the name,
\* and it changes no other shell's table.
LEMMA NameChanges ==
    ASSUME Inv, [Next]_vars, path' # path
    PROVE  \E s \in Shells :
              /\ \A t \in Shells \ {s} : h'[t] = h[t]
              /\ (Open(s) /\ path = 0) \/ HistCheck(s) \/ Unlink(s)
  <1>1. PICK s \in Shells : Open(s) \/ HistCheck(s) \/ Unlink(s)
    <2>1. ~ UNCHANGED vars /\ ~ Tick
      BY DEF vars, Tick
    <2>2. PICK s \in Shells : Step(s)
      BY <2>1 DEF Next
    <2>3. /\ ~ PutStamp(s) /\ ~ LoadNear(s) /\ ~ LoadMore(s) /\ ~ Clean(s) /\ ~ Copy(s)
          /\ ~ ReadLine(s) /\ ~ Repair(s)
      BY DEF PutStamp, LoadNear, LoadMore, Clean, Copy, ReadLine, Repair
    <2>4. /\ ~ HistWrite(s) /\ ~ HistEdit(s) /\ ~ HistCancel(s) /\ ~ Prompt(s) /\ ~ Close(s)
          /\ ~ HistTouch(s) /\ ~ FlushNothing(s) /\ ~ FlushEmpty(s) /\ ~ Flush(s) /\ ~ Piece(s)
          /\ ~ WriteFails(s)
      BY DEF FlushNothing, FlushEmpty, Flush, Piece, HistWrite, WriteFails, HistEdit, HistCancel, Prompt, Close, HistTouch
    <2> QED
      BY <2>2, <2>3, <2>4 DEF Step
  <1>2. \A r : Goes(s, r) => \A t \in Shells \ {s} : h'[t] = h[t]
    BY DEF Goes, Inv, Typed
  <1>3. \E r : Goes(s, r)
    BY <1>1 DEF Open, HistCheck, Unlink
  <1>4. Open(s) => path = 0
    BY DEF Open
  <1> QED
    BY <1>1, <1>2, <1>3, <1>4

LEMMA NameKept ==
    ASSUME Inv, [Next]_vars, NEW s \in Shells, NEW t \in Shells \ {s}, path' # path,
           h'[s] # h[s], h[s].ino = path, Attached(t)
    PROVE  t \in fresh
  <1>1. /\ \A u \in Shells \ {s} : h'[u] = h[u]
        /\ (Open(s) /\ path = 0) \/ HistCheck(s) \/ Unlink(s)
    BY NameChanges
  <1>2. h[t].pc \notin Closed /\ path \in 1 .. Len(files) /\ path # 0
    BY Here DEF Attached, Closed
  <1>3. CASE HistCheck(s)
    <2>1. h[s].pc = "opened" /\ h[s].hsize > 0 /\ Cells(s)[1].k # "stamp"
      BY <1>3 DEF HistCheck
    <2>2. Cells(s) # <<>>
      <3>1. h[s].hsize # 0
        BY <2>1, Here DEF Tables
      <3> QED
        BY <2>1, <3>1 DEF Inv, Fronts
    <2>3. Foreign(files, path)
      BY <2>1, <2>2 DEF Foreign, Cells
    <2> QED
      BY <1>2, <2>3 DEF Inv, Unused
  <1>4. CASE Unlink(s)
    BY <1>4 DEF Unlink, Inv, Sought
  <1> QED
    BY <1>1, <1>2, <1>3, <1>4

\* What is true of the file system and the tables in every state: each shell's
\* file exists and begins with HIST_UNDO once the shell reads or writes it, a
\* shell at its prompt has the timer of hist_touch() running, and a shell that
\* unlinks its file on hist_clean()'s word has no other user of it past its
\* first touch.
THEOREM HistoryFacts == Spec => []Inv
  <1>1. Init => Inv
    BY InitInv
  <1>2. Inv /\ [Next]_vars => Inv'
    BY NextKeeps
  <1> QED
    BY <1>1, <1>2, PTL DEF Spec

\* Neither sh_histinit(), which refuses a file that is no history, nor
\* hist_trim() takes the name from a file that another shell has open and has
\* used: hist_touch() comes around before hist_clean() can find it unused.
THEOREM NotUnlinked == Spec => InUseNotUnlinked
  <1> DEFINE A == \A s, t \in Shells :
                    (path' # path /\ h'[s] # h[s] /\ h[s].ino = path /\ t # s /\ Attached(t))
                        => t \in fresh
  <1>1. Inv /\ [Next]_vars => [A]_vars
    BY NameKept
  <1>2. Spec => []Inv
    BY HistoryFacts
  <1>3. Spec => [][A]_vars
    BY <1>1, <1>2, PTL DEF Spec
  <1> QED
    BY <1>3 DEF InUseNotUnlinked
=============================================================================
