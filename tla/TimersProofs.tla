---------------------------- MODULE TimersProofs ----------------------------
(***************************************************************************)
(* Theorems about the timers (Timers), for any number of timers, users and *)
(* ticks, and any alarm that was set before the shell started.             *)
(***************************************************************************)
EXTENDS Timers, FiniteSetTheorems, SequenceTheorems, WellFoundedInduction, TLAPS

----------------------------------------------------------------------------
(* The stack                                                               *)

\* Where a frame can be: in sigalrm(), in sh_timeradd(), in sh_timerdel(NULL),
\* in a user of timers.
InAlarm == {"scan", "act", "ran", "break"}
InAdd == {"take", "pop", "fill", "link", "top", "end", "check", "give"}
InDel == {"walk", "giveup"}
InUser == {"adding", "assign", "read", "wait", "pause", "del"}

\* sh_timeradd() up to the point where the timer is on the list.
Filling == {"take", "pop", "fill"}
Adding == Filling \cup {"link"}

Frames == [at : InAlarm \cup InAdd \cup InDel \cup InUser, tp : Ptr,
           kind : Clients \cup {"old", "none"}, d : Nat, id : 0 .. MaxAdds]

Level(f) == IF f.at \in InAlarm THEN 1 ELSE IF f.at \in InUser THEN 3 ELSE 2

\* What f may be anywhere above g: sigalrm() does not interrupt itself but for the
\* call of an action, nor sh_timeradd() where time_state is set; one call
\* of sh_timeradd() is inside another to chain an old alarm; a user that has another
\* above it waits.
Over(f, g) ==
    /\ Level(f) <= Level(g)
    /\ g.at \notin {"scan", "act", "break", "link"}
    /\ Level(f) = 1 /\ g.at \in Filling => g.kind # "old"
    /\ Level(f) = 2 /\ Level(g) = 2 => f.kind = "old" /\ g.at = "top"
    /\ Level(f) = 3 => g.at \in {"read", "wait"} /\ g.id < f.id
    /\ f.at \in InDel => g.at \in {"read", "wait"}

\* What is directly below a call of sh_timeradd().
Calls(f, g) ==
    IF f.kind = "old" THEN g.at = "top"
    ELSE g.at = "adding" /\ g.kind = f.kind /\ g.id = f.id

Framed(s, n, b) ==
    /\ s \in Seq(Frames)
    /\ \A i, j \in 1 .. Len(s) : i < j => Over(s[i], s[j])
    /\ \A i \in 1 .. Len(s) : s[i].at \in InAdd => i < Len(s) /\ Calls(s[i], s[i + 1])
    /\ \A i \in 1 .. Len(s) :
          LET f == s[i] IN
          /\ f.at \in InAdd => /\ f.kind \in Clients \cup {"old"} /\ f.d > 0 /\ f.id \in 1 .. n
                               /\ f.kind = "old" => f.at # "top" /\ b = "fault"
                               /\ f.at = "top" => b = "fault"
          /\ f.at \in InUser => f.kind \in Clients /\ f.id \in 1 .. n
          /\ f.at \in {"assign", "wait", "pause", "del"} => f.kind \in Statics

AtTop(S) == stack # <<>> /\ Top.at \in S

\* time_state: IN_SIGALRM is set where sigalrm() cannot be interrupted, IN_ADDTIMEOUT
\* where a timer is linked.
Bits ==
    /\ AtTop({"scan", "act", "break"}) => state = {"alrm"}
    /\ AtTop({"ran"}) => state = {}
    /\ ~AtTop(InAlarm) => /\ "alrm" \notin state
                          /\ "defer" \in state => "add" \in state
                          /\ "add" \in state => \/ AtTop({"link", "end"})
                                                \/ AtTop(Filling) /\ Top.kind = "old"
    /\ AtTop({"link"}) => "add" \in state
    /\ AtTop(Adding) /\ Top.kind = "old" => "add" \in state /\ handler = "sigalrm"

\* Cells and timers are numbered in the order in which they come up.
Numbered(f) ==
    /\ f.at = "take" => malloced < adds
    /\ f.at \in Adding => f.id = adds /\ fired[f.id] = 0
    /\ f.at \in InAdd /\ base = "dfl" => f.id = adds
    /\ f.at \in Adding /\ f.kind # "old" /\ alarm > 0 /\ handler = "fault" => adds < MaxAdds

Counted ==
    /\ malloced <= adds
    /\ \A i \in 1 .. MaxAdds : i > adds => fired[i] = 0
    /\ \A f \in Range(stack) : Numbered(f)

----------------------------------------------------------------------------
(* The lists                                                               *)

Highest(S, r) == IF S = {} THEN Nil ELSE CHOOSE n \in S : \A m \in S : r[m] <= r[n]

Distinct(S, r) == \A m, n \in S : r[m] = r[n] => m = n

\* The cells of S are a list from p on in descending order of r.
Linked(S, p, r, nd) ==
    /\ p = Highest(S, r)
    /\ \A n \in S : nd[n].next = Highest({m \in S : r[m] < r[n]}, r)

Ids(nd) == [n \in Nodes |-> nd[n].id]

Linking(n) == AtTop({"link"}) /\ Top.tp = n

\* What the cells are that the frames hold: T are the cells of the list of
\* timers, F the free ones.
Holds(f, T, F) ==
    /\ f.at \in Adding => \A n \in T : node[n].id < adds
    /\ f.at = "pop" => f.tp \in F
    /\ f.at \in {"fill", "link"} => f.tp \in (1 .. malloced) \ (T \cup F)
    /\ f.at = "link" => node[f.tp].next = tptop /\ node[f.tp].id = f.id /\ Active(f.tp)
    /\ f.at = "act" => f.tp \in T
    /\ f.at = "walk" /\ "lost" \notin odd => f.tp \in T \cup {Nil}

\* The list of timers has the newest first, that of free cells any order r.
Lists(T, F, r, high) ==
    /\ T \cup F \subseteq 1 .. malloced /\ T \cap F = {}
    /\ r \in [Nodes -> Nat] /\ high \in Nat /\ Distinct(F, r) /\ \A n \in F : r[n] < high
    /\ Distinct(T, Ids(node)) /\ \A n \in T : node[n].id \in 1 .. adds
    /\ Linked(T, tptop, Ids(node), node)
    /\ Linked(F, tpfree, r, node)
    /\ \A n \in Nodes : Active(n) => n \in T \/ Linking(n)
    /\ tpmin \in T \cup {Nil}
    /\ \A f \in Range(stack) : Holds(f, T, F)

Sound == \E T, F \in SUBSET Nodes : \E r \in [Nodes -> Nat] : \E high \in Nat : Lists(T, F, r, high)

\* The handles: that of sh_timeradd() and of read is the cell of the timer.
Handles ==
    base = "dfl" => \A f \in Range(stack) : \A n \in Nodes :
        f.at \in {"end", "check", "give", "read"} /\ Active(n) /\ node[n].id = f.id => f.tp = n

----------------------------------------------------------------------------
(* The alarm                                                               *)

Intervals == \A n \in Nodes : Active(n) /\ node[n].incr # 0 => node[n].action = "touch"

Slow == "slow" \in odd
Lost == "lost" \in odd

\* SIGALRM is given back, and tpmin is 0, only when no alarm is to come.
Given ==
    base = "dfl" /\ ~Slow /\ (handler # "sigalrm" \/ tpmin = Nil) => alarm = 0 /\ ~pending

\* An alarm that is set is not later than tpmin.
MinAlarm == ~Slow /\ tpmin # Nil /\ alarm > 0 => alarm <= node[tpmin].wakeup

\* Inside sigalrm().
NoCheck == \A f \in Range(stack) : f.at # "check"

InHandler ==
    AtTop(InAlarm) =>
        /\ (~Slow \/ NoCheck) /\ alarm > 0 => \E n \in Nodes : Active(n) /\ alarm <= node[n].wakeup
        /\ left # 0 => handler = "sigalrm"
        /\ left # 0 => \/ pending
                       \/ /\ alarm > 0 /\ alarm <= clock + left
                          /\ \E n \in Nodes : Active(n) /\ alarm <= node[n].wakeup
                          /\ \A n \in Nodes : Active(n) /\ ~Expired(n) => alarm <= node[n].wakeup

Coming(n) == handler = "sigalrm" /\ (pending \/ (alarm > 0 /\ alarm <= node[n].wakeup))

\* A timer of d that has been set again for w, by as many intervals as had passed.
Moved(w, incr, d, now) ==
    \E k \in 1 .. now + 1 : w = d + k * incr /\ d + (k - 1) * incr <= now

\* The list has been looked at: a timer that is due is to be called, ...
AtAct ==
    AtTop({"act"}) =>
        /\ Top.tp # Nil /\ Active(Top.tp)
        /\ Top.d <= clock
        /\ \A n \in Nodes \ {Top.tp} : Active(n) => Top.d <= node[n].wakeup
        /\ node[Top.tp].incr = 0 => Top.d = node[Top.tp].wakeup
        /\ node[Top.tp].incr # 0 => Moved(node[Top.tp].wakeup, node[Top.tp].incr, Top.d, clock)
        /\ handler # "sigalrm" => tpmin = Nil
        /\ \A n \in Nodes : Active(n) /\ ~Expired(n) => tpmin # Nil /\ node[tpmin].wakeup <= node[n].wakeup
        /\ ~Lost => \A n \in Nodes \ {Top.tp} : Active(n) /\ ~Expired(n) => Coming(n)

\* ... or none is.
AtBreak ==
    AtTop({"break"}) =>
        /\ handler # "sigalrm" => tpmin = Nil
        /\ tpmin = Nil => \A n \in Nodes : ~Active(n)
        /\ tpmin = Nil /\ (~Slow \/ NoCheck) => alarm = 0
        /\ \A n \in Nodes : Active(n) => tpmin # Nil /\ node[tpmin].wakeup <= node[n].wakeup
        /\ ~Lost => \A n \in Nodes : Active(n) => Coming(n)

\* sh_timeradd() when the timer has been filled in and when it is on the list.
AtLink ==
    /\ AtTop({"link"}) /\ ~Slow => node[Top.tp].wakeup = clock + Top.d
    /\ AtTop({"end"}) /\ "add" \in state =>
          \E n \in Nodes : Active(n) /\ tpmin # Nil /\ node[tpmin].wakeup <= node[n].wakeup

\* sh_timerdel(NULL): what it has still to delete, and that nothing is left.
AtWalk ==
    \A f \in Range(stack) :
        /\ f.at = "walk" /\ ~Lost =>
              /\ AtTop({"walk"})
              /\ \A n \in Nodes : Active(n) => f.tp # Nil /\ node[n].id <= node[f.tp].id
        /\ f.at = "giveup" /\ ~Lost => tpmin = Nil /\ \A n \in Nodes : ~Active(n)
        /\ f.at = "giveup" /\ ~Slow /\ base = "dfl" => AtTop({"giveup"}) /\ tpmin = Nil

\* Outside of sigalrm() and sh_timerdel(NULL).
Outside ==
    ~AtTop(InAlarm \cup InDel) /\ ~Lost =>
        /\ handler # "sigalrm" => tpmin = Nil
        /\ \A n \in Nodes : Active(n) /\ ~Linking(n) =>
              /\ tpmin # Nil /\ node[tpmin].wakeup <= node[n].wakeup
              /\ handler = "sigalrm"
              /\ pending \/ "defer" \in state \/ (alarm > 0 /\ (Slow \/ alarm <= node[n].wakeup))

Inv ==
    /\ TypeOK /\ odd \subseteq {"lost", "slow"}
    /\ Framed(stack, adds, base) /\ Bits /\ Counted /\ Sound /\ Handles
    /\ Intervals /\ Given /\ MinAlarm /\ InHandler /\ AtAct /\ AtBreak /\ AtLink /\ AtWalk /\ Outside

----------------------------------------------------------------------------
(* Lists in the order of a rank                                            *)

LEMMA Smallest ==
    ASSUME NEW S, S \subseteq Nat, S # {}
    PROVE  \E x \in S : \A y \in S : x <= y
  <1>1. \E x \in S : \A y \in S : ~ (<<y, x>> \in OpToRel(<, Nat))
    <2> DEFINE R == OpToRel(<, Nat)
    <2>1. IsWellFoundedOn(R, Nat)
      BY NatLessThanWellFounded
    <2> HIDE DEF R
    <2>2. \E x \in S : \A y \in S : ~ (<<y, x>> \in R)
      BY <2>1, WFMin
    <2> QED
      BY <2>2 DEF R
  <1>2. PICK x \in S : \A y \in S : ~ (<<y, x>> \in OpToRel(<, Nat))
    BY <1>1
  <1>3. ASSUME NEW y \in S
        PROVE  x <= y
    <2>1. x \in Nat /\ y \in Nat
      OBVIOUS
    <2>2. ~ (<<y, x>> \in OpToRel(<, Nat))
      BY <1>2
    <2>3. ~ (y < x)
      BY <2>1, <2>2 DEF OpToRel
    <2> QED
      BY <2>1, <2>3
  <1> QED
    BY <1>3

LEMMA Lowest ==
    ASSUME NEW S, S # {}, NEW r, \A n \in S : r[n] \in Nat
    PROVE  \E n \in S : \A m \in S : r[n] <= r[m]
  <1> DEFINE V == {r[n] : n \in S}
  <1>1. V \subseteq Nat /\ V # {}
    OBVIOUS
  <1> HIDE DEF V
  <1>2. PICK x \in V : \A y \in V : x <= y
    BY <1>1, Smallest
  <1> QED
    BY <1>2 DEF V

LEMMA HighestIn ==
    ASSUME NEW S, S # {}, NEW r, NEW b \in Nat, \A n \in S : r[n] \in Nat /\ r[n] <= b
    PROVE  Highest(S, r) \in S /\ \A m \in S : r[m] <= r[Highest(S, r)]
  <1> DEFINE V == {b - r[n] : n \in S}
  <1>1. V \subseteq Nat /\ V # {}
    OBVIOUS
  <1> HIDE DEF V
  <1>2. PICK x \in V : \A y \in V : x <= y
    BY <1>1, Smallest
  <1>3. PICK n \in S : x = b - r[n]
    BY <1>2 DEF V
  <1>4. ASSUME NEW m \in S
        PROVE  r[m] <= r[n]
    <2>1. b - r[n] <= b - r[m]
      BY <1>2, <1>3 DEF V
    <2> QED
      BY <2>1
  <1> QED
    BY <1>4 DEF Highest

\* The highest is the only one that is as high as all.
LEMMA HighestIs ==
    ASSUME NEW S, NEW r, Distinct(S, r), NEW h \in S,
           \A m \in S : r[m] \in Nat /\ r[m] <= r[h]
    PROVE  Highest(S, r) = h
  <1>1. Highest(S, r) \in S /\ r[h] <= r[Highest(S, r)]
    BY DEF Highest
  <1>2. r[Highest(S, r)] \in Nat /\ r[Highest(S, r)] <= r[h]
    BY <1>1
  <1> QED
    BY <1>1, <1>2 DEF Distinct

\* A list in descending order: what is reached from its first cell.
LEMMA ListedIs ==
    ASSUME NEW S \in SUBSET Nodes, NEW p, NEW r, NEW b \in Nat,
           \A n \in S : r[n] \in Nat /\ r[n] <= b, Distinct(S, r), Linked(S, p, r, node)
    PROVE  Listed(p) = S
  <1>1. Nil \notin S /\ Nil \notin Nodes
    <2>1. Nodes \subseteq Nat
      BY DEF Nodes
    <2> QED
      BY <2>1, ConstantsAssumption
  <1>2. \A n \in S : node[n].next \in S \cup {Nil}
    <2> SUFFICES ASSUME NEW n \in S
                 PROVE  node[n].next \in S \cup {Nil}
      OBVIOUS
    <2> DEFINE L == {m \in S : r[m] < r[n]}
    <2>1. node[n].next = Highest(L, r)
      BY DEF Linked
    <2>2. CASE L = {}
      BY <2>1, <2>2 DEF Highest
    <2>3. CASE L # {}
      <3>1. Highest(L, r) \in L
        BY <2>3, HighestIn
      <3> QED
        BY <3>1, <2>1
    <2> QED
      BY <2>2, <2>3
  <1>3. p \in S \cup {Nil}
    <2>1. p = Highest(S, r)
      BY DEF Linked
    <2>2. S # {} => Highest(S, r) \in S
      BY HighestIn
    <2> QED
      BY <2>1, <2>2 DEF Highest
  <1>4. Listed(p) \subseteq S
    BY <1>2, <1>3 DEF Listed
  <1>5. ASSUME NEW C \in SUBSET Nodes, p \in C \cup {Nil}, \A m \in C : node[m].next \in C \cup {Nil},
               S \ C # {}
        PROVE  FALSE
    <2> DEFINE n == Highest(S \ C, r)
    <2>1. n \in S \ C /\ \A m \in S \ C : r[m] <= r[n]
      BY <1>5, HighestIn
    <2> HIDE DEF n
    <2> DEFINE U == {x \in S : r[n] < r[x]}
    <2>2. CASE U = {}
      <3>1. \A m \in S : r[m] <= r[n]
        BY <2>1, <2>2
      <3>2. p = n
        BY <2>1, <3>1, HighestIs DEF Linked
      <3> QED
        BY <3>2, <1>1, <1>5, <2>1
    <2>3. CASE U # {}
      <3>1. PICK m \in U : \A x \in U : r[m] <= r[x]
        BY <2>3, Lowest
      <3>2. m \in C
        BY <3>1, <2>1
      <3> DEFINE L == {x \in S : r[x] < r[m]}
      <3>3. n \in L /\ \A x \in L : r[x] \in Nat /\ r[x] <= r[n]
        BY <3>1, <2>1
      <3>4. Distinct(L, r)
        BY DEF Distinct
      <3>5. Highest(L, r) = n
        <4> HIDE DEF L
        <4> QED
          BY <3>3, <3>4, HighestIs
      <3>6. node[m].next = n
        BY <3>1, <3>5 DEF Linked
      <3> QED
        BY <3>2, <3>6, <1>1, <1>5, <2>1
    <2> QED
      BY <2>2, <2>3
  <1>6. S \subseteq Listed(p)
    BY <1>5 DEF Listed
  <1> QED
    BY <1>4, <1>6

\* What comes after a cell, and that the list has no cycle.
LEMMA AfterIs ==
    ASSUME NEW S \in SUBSET Nodes, NEW p, NEW r, NEW b \in Nat,
           \A n \in S : r[n] \in Nat /\ r[n] <= b, Distinct(S, r), Linked(S, p, r, node),
           NEW n \in S
    PROVE  After(n) = {m \in S : r[m] < r[n]}
  <1> DEFINE L == {m \in S : r[m] < r[n]}
  <1>1. node[n].next = Highest(L, r)
    BY DEF Linked
  <1>2. ASSUME NEW m \in L
        PROVE  node[m].next = Highest({x \in L : r[x] < r[m]}, r)
    <2>1. {x \in L : r[x] < r[m]} = {x \in S : r[x] < r[m]}
      OBVIOUS
    <2> QED
      BY <2>1 DEF Linked
  <1>3. Linked(L, node[n].next, r, node)
    BY <1>1, <1>2 DEF Linked
  <1>4. L \in SUBSET Nodes /\ Distinct(L, r) /\ \A m \in L : r[m] \in Nat /\ r[m] <= b
    BY DEF Distinct
  <1> HIDE DEF L
  <1>5. Listed(node[n].next) = L
    BY <1>3, <1>4, ListedIs
  <1> QED
    BY <1>5 DEF After, L

LEMMA ForemostIs ==
    ASSUME NEW S \in SUBSET Nodes, NEW p, NEW r, NEW b \in Nat,
           \A n \in S : r[n] \in Nat /\ r[n] <= b, Distinct(S, r), Linked(S, p, r, node),
           NEW X \in SUBSET S
    PROVE  Foremost(X, Nil) = Highest(X, r)
  <1>1. CASE X = {}
    BY <1>1 DEF Foremost, Highest
  <1>2. CASE X # {}
    <2> DEFINE h == Highest(X, r)
               f == Foremost(X, Nil)
    <2>1. h \in X /\ \A m \in X : r[m] <= r[h]
      BY <1>2, HighestIn
    <2> HIDE DEF h
    <2>2. X \ {h} \subseteq After(h)
      <3>1. After(h) = {m \in S : r[m] < r[h]}
        BY <2>1, AfterIs
      <3> QED
        BY <3>1, <2>1 DEF Distinct
    <2>3. f \in X /\ X \ {f} \subseteq After(f)
      BY <1>2, <2>1, <2>2 DEF Foremost
    <2> HIDE DEF f
    <2>4. After(f) = {m \in S : r[m] < r[f]}
      BY <2>3, AfterIs
    <2>5. h # f => r[h] < r[f]
      BY <2>1, <2>3, <2>4
    <2>6. r[f] <= r[h]
      BY <2>1, <2>3
    <2>7. h = f
      BY <2>1, <2>3, <2>5, <2>6
    <2> QED
      BY <2>7 DEF h, f
  <1> QED
    BY <1>1, <1>2

LEMMA HindmostIs ==
    ASSUME NEW S \in SUBSET Nodes, NEW p, NEW r, NEW b \in Nat,
           \A n \in S : r[n] \in Nat /\ r[n] <= b, Distinct(S, r), Linked(S, p, r, node),
           NEW X \in SUBSET S, X # {}, NEW none
    PROVE  Hindmost(X, none) \in X /\ \A m \in X : r[Hindmost(X, none)] <= r[m]
  <1>1. PICK h \in X : \A m \in X : r[h] <= r[m]
    BY Lowest
  <1>2. \A m \in X \ {h} : h \in After(m)
    <2> SUFFICES ASSUME NEW m \in X \ {h}
                 PROVE  h \in After(m)
      OBVIOUS
    <2>1. After(m) = {x \in S : r[x] < r[m]}
      BY AfterIs
    <2> QED
      BY <2>1, <1>1 DEF Distinct
  <1> DEFINE f == Hindmost(X, none)
  <1>3. f \in X /\ \A m \in X \ {f} : f \in After(m)
    BY <1>1, <1>2 DEF Hindmost
  <1> HIDE DEF f
  <1>4. ASSUME NEW m \in X
        PROVE  r[f] <= r[m]
    <2>1. CASE m = f
      BY <2>1, <1>3
    <2>2. CASE m # f
      <3>1. After(m) = {x \in S : r[x] < r[m]}
        BY AfterIs
      <3>2. r[f] < r[m]
        BY <3>1, <2>2, <1>3
      <3> QED
        BY <3>2, <1>3
    <2> QED
      BY <2>1, <2>2
  <1> QED
    BY <1>3, <1>4 DEF f

----------------------------------------------------------------------------
(* Frames                                                                  *)

LEMMA Consts == MaxAdds \in Nat /\ Nil \notin Nodes /\ Nodes \subseteq Nat
  <1>1. Nodes \subseteq Nat
    BY DEF Nodes
  <1> QED
    BY <1>1, ConstantsAssumption

LEMMA FrameFields ==
    ASSUME NEW f \in Frames
    PROVE  /\ f.at \in InAlarm \cup InAdd \cup InDel \cup InUser /\ f.tp \in Ptr
           /\ f.kind \in Clients \cup {"old", "none"} /\ f.d \in Nat /\ f.id \in 0 .. MaxAdds
           /\ Level(f) \in {1, 2, 3}
           /\ Level(f) = 1 <=> f.at \in InAlarm
           /\ Level(f) = 2 <=> f.at \in InAdd \cup InDel
           /\ Level(f) = 3 <=> f.at \in InUser
  BY DEF Frames, Level, InAlarm, InAdd, InDel, InUser

\* What Framed says of each frame.
Fits(f, n, b) ==
    /\ f \in Frames
    /\ f.at \in InAdd => /\ f.kind \in Clients \cup {"old"} /\ f.d > 0 /\ f.id \in 1 .. n
                         /\ f.kind = "old" => f.at # "top" /\ b = "fault"
                         /\ f.at = "top" => b = "fault"
    /\ f.at \in InUser => f.kind \in Clients /\ f.id \in 1 .. n
    /\ f.at \in {"assign", "wait", "pause", "del"} => f.kind \in Statics

Rest(s, k) == SubSeq(s, k + 1, Len(s))

\* t is s without its first k frames.
Shifted(s, k, t) == \A i \in 1 .. Len(s) - k : t[i] = s[i + k]

LEMMA Dropped ==
    ASSUME NEW n, NEW b, NEW s, Framed(s, n, b), NEW k \in 0 .. Len(s),
           NEW t, t = Rest(s, k)
    PROVE  /\ t \in Seq(Frames)
           /\ Len(t) = Len(s) - k
           /\ Shifted(s, k, t)
           /\ Framed(t, n, b)
  <1>1. s \in Seq(Frames) /\ Len(s) \in Nat
    BY DEF Framed
  <1>2. /\ t \in Seq(Frames) /\ Len(t) = Len(s) - k
        /\ \A i \in 1 .. Len(s) - k : t[i] = s[i + k]
    <2>1. \A i \in k + 1 .. Len(s) : s[i] \in Frames
      BY <1>1
    <2> QED
      BY <1>1, <2>1, SubSeqProperties DEF Rest
  <1>3. \A i, j \in 1 .. Len(t) : i < j => Over(t[i], t[j])
    <2> SUFFICES ASSUME NEW i \in 1 .. Len(t), NEW j \in 1 .. Len(t), i < j
                 PROVE  Over(t[i], t[j])
      OBVIOUS
    <2>1. i + k \in 1 .. Len(s) /\ j + k \in 1 .. Len(s) /\ i + k < j + k
      BY <1>1, <1>2
    <2>2. Over(s[i + k], s[j + k])
      BY <2>1 DEF Framed
    <2> QED
      BY <2>2, <1>2
  <1>4. \A i \in 1 .. Len(t) : t[i].at \in InAdd => i < Len(t) /\ Calls(t[i], t[i + 1])
    <2> SUFFICES ASSUME NEW i \in 1 .. Len(t), t[i].at \in InAdd
                 PROVE  i < Len(t) /\ Calls(t[i], t[i + 1])
      OBVIOUS
    <2>1. i + k \in 1 .. Len(s) /\ t[i] = s[i + k]
      BY <1>1, <1>2
    <2>2. i + k < Len(s) /\ Calls(s[i + k], s[(i + k) + 1])
      BY <2>1 DEF Framed
    <2>3. (i + k) + 1 = (i + 1) + k /\ i + 1 \in 1 .. Len(s) - k
      BY <1>1, <1>2, <2>2
    <2>4. t[i + 1] = s[(i + k) + 1]
      BY <1>2, <2>3
    <2> QED
      BY <1>1, <1>2, <2>1, <2>2, <2>4
  <1>5. \A i \in 1 .. Len(t) : i + k \in 1 .. Len(s) /\ t[i] = s[i + k]
    BY <1>1, <1>2
  <1>6. Framed(t, n, b)
    <2>1. \A i \in 1 .. Len(s) : Fits(s[i], n, b)
      BY DEF Framed, Fits
    <2>2. \A i \in 1 .. Len(t) : Fits(t[i], n, b)
      BY <2>1, <1>5
    <2>3. t \in Seq(Frames)
      BY <1>2
    <2> QED
      BY <2>2, <2>3, <1>3, <1>4 DEF Framed, Fits
  <1> QED
    BY <1>2, <1>6 DEF Shifted

\* One frame more.
LEMMA Pushed ==
    ASSUME NEW n, NEW b, NEW s, Framed(s, n, b), NEW f, Fits(f, n, b),
           \A i \in 1 .. Len(s) : Over(f, s[i]),
           f.at \in InAdd => s # <<>> /\ Calls(f, s[1])
    PROVE  /\ <<f>> \o s \in Seq(Frames)
           /\ Len(<<f>> \o s) = Len(s) + 1
           /\ (<<f>> \o s)[1] = f
           /\ \A i \in 1 .. Len(s) : (<<f>> \o s)[i + 1] = s[i]
           /\ Framed(<<f>> \o s, n, b)
  <1> DEFINE t == <<f>> \o s
  <1>1. s \in Seq(Frames) /\ Len(s) \in Nat /\ f \in Frames
    BY DEF Framed, Fits
  <1>2. /\ t \in Seq(Frames) /\ Len(t) = Len(s) + 1 /\ t[1] = f
        /\ \A i \in 1 .. Len(s) : t[i + 1] = s[i]
    BY <1>1
  <1>3. \A i \in 1 .. Len(t) : i = 1 \/ (i - 1 \in 1 .. Len(s) /\ t[i] = s[i - 1])
    <2> SUFFICES ASSUME NEW i \in 1 .. Len(t), i # 1
                 PROVE  i - 1 \in 1 .. Len(s) /\ t[i] = s[i - 1]
      OBVIOUS
    <2>1. i - 1 \in 1 .. Len(s) /\ (i - 1) + 1 = i
      BY <1>1, <1>2
    <2> QED
      BY <2>1, <1>2
  <1> HIDE DEF t
  <1>4. \A i, j \in 1 .. Len(t) : i < j => Over(t[i], t[j])
    <2> SUFFICES ASSUME NEW i \in 1 .. Len(t), NEW j \in 1 .. Len(t), i < j
                 PROVE  Over(t[i], t[j])
      OBVIOUS
    <2>1. j # 1 /\ j - 1 \in 1 .. Len(s) /\ t[j] = s[j - 1]
      BY <1>1, <1>2, <1>3
    <2>2. CASE i = 1
      BY <2>1, <2>2, <1>2
    <2>3. CASE i # 1
      <3>1. i - 1 \in 1 .. Len(s) /\ t[i] = s[i - 1]
        BY <2>3, <1>3
      <3>2. i - 1 < j - 1
        BY <1>1, <1>2
      <3> QED
        BY <2>1, <3>1, <3>2 DEF Framed
    <2> QED
      BY <2>2, <2>3
  <1>5. \A i \in 1 .. Len(t) : t[i].at \in InAdd => i < Len(t) /\ Calls(t[i], t[i + 1])
    <2> SUFFICES ASSUME NEW i \in 1 .. Len(t), t[i].at \in InAdd
                 PROVE  i < Len(t) /\ Calls(t[i], t[i + 1])
      OBVIOUS
    <2>1. CASE i = 1
      <3>1. s # <<>> /\ Calls(f, s[1])
        BY <2>1, <1>2
      <3>2. Len(s) > 0 /\ 1 \in 1 .. Len(s)
        BY <3>1, <1>1
      <3>3. t[1 + 1] = s[1]
        BY <3>2, <1>2
      <3> QED
        BY <2>1, <3>1, <3>2, <3>3, <1>1, <1>2
    <2>2. CASE i # 1
      <3>1. i - 1 \in 1 .. Len(s) /\ t[i] = s[i - 1]
        BY <2>2, <1>3
      <3>2. i - 1 < Len(s) /\ Calls(s[i - 1], s[(i - 1) + 1])
        BY <3>1 DEF Framed
      <3>3. i \in 1 .. Len(s) /\ (i - 1) + 1 = i
        BY <3>1, <3>2, <1>1
      <3>4. t[i + 1] = s[i]
        BY <3>3, <1>2
      <3> QED
        BY <3>1, <3>2, <3>3, <3>4, <1>1, <1>2
    <2> QED
      BY <2>1, <2>2
  <1>6. Framed(t, n, b)
    <2> SUFFICES ASSUME NEW i \in 1 .. Len(t)
                 PROVE  Fits(t[i], n, b)
      BY <1>2, <1>4, <1>5 DEF Framed, Fits
    <2>1. CASE i = 1
      BY <2>1, <1>2
    <2>2. CASE i # 1
      <3>1. i - 1 \in 1 .. Len(s) /\ t[i] = s[i - 1] /\ s[i - 1] \in Frames
        BY <2>2, <1>3, <1>1
      <3> QED
        BY <3>1 DEF Framed, Fits
    <2> QED
      BY <2>1, <2>2
  <1> QED
    BY <1>2, <1>6 DEF t

\* More timers have been numbered.
LEMMA FramedMore ==
    ASSUME NEW n \in Nat, NEW m \in Nat, n <= m, NEW b, NEW s, Framed(s, n, b)
    PROVE  Framed(s, m, b)
  <1>1. 1 .. n \subseteq 1 .. m
    OBVIOUS
  <1> QED
    BY <1>1 DEF Framed

\* Where frames can be.
LEMMA FrameFacts ==
    ASSUME NEW n \in Nat, NEW b, NEW s, Framed(s, n, b)
    PROVE  /\ s \in Seq(Frames) /\ Len(s) \in Nat
           /\ \A i \in 1 .. Len(s) : /\ s[i] \in Frames /\ Fits(s[i], n, b)
                                     /\ s[i].at \in {"scan", "act", "break", "link"} => i = 1
                                     /\ s[i].at \in InAlarm => s[1].at \in InAlarm
                                     /\ i > 1 => Over(s[1], s[i])
           /\ s # <<>> => 1 \in 1 .. Len(s) /\ Len(s) > 0
  <1>1. s \in Seq(Frames) /\ Len(s) \in Nat
    BY DEF Framed
  <1>2. s # <<>> => 1 \in 1 .. Len(s) /\ Len(s) > 0
    BY <1>1
  <1>3. ASSUME NEW i \in 1 .. Len(s)
        PROVE  /\ s[i] \in Frames /\ Fits(s[i], n, b)
               /\ s[i].at \in {"scan", "act", "break", "link"} => i = 1
               /\ s[i].at \in InAlarm => s[1].at \in InAlarm
               /\ i > 1 => Over(s[1], s[i])
    <2>1. s[i] \in Frames
      BY <1>1
    <2>2. Fits(s[i], n, b)
      BY <2>1 DEF Framed, Fits
    <2>3. CASE i = 1
      BY <2>1, <2>2, <2>3
    <2>4. CASE i # 1
      <3>1. 1 \in 1 .. Len(s) /\ 1 < i /\ s[1] \in Frames
        BY <2>4, <1>1
      <3>2. Over(s[1], s[i])
        BY <3>1 DEF Framed
      <3>3. s[i].at \in InAlarm => s[1].at \in InAlarm
        BY <3>1, <3>2, <2>1, FrameFields DEF Over
      <3> QED
        BY <2>1, <2>2, <3>2, <3>3 DEF Over
    <2> QED
      BY <2>3, <2>4
  <1> QED
    BY <1>1, <1>2, <1>3

----------------------------------------------------------------------------
(* Steps                                                                   *)

Cells == [wakeup : Nat, incr : Nat, next : Ptr, id : 0 .. MaxAdds,
          action : Clients \cup {"old", "none"}]

LEMMA NodeFacts ==
    ASSUME TypeOK
    PROVE  /\ node \in [Nodes -> Cells]
           /\ \A n \in Nodes : /\ node[n].wakeup \in Nat /\ node[n].incr \in Nat
                               /\ node[n].next \in Ptr /\ node[n].id \in 0 .. MaxAdds
                               /\ node[n].action \in Clients \cup {"old", "none"}
           /\ malloced \in 0 .. MaxAdds /\ adds \in 0 .. MaxAdds /\ adds \in Nat /\ clock \in Nat
           /\ left \in Nat /\ alarm \in Nat /\ (alarm # 0 => alarm > clock)
           /\ tptop \in Ptr /\ tpmin \in Ptr /\ tpfree \in Ptr
           /\ timeout \in [Statics -> Ptr] /\ fired \in [1 .. MaxAdds -> Nat]
           /\ pending \in BOOLEAN /\ base \in {"dfl", "fault"} /\ handler \in {"sigalrm", base}
           /\ state \subseteq {"add", "alrm", "defer"}
  <1>1. node \in [Nodes -> Cells]
    BY DEF TypeOK, Cells
  <1>2. \A n \in Nodes : node[n] \in Cells
    BY <1>1
  <1>3. MaxAdds \in Nat /\ MaxTime \in Nat
    BY ConstantsAssumption
  <1> QED
    BY <1>1, <1>2, <1>3 DEF TypeOK, Cells

LEMMA RangeIs ==
    ASSUME NEW S, NEW s \in Seq(S)
    PROVE  \A f : f \in Range(s) <=> \E i \in 1 .. Len(s) : s[i] = f
  <1>1. DOMAIN s = 1 .. Len(s)
    OBVIOUS
  <1> QED
    BY <1>1 DEF Range

\* What Inv says of the frames.
LEMMA StackFacts ==
    ASSUME Inv
    PROVE  /\ stack \in Seq(Frames) /\ Len(stack) \in Nat
           /\ \A i \in 1 .. Len(stack) : stack[i] \in Range(stack) /\ (i > 1 => Over(Top, stack[i]))
           /\ \A f \in Range(stack) :
                 /\ f \in Frames /\ Fits(f, adds, base) /\ stack # <<>>
                 /\ f.at \in {"scan", "act", "break", "link"} => f = Top
                 /\ f.at \in InAlarm => AtTop(InAlarm)
                 /\ f = Top \/ Over(Top, f)
           /\ stack # <<>> => /\ 1 \in 1 .. Len(stack) /\ Len(stack) > 0
                              /\ Top \in Frames /\ Top \in Range(stack)
           /\ Framed(stack, adds, base) /\ adds \in Nat
  <1>1. adds \in Nat /\ Framed(stack, adds, base)
    BY NodeFacts DEF Inv
  <1>2. stack # <<>> => 1 \in 1 .. Len(stack) /\ Len(stack) > 0
    BY <1>1, FrameFacts
  <1>3. \A i \in 1 .. Len(stack) : stack # <<>>
    OBVIOUS
  <1>4. stack \in Seq(Frames) /\ Len(stack) \in Nat
    BY <1>1, FrameFacts
  <1>5. \A f : f \in Range(stack) <=> \E i \in 1 .. Len(stack) : stack[i] = f
    BY <1>4, RangeIs
  <1>6. \A i \in 1 .. Len(stack) :
           /\ stack[i] \in Frames /\ Fits(stack[i], adds, base)
           /\ stack[i].at \in {"scan", "act", "break", "link"} => i = 1
           /\ stack[i].at \in InAlarm => AtTop(InAlarm)
           /\ i > 1 => Over(Top, stack[i])
    BY <1>1, <1>3, FrameFacts DEF AtTop, Top
  <1>7. \A i \in 1 .. Len(stack) : i = 1 \/ i > 1
    BY <1>4
  <1>8. ASSUME NEW f \in Range(stack)
        PROVE  /\ f \in Frames /\ Fits(f, adds, base) /\ stack # <<>>
               /\ f.at \in {"scan", "act", "break", "link"} => f = Top
               /\ f.at \in InAlarm => AtTop(InAlarm)
               /\ f = Top \/ Over(Top, f)
    BY <1>3, <1>5, <1>6, <1>7 DEF Top
  <1>9. stack # <<>> => Top \in Frames /\ Top \in Range(stack)
    BY <1>2, <1>5, <1>6 DEF Top
  <1> QED
    BY <1>1, <1>2, <1>4, <1>5, <1>6, <1>8, <1>9

\* One frame takes the place of the first k.
LEMMA NewTop ==
    ASSUME Inv, NEW k \in 0 .. Len(stack), NEW f, stack' = <<f>> \o Rest(stack, k),
           adds' \in Nat, adds <= adds', base' = base, Fits(f, adds', base),
           \A i \in k + 1 .. Len(stack) : Over(f, stack[i]),
           f.at \in InAdd => k < Len(stack) /\ Calls(f, stack[k + 1])
    PROVE  /\ Framed(stack, adds, base)'
           /\ stack' # <<>> /\ Top' = f /\ f \in Range(stack')
           /\ Range(stack') \subseteq Range(stack) \cup {f}
           /\ \A i \in k + 1 .. Len(stack) : stack[i] \in Range(stack')
  <1> DEFINE s == Rest(stack, k)
  <1>1. /\ Framed(stack, adds, base) /\ adds \in Nat /\ Len(stack) \in Nat
        /\ stack \in Seq(Frames)
    BY StackFacts
  <1>2. Framed(stack, adds', base)
    BY <1>1, FramedMore
  <1>3. /\ s \in Seq(Frames) /\ Len(s) = Len(stack) - k
        /\ \A i \in 1 .. Len(stack) - k : s[i] = stack[i + k]
        /\ Framed(s, adds', base)
    <2>1. s \in Seq(Frames) /\ Len(s) = Len(stack) - k /\ Shifted(stack, k, s) /\ Framed(s, adds', base)
      BY <1>2, Dropped
    <2> QED
      BY <2>1 DEF Shifted
  <1>4. stack' = <<f>> \o s
    OBVIOUS
  <1> HIDE DEF s
  <1>5. \A i \in 1 .. Len(s) : Over(f, s[i])
    <2> SUFFICES ASSUME NEW i \in 1 .. Len(s)
                 PROVE  Over(f, s[i])
      OBVIOUS
    <2>1. i + k \in k + 1 .. Len(stack) /\ s[i] = stack[i + k]
      BY <1>1, <1>3
    <2> QED
      BY <2>1
  <1>6. f.at \in InAdd => s # <<>> /\ Calls(f, s[1])
    <2> SUFFICES ASSUME f.at \in InAdd
                 PROVE  s # <<>> /\ Calls(f, s[1])
      OBVIOUS
    <2>1. 1 \in 1 .. Len(stack) - k
      BY <1>1
    <2>2. s[1] = stack[1 + k] /\ 1 + k = k + 1 /\ Len(s) > 0
      BY <1>1, <1>3, <2>1
    <2> QED
      BY <2>2, <1>3
  <1>7. /\ <<f>> \o s \in Seq(Frames)
        /\ Len(<<f>> \o s) = Len(s) + 1
        /\ (<<f>> \o s)[1] = f
        /\ \A i \in 1 .. Len(s) : (<<f>> \o s)[i + 1] = s[i]
        /\ Framed(<<f>> \o s, adds', base)
    BY <1>3, <1>5, <1>6, Pushed
  <1>8. \A i \in k + 1 .. Len(stack) : /\ i - k + 1 \in 1 .. Len(stack')
                                       /\ stack'[i - k + 1] = stack[i]
    <2> SUFFICES ASSUME NEW i \in k + 1 .. Len(stack)
                 PROVE  i - k + 1 \in 1 .. Len(stack') /\ stack'[i - k + 1] = stack[i]
      OBVIOUS
    <2>1. i - k \in 1 .. Len(stack) - k /\ (i - k) + k = i
      BY <1>1
    <2>2. s[i - k] = stack[i]
      BY <2>1, <1>3
    <2>3. Len(stack') = Len(s) + 1
      BY <1>4, <1>7
    <2>4. i - k \in 1 .. Len(s)
      BY <1>3, <2>1
    <2>5. i - k + 1 \in 1 .. Len(stack')
      <3>1. PICK a, b : a = i - k /\ b = Len(s)
        OBVIOUS
      <3>2. b \in Nat /\ a \in 1 .. b
        BY <1>3, <2>4, <3>1
      <3>3. a + 1 \in 1 .. b + 1
        BY <3>2
      <3> QED
        BY <2>3, <3>1, <3>3
    <2>6. stack'[i - k + 1] = s[i - k]
      BY <1>4, <1>7, <2>4
    <2> QED
      BY <2>2, <2>5, <2>6
  <1>9. \A i \in 1 .. Len(stack') : \/ stack'[i] = f
                                    \/ \E j \in 1 .. Len(stack) : stack'[i] = stack[j]
    <2> SUFFICES ASSUME NEW i \in 1 .. Len(stack'), i # 1
                 PROVE  \E j \in 1 .. Len(stack) : stack'[i] = stack[j]
      BY <1>4, <1>7
    <2>1. i + k - 1 \in k + 1 .. Len(stack) /\ (i + k - 1) - k + 1 = i
      BY <1>1, <1>3, <1>4, <1>7
    <2>2. stack'[i] = stack[i + k - 1]
      BY <2>1, <1>8
    <2>3. i + k - 1 \in 1 .. Len(stack)
      BY <2>1, <1>1
    <2> QED
      BY <2>2, <2>3
  <1>10. stack' # <<>> /\ 1 \in 1 .. Len(stack')
    BY <1>3, <1>4, <1>7
  <1>11. \A g : g \in Range(stack') <=> \E i \in 1 .. Len(stack') : stack'[i] = g
    <2>1. stack' \in Seq(Frames)
      BY <1>4, <1>7
    <2> QED
      BY <2>1, RangeIs
  <1>12. \A g : g \in Range(stack) <=> \E i \in 1 .. Len(stack) : stack[i] = g
    BY <1>1, RangeIs
  <1>13. Range(stack') \subseteq Range(stack) \cup {f}
    BY <1>9, <1>11, <1>12
  <1>14. \A i \in k + 1 .. Len(stack) : stack[i] \in Range(stack')
    BY <1>8, <1>11
  <1>15. stack'[1] = f /\ f \in Range(stack') /\ Framed(stack', adds', base')
    BY <1>4, <1>7, <1>10, <1>11
  <1> QED
    BY <1>10, <1>13, <1>14, <1>15 DEF Top

\* The first k frames are left.
LEMMA NoNewTop ==
    ASSUME Inv, NEW k \in 0 .. Len(stack), stack' = Rest(stack, k), adds' = adds, base' = base
    PROVE  /\ Framed(stack, adds, base)'
           /\ Range(stack') \subseteq Range(stack)
           /\ \A i \in k + 1 .. Len(stack) : stack[i] \in Range(stack')
           /\ stack' # <<>> => k < Len(stack) /\ Top' = stack[k + 1]
  <1>1. /\ Framed(stack, adds, base) /\ adds \in Nat /\ Len(stack) \in Nat
        /\ stack \in Seq(Frames)
    BY StackFacts
  <1>2. /\ stack' \in Seq(Frames) /\ Len(stack') = Len(stack) - k
        /\ \A i \in 1 .. Len(stack) - k : stack'[i] = stack[i + k]
        /\ Framed(stack', adds, base)
    <2>1. /\ stack' \in Seq(Frames) /\ Len(stack') = Len(stack) - k
          /\ Shifted(stack, k, stack') /\ Framed(stack', adds, base)
      BY <1>1, Dropped
    <2> QED
      BY <2>1 DEF Shifted
  <1>3. \A i \in 1 .. Len(stack') : \E j \in 1 .. Len(stack) : stack'[i] = stack[j]
    <2> SUFFICES ASSUME NEW i \in 1 .. Len(stack')
                 PROVE  \E j \in 1 .. Len(stack) : stack'[i] = stack[j]
      OBVIOUS
    <2>1. i + k \in 1 .. Len(stack) /\ stack'[i] = stack[i + k]
      BY <1>1, <1>2
    <2> QED
      BY <2>1
  <1>4. \A i \in k + 1 .. Len(stack) : i - k \in 1 .. Len(stack') /\ stack'[i - k] = stack[i]
    <2> SUFFICES ASSUME NEW i \in k + 1 .. Len(stack)
                 PROVE  i - k \in 1 .. Len(stack') /\ stack'[i - k] = stack[i]
      OBVIOUS
    <2>1. i - k \in 1 .. Len(stack) - k /\ (i - k) + k = i
      BY <1>1
    <2> QED
      BY <2>1, <1>1, <1>2
  <1>5. stack' # <<>> => k < Len(stack) /\ stack'[1] = stack[k + 1]
    <2> SUFFICES ASSUME stack' # <<>>
                 PROVE  k < Len(stack) /\ stack'[1] = stack[k + 1]
      OBVIOUS
    <2>1. Len(stack') > 0
      BY <1>2
    <2>2. 1 \in 1 .. Len(stack) - k /\ 1 + k = k + 1
      BY <2>1, <1>1, <1>2
    <2> QED
      BY <2>1, <2>2, <1>1, <1>2
  <1>6. \A g : g \in Range(stack') <=> \E i \in 1 .. Len(stack') : stack'[i] = g
    BY <1>2, RangeIs
  <1>7. \A g : g \in Range(stack) <=> \E i \in 1 .. Len(stack) : stack[i] = g
    BY <1>1, RangeIs
  <1>8. Range(stack') \subseteq Range(stack)
    <2> SUFFICES ASSUME NEW g \in Range(stack')
                 PROVE  g \in Range(stack)
      OBVIOUS
    <2>1. PICK i \in 1 .. Len(stack') : stack'[i] = g
      BY <1>6
    <2>2. PICK j \in 1 .. Len(stack) : stack'[i] = stack[j]
      BY <1>3
    <2>3. stack[j] = g
      BY <2>1, <2>2
    <2> QED
      BY <2>3, <1>7
  <1>9. \A i \in k + 1 .. Len(stack) : stack[i] \in Range(stack')
    BY <1>4, <1>6
  <1>10. Framed(stack', adds', base')
    BY <1>2
  <1> QED
    BY <1>5, <1>8, <1>9, <1>10 DEF Top

\* The forms in which the actions write them.
LEMMA TopForms ==
    ASSUME Inv, stack # <<>>
    PROVE  /\ Tail(stack) = Rest(stack, 1)
           /\ \A a : [stack EXCEPT ![1].at = a] = <<[Top EXCEPT !.at = a]>> \o Rest(stack, 1)
           /\ \A a, p : [stack EXCEPT ![1].at = a, ![1].tp = p]
                            = <<[Top EXCEPT !.at = a, !.tp = p]>> \o Rest(stack, 1)
  <1>1. stack \in Seq(Frames) /\ Len(stack) \in Nat /\ Len(stack) > 0
    BY StackFacts
  <1>2. Tail(stack) = Rest(stack, 1)
    BY <1>1 DEF Rest
  <1>3. \A g : [stack EXCEPT ![1] = g] = <<g>> \o Rest(stack, 1)
    <2> SUFFICES ASSUME NEW g
                 PROVE  [stack EXCEPT ![1] = g] = <<g>> \o Tail(stack)
      BY <1>2
    <2> QED
      BY <1>1
  <1>4. ASSUME NEW a
        PROVE  [stack EXCEPT ![1].at = a] = <<[Top EXCEPT !.at = a]>> \o Rest(stack, 1)
    <2>1. [stack EXCEPT ![1].at = a] = [stack EXCEPT ![1] = [Top EXCEPT !.at = a]]
      BY <1>1 DEF Top
    <2> DEFINE g == [Top EXCEPT !.at = a]
    <2>2. [stack EXCEPT ![1].at = a] = [stack EXCEPT ![1] = g]
      BY <2>1
    <2> HIDE DEF g
    <2>3. [stack EXCEPT ![1].at = a] = <<g>> \o Rest(stack, 1)
      BY <2>2, <1>3
    <2> QED
      BY <2>3 DEF g
  <1>5. ASSUME NEW a, NEW p
        PROVE  [stack EXCEPT ![1].at = a, ![1].tp = p]
                   = <<[Top EXCEPT !.at = a, !.tp = p]>> \o Rest(stack, 1)
    <2>1. [stack EXCEPT ![1].at = a, ![1].tp = p] = [stack EXCEPT ![1] = [Top EXCEPT !.at = a, !.tp = p]]
      BY <1>1 DEF Top
    <2> DEFINE g == [Top EXCEPT !.at = a, !.tp = p]
    <2>2. [stack EXCEPT ![1].at = a, ![1].tp = p] = [stack EXCEPT ![1] = g]
      BY <2>1
    <2> HIDE DEF g
    <2>3. [stack EXCEPT ![1].at = a, ![1].tp = p] = <<g>> \o Rest(stack, 1)
      BY <2>2, <1>3
    <2> QED
      BY <2>3 DEF g
  <1> QED
    BY <1>2, <1>4, <1>5

\* f may stand where g stood.
Instead(f, g) ==
    /\ Level(f) = Level(g)
    /\ f.at \in InAdd => g.at \in InAdd
    /\ f.at \in InDel => g.at \in InDel
    /\ f.kind = g.kind /\ f.id = g.id

LEMMA InsteadOver ==
    ASSUME NEW f \in Frames, NEW g \in Frames, NEW h \in Frames, Instead(f, g), Over(g, h)
    PROVE  Over(f, h)
  BY FrameFields DEF Instead, Over, InAlarm, InAdd, InDel, InUser, Filling, Level

LEMMA InsteadCalls ==
    ASSUME NEW f, NEW g, NEW h, f.kind = g.kind, f.id = g.id, Calls(g, h)
    PROVE  Calls(f, h)
  BY DEF Calls

\* A call, or a signal.
LEMMA PushTop ==
    ASSUME Inv, NEW f, stack' = <<f>> \o stack,
           adds' \in Nat, adds <= adds', base' = base, Fits(f, adds', base),
           f.at \notin InAdd, stack # <<>> => Over(f, Top),
           \A h \in Range(stack) \ {Top} : Over(Top, h) => Over(f, h)
    PROVE  /\ Framed(stack, adds, base)'
           /\ stack' # <<>> /\ Top' = f /\ f \in Range(stack')
           /\ Range(stack') \subseteq Range(stack) \cup {f}
           /\ Range(stack) \subseteq Range(stack')
  <1>1. stack \in Seq(Frames) /\ Len(stack) \in Nat
    BY StackFacts
  <1>2. stack' = <<f>> \o Rest(stack, 0)
    BY <1>1 DEF Rest
  <1>3. \A i \in 0 + 1 .. Len(stack) : Over(f, stack[i])
    <2> SUFFICES ASSUME NEW i \in 1 .. Len(stack)
                 PROVE  Over(f, stack[i])
      OBVIOUS
    <2>1. i = 1 \/ i > 1
      BY <1>1
    <2>2. stack[i] \in Range(stack) /\ stack # <<>> /\ (i > 1 => Over(Top, stack[i]))
      BY StackFacts
    <2>3. i = 1 => stack[i] = Top
      BY DEF Top
    <2> QED
      BY <2>1, <2>2, <2>3
  <1>4. 0 \in 0 .. Len(stack)
    BY <1>1
  <1>5. /\ Framed(stack, adds, base)'
        /\ stack' # <<>> /\ Top' = f /\ f \in Range(stack')
        /\ Range(stack') \subseteq Range(stack) \cup {f}
        /\ \A i \in 0 + 1 .. Len(stack) : stack[i] \in Range(stack')
    BY <1>2, <1>3, <1>4, NewTop
  <1>6. \A i \in 1 .. Len(stack) : stack[i] \in Range(stack')
    BY <1>5
  <1>7. \A g : g \in Range(stack) <=> \E i \in 1 .. Len(stack) : stack[i] = g
    BY <1>1, RangeIs
  <1> QED
    BY <1>5, <1>6, <1>7

\* The running frame goes on.
LEMMA SetTop ==
    ASSUME Inv, stack # <<>>, NEW f, stack' = <<f>> \o Rest(stack, 1),
           adds' \in Nat, adds <= adds', base' = base, Fits(f, adds', base),
           \A h \in Range(stack) : Over(Top, h) => Over(f, h),
           f.at \in InAdd => Instead(f, Top)
    PROVE  /\ Framed(stack, adds, base)'
           /\ stack' # <<>> /\ Top' = f /\ f \in Range(stack')
           /\ Range(stack') \subseteq Range(stack) \cup {f}
           /\ Range(stack) \subseteq Range(stack') \cup {Top}
  <1>1. stack \in Seq(Frames) /\ Len(stack) \in Nat /\ 1 \in 1 .. Len(stack) /\ Len(stack) > 0
    BY StackFacts
  <1>2. \A i \in 1 + 1 .. Len(stack) : Over(f, stack[i])
    <2> SUFFICES ASSUME NEW i \in 1 + 1 .. Len(stack)
                 PROVE  Over(f, stack[i])
      OBVIOUS
    <2>1. i \in 1 .. Len(stack) /\ i > 1
      BY <1>1
    <2> QED
      BY <2>1, StackFacts
  <1>3. f.at \in InAdd => 1 < Len(stack) /\ Calls(f, stack[1 + 1])
    <2> SUFFICES ASSUME f.at \in InAdd
                 PROVE  1 < Len(stack) /\ Calls(f, stack[1 + 1])
      OBVIOUS
    <2>1. stack[1].at \in InAdd /\ f.kind = stack[1].kind /\ f.id = stack[1].id
      BY DEF Instead, Top
    <2>2. 1 < Len(stack) /\ Calls(stack[1], stack[1 + 1])
      BY <1>1, <2>1, StackFacts DEF Framed
    <2> QED
      BY <2>1, <2>2, InsteadCalls
  <1>4. 1 \in 0 .. Len(stack)
    BY <1>1
  <1>5. /\ Framed(stack, adds, base)'
        /\ stack' # <<>> /\ Top' = f /\ f \in Range(stack')
        /\ Range(stack') \subseteq Range(stack) \cup {f}
        /\ \A i \in 1 + 1 .. Len(stack) : stack[i] \in Range(stack')
    BY <1>2, <1>3, <1>4, NewTop
  <1>6. \A i \in 1 .. Len(stack) : stack[i] = Top \/ stack[i] \in Range(stack')
    <2> SUFFICES ASSUME NEW i \in 1 .. Len(stack)
                 PROVE  stack[i] = Top \/ stack[i] \in Range(stack')
      OBVIOUS
    <2>1. i = 1 \/ i \in 1 + 1 .. Len(stack)
      BY <1>1
    <2> QED
      BY <2>1, <1>5 DEF Top
  <1>7. \A g : g \in Range(stack) <=> \E i \in 1 .. Len(stack) : stack[i] = g
    BY <1>1, RangeIs
  <1>8. Range(stack) \subseteq Range(stack') \cup {Top}
    BY <1>6, <1>7
  <1> QED
    BY <1>5, <1>8

\* The running frame is left.
LEMMA PopTop ==
    ASSUME Inv, stack # <<>>, stack' = Rest(stack, 1), adds' = adds, base' = base
    PROVE  /\ Framed(stack, adds, base)'
           /\ Range(stack') \subseteq Range(stack)
           /\ Range(stack) \subseteq Range(stack') \cup {Top}
           /\ stack' # <<>> => Top' \in Range(stack) /\ Top' = stack[2] /\ Over(Top, Top')
  <1>1. stack \in Seq(Frames) /\ Len(stack) \in Nat /\ 1 \in 1 .. Len(stack) /\ Len(stack) > 0
    BY StackFacts
  <1>2. 1 \in 0 .. Len(stack)
    BY <1>1
  <1>3. /\ Framed(stack, adds, base)'
        /\ Range(stack') \subseteq Range(stack)
        /\ \A i \in 1 + 1 .. Len(stack) : stack[i] \in Range(stack')
        /\ stack' # <<>> => 1 < Len(stack) /\ Top' = stack[1 + 1]
    BY <1>2, NoNewTop
  <1>4. \A i \in 1 .. Len(stack) : stack[i] = Top \/ stack[i] \in Range(stack')
    <2> SUFFICES ASSUME NEW i \in 1 .. Len(stack)
                 PROVE  stack[i] = Top \/ stack[i] \in Range(stack')
      OBVIOUS
    <2>1. i = 1 \/ i \in 1 + 1 .. Len(stack)
      BY <1>1
    <2> QED
      BY <2>1, <1>3 DEF Top
  <1>5. \A g : g \in Range(stack) <=> \E i \in 1 .. Len(stack) : stack[i] = g
    BY <1>1, RangeIs
  <1>6. Range(stack) \subseteq Range(stack') \cup {Top}
    BY <1>4, <1>5
  <1>7. stack' # <<>> => Top' \in Range(stack) /\ Top' = stack[2] /\ Over(Top, Top')
    <2> SUFFICES ASSUME stack' # <<>>
                 PROVE  Top' \in Range(stack) /\ Top' = stack[2] /\ Over(Top, Top')
      OBVIOUS
    <2>1. 2 \in 1 .. Len(stack) /\ Top' = stack[2]
      BY <1>1, <1>3
    <2>2. stack[2] \in Range(stack) /\ Over(Top, stack[2])
      BY <2>1, StackFacts
    <2> QED
      BY <2>1, <2>2
  <1> QED
    BY <1>3, <1>6, <1>7

\* A step that gives up timers at most: what it leaves of the cells.
Fewer ==
    /\ node' \in [Nodes -> Cells]
    /\ \A n \in Nodes : /\ node'[n].wakeup = node[n].wakeup /\ node'[n].incr = node[n].incr
                        /\ node'[n].next = node[n].next /\ node'[n].id = node[n].id
                        /\ Active(n)' => Active(n) /\ node'[n].action = node[n].action

\* The steps that neither set nor find a timer and leave the alarm alone: all that is
\* said of the alarm still holds.
LEMMA CalmKeeps ==
    ASSUME Inv, Fewer, UNCHANGED <<tpmin, left, kernel, clock, odd>>,
           "defer" \in state' <=> "defer" \in state,
           ~AtTop(InAlarm \cup InDel \cup {"link"}), ~AtTop(InAlarm \cup InDel \cup {"link"})',
           "add" \in state' => ~AtTop({"end"})',
           \A f \in Range(stack') : f.at \in InDel => f \in Range(stack)
    PROVE  Intervals' /\ Given' /\ MinAlarm' /\ InHandler' /\ AtAct' /\ AtBreak' /\ AtLink' /\ AtWalk' /\ Outside'
  <1> USE DEF Fewer
  <1>1. Intervals'
    BY DEF Inv, Intervals
  <1>2. Given'
    BY DEF Inv, Given, kernel, Slow
  <1>3. MinAlarm'
    <2>1. tpmin \in Ptr
      BY NodeFacts DEF Inv
    <2> QED
      BY <2>1 DEF Inv, MinAlarm, kernel, Slow, Ptr
  <1>4. ~AtTop(InAlarm)' /\ ~AtTop({"act"})' /\ ~AtTop({"break"})' /\ ~AtTop({"link"})'
    BY DEF AtTop, InAlarm
  <1>5. InHandler' /\ AtAct' /\ AtBreak'
    BY <1>4 DEF InHandler, AtAct, AtBreak
  <1>6. AtLink'
    BY <1>4 DEF AtLink
  <1>7. AtWalk'
    <2> SUFFICES ASSUME NEW f \in Range(stack'), f.at \in InDel
                 PROVE  /\ f.at = "walk" => Lost
                        /\ f.at = "giveup" /\ ~Lost => tpmin = Nil /\ \A n \in Nodes : ~Active(n)
                        /\ f.at = "giveup" /\ base = "dfl" => Slow
      BY DEF AtWalk, kernel, Lost, Slow, InDel
    <2>1. ~AtTop({"walk"}) /\ ~AtTop({"giveup"})
      BY DEF AtTop, InDel
    <2>2. f \in Range(stack)
      OBVIOUS
    <2> QED
      BY <2>1, <2>2 DEF Inv, AtWalk
  <1>8. Outside'
    <2>1. ~AtTop(InAlarm \cup InDel) /\ \A n : ~Linking(n)
      BY DEF AtTop, Linking
    <2>2. tpmin \in Ptr
      BY NodeFacts DEF Inv
    <2> QED
      BY <2>1, <2>2 DEF Inv, Outside, kernel, Lost, Slow, Ptr
  <1> QED
    BY <1>1, <1>2, <1>3, <1>5, <1>6, <1>7, <1>8

LEMMA BitsKept ==
    ASSUME Inv, state' = state, ~AtTop(InAlarm \cup Adding \cup {"end"}),
           ~AtTop(InAlarm \cup {"link"})', AtTop(Filling)' => Top'.kind # "old"
    PROVE  Bits'
  <1>1. ~AtTop(InAlarm) /\ ~AtTop({"link", "end"}) /\ ~AtTop(Filling)
    BY DEF AtTop, Adding
  <1>2. "alrm" \notin state /\ "add" \notin state /\ "defer" \notin state
    BY <1>1 DEF Inv, Bits
  <1>3. ~AtTop(InAlarm)' /\ ~AtTop({"scan", "act", "break"})' /\ ~AtTop({"ran"})' /\ ~AtTop({"link"})'
    BY DEF AtTop, InAlarm
  <1>4. AtTop(Adding)' => AtTop(Filling)'
    BY <1>3 DEF AtTop, Adding
  <1> QED
    BY <1>2, <1>3, <1>4 DEF Bits

LEMMA CountedKept ==
    ASSUME Inv, malloced' = malloced, fired' = fired, adds' \in Nat, adds <= adds',
           \A f \in Range(stack') : \/ f.at \notin InAdd
                                    \/ /\ f \in Range(stack) /\ adds' = adds /\ base' = base
                                       /\ alarm' > 0 /\ handler' = "fault" => alarm > 0 /\ handler = "fault"
                                    \/ Numbered(f)'
    PROVE  Counted'
  <1>1. malloced \in Nat /\ adds \in Nat /\ MaxAdds \in Nat
    BY NodeFacts, Consts DEF Inv
  <1>2. malloced' <= adds' /\ \A i \in 1 .. MaxAdds : i > adds' => fired'[i] = 0
    BY <1>1 DEF Inv, Counted
  <1>3. ASSUME NEW f \in Range(stack')
        PROVE  Numbered(f)'
    <2>1. CASE f.at \notin InAdd
      BY <2>1 DEF Numbered, InAdd, Adding, Filling
    <2>2. CASE /\ f \in Range(stack) /\ adds' = adds /\ base' = base
               /\ alarm' > 0 /\ handler' = "fault" => alarm > 0 /\ handler = "fault"
      BY <2>2 DEF Inv, Counted, Numbered
    <2> QED
      BY <2>1, <2>2
  <1> QED
    BY <1>2, <1>3 DEF Counted

LEMMA HandlesKept ==
    ASSUME Inv, Fewer, base' = base,
           \A f \in Range(stack') : \/ f \in Range(stack)
                                    \/ f.at \notin {"end", "check", "give", "read"}
                                    \/ \A n \in Nodes : Active(n) /\ node[n].id = f.id /\ base = "dfl" => f.tp = n
    PROVE  Handles'
  BY DEF Inv, Handles, Fewer

LEMMA TypeKept ==
    ASSUME TypeOK, node' \in [Nodes -> Cells], UNCHANGED <<malloced, tptop, tpmin, tpfree, left, kernel, clock, fired>>,
           state' \subseteq {"add", "alrm", "defer"},
           timeout' \in [Statics -> Ptr], adds' \in 0 .. MaxAdds
    PROVE  TypeOK'
  BY DEF TypeOK, Cells, kernel

LEMMA LinkedIn ==
    ASSUME NEW S \in SUBSET Nodes, NEW p, NEW r, NEW b \in Nat, NEW nd,
           \A n \in S : r[n] \in Nat /\ r[n] <= b, Linked(S, p, r, nd)
    PROVE  /\ p \in S \cup {Nil} /\ (p = Nil => S = {})
           /\ p # Nil => \A m \in S : r[m] <= r[p]
           /\ \A n \in S : /\ nd[n].next \in S \cup {Nil}
                           /\ nd[n].next = Nil => \A m \in S : r[n] <= r[m]
                           /\ nd[n].next # Nil => /\ r[nd[n].next] < r[n]
                                                  /\ \A m \in S : r[m] < r[n] => r[m] <= r[nd[n].next]
  <1>1. Nil \notin S
    BY Consts
  <1>2. \A X \in SUBSET S : /\ X = {} => Highest(X, r) = Nil
                            /\ X # {} => Highest(X, r) \in X /\ \A m \in X : r[m] <= r[Highest(X, r)]
    <2> SUFFICES ASSUME NEW X \in SUBSET S, X # {}
                 PROVE  Highest(X, r) \in X /\ \A m \in X : r[m] <= r[Highest(X, r)]
      BY DEF Highest
    <2> QED
      BY HighestIn
  <1>3. p \in S \cup {Nil} /\ (p = Nil => S = {}) /\ (p # Nil => \A m \in S : r[m] <= r[p])
    BY <1>1, <1>2 DEF Linked
  <1>4. ASSUME NEW n \in S
        PROVE  /\ nd[n].next \in S \cup {Nil}
               /\ nd[n].next = Nil => \A m \in S : r[n] <= r[m]
               /\ nd[n].next # Nil => /\ r[nd[n].next] < r[n]
                                      /\ \A m \in S : r[m] < r[n] => r[m] <= r[nd[n].next]
    <2> DEFINE X == {m \in S : r[m] < r[n]}
    <2>1. nd[n].next = Highest(X, r)
      BY DEF Linked
    <2>2. CASE X = {}
      <3>1. nd[n].next = Nil
        BY <2>1, <2>2, <1>2
      <3> QED
        BY <3>1, <2>2
    <2>3. CASE X # {}
      <3>1. nd[n].next \in X /\ \A m \in X : r[m] <= r[nd[n].next]
        BY <2>1, <2>3, <1>2
      <3> QED
        BY <3>1, <1>1
    <2> QED
      BY <2>2, <2>3
  <1> QED
    BY <1>3, <1>4

\* What Lists says of the two lists.
LEMMA ListsFacts ==
    ASSUME TypeOK, NEW T \in SUBSET Nodes, NEW F \in SUBSET Nodes, NEW r \in [Nodes -> Nat], NEW high \in Nat,
           Lists(T, F, r, high)
    PROVE  /\ \A n \in T : node[n].id \in Nat /\ node[n].id <= adds /\ Ids(node)[n] = node[n].id
           /\ tptop \in T \cup {Nil} /\ (tptop = Nil => T = {})
           /\ tptop # Nil => \A m \in T : node[m].id <= node[tptop].id
           /\ \A n \in T : /\ node[n].next \in T \cup {Nil}
                           /\ node[n].next = Nil => \A m \in T : node[n].id <= node[m].id
                           /\ node[n].next # Nil =>
                                 /\ node[node[n].next].id < node[n].id
                                 /\ \A m \in T : node[m].id < node[n].id => node[m].id <= node[node[n].next].id
           /\ tpfree \in F \cup {Nil} /\ (tpfree = Nil => F = {})
           /\ tpfree # Nil => \A m \in F : r[m] <= r[tpfree]
           /\ \A n \in F : /\ node[n].next \in F \cup {Nil}
                           /\ node[n].next = Nil => \A m \in F : r[n] <= r[m]
                           /\ node[n].next # Nil => /\ r[node[n].next] < r[n]
                                                    /\ \A m \in F : r[m] < r[n] => r[m] <= r[node[n].next]
  <1>1. adds \in Nat /\ \A n \in Nodes : node[n].id \in 0 .. MaxAdds /\ Ids(node)[n] = node[n].id
    BY NodeFacts DEF Ids
  <1>2. \A n \in T : Ids(node)[n] \in Nat /\ Ids(node)[n] <= adds
    BY <1>1 DEF Lists
  <1>3. Linked(T, tptop, Ids(node), node)
    BY DEF Lists
  <1>4. /\ tptop \in T \cup {Nil} /\ (tptop = Nil => T = {})
        /\ tptop # Nil => \A m \in T : Ids(node)[m] <= Ids(node)[tptop]
        /\ \A n \in T : /\ node[n].next \in T \cup {Nil}
                        /\ node[n].next = Nil => \A m \in T : Ids(node)[n] <= Ids(node)[m]
                        /\ node[n].next # Nil =>
                              /\ Ids(node)[node[n].next] < Ids(node)[n]
                              /\ \A m \in T : Ids(node)[m] < Ids(node)[n] => Ids(node)[m] <= Ids(node)[node[n].next]
    BY <1>1, <1>2, <1>3, LinkedIn
  <1>5. Linked(F, tpfree, r, node) /\ \A n \in F : r[n] \in Nat /\ r[n] <= high
    BY DEF Lists
  <1>6. /\ tpfree \in F \cup {Nil} /\ (tpfree = Nil => F = {})
        /\ tpfree # Nil => \A m \in F : r[m] <= r[tpfree]
        /\ \A n \in F : /\ node[n].next \in F \cup {Nil}
                        /\ node[n].next = Nil => \A m \in F : r[n] <= r[m]
                        /\ node[n].next # Nil => /\ r[node[n].next] < r[n]
                                                 /\ \A m \in F : r[m] < r[n] => r[m] <= r[node[n].next]
    BY <1>5, LinkedIn
  <1>7. \A n \in T : node[n].id \in Nat /\ node[n].id <= adds /\ Ids(node)[n] = node[n].id
    BY <1>1, <1>2
  <1>8. \A n \in T : node[n].next \in Nodes => Ids(node)[node[n].next] = node[node[n].next].id
    BY <1>1
  <1>9. /\ tptop # Nil => \A m \in T : node[m].id <= node[tptop].id
        /\ \A n \in T : /\ node[n].next \in T \cup {Nil}
                        /\ node[n].next = Nil => \A m \in T : node[n].id <= node[m].id
                        /\ node[n].next # Nil =>
                              /\ node[node[n].next].id < node[n].id
                              /\ \A m \in T : node[m].id < node[n].id => node[m].id <= node[node[n].next].id
    BY <1>4, <1>7
  <1> QED
    BY <1>4, <1>6, <1>7, <1>9

\* A frame of a step that leaves both lists alone.
Harmless(f) ==
    \/ f \in Range(stack)
    \/ f.at \notin {"take", "pop", "fill", "link", "act", "walk"}
    \/ f.at = "take" /\ adds < adds'
    \/ f.at = "walk" /\ \/ f.tp \in {tptop, Nil} \/ Lost'
                        \/ \E g \in Range(stack) : g.at = "walk" /\ g.tp # Nil /\ f.tp = node[g.tp].next

LEMMA ListsKept ==
    ASSUME Inv, Fewer, UNCHANGED <<tptop, tpfree>>, tpmin' \in {tpmin, Nil},
           adds' \in Nat, adds <= adds', malloced' \in Nat, malloced <= malloced', Lost => Lost',
           \A n \in Nodes : Linking(n) => Linking(n)', AtTop({"link"}) => node' = node,
           NEW T \in SUBSET Nodes, NEW F \in SUBSET Nodes, NEW r \in [Nodes -> Nat], NEW high \in Nat,
           Lists(T, F, r, high),
           \A f \in Range(stack') : Harmless(f) \/ Holds(f, T, F)'
    PROVE  Lists(T, F, r, high)'
  <1>1. Lists(T, F, r, high)
    OBVIOUS
  <1>0. malloced \in Nat
    BY NodeFacts DEF Inv
  <1>2. /\ adds \in Nat /\ \A n \in Nodes : node[n].id \in 0 .. MaxAdds
        /\ TypeOK
    BY NodeFacts DEF Inv
  <1>3. /\ \A n \in T : node[n].id \in Nat /\ node[n].id <= adds
        /\ tptop \in T \cup {Nil}
        /\ \A n \in T : node[n].next \in T \cup {Nil}
    BY <1>1, <1>2, ListsFacts
  <1>4. Ids(node) = Ids(node')
    BY DEF Ids, Fewer
  <1>5. Linked(T, tptop, Ids(node), node) /\ Linked(F, tpfree, r, node)
    BY <1>1 DEF Lists
  <1>6. Linked(T, tptop', Ids(node'), node') /\ Linked(F, tpfree', r, node')
    BY <1>4, <1>5 DEF Linked, Fewer
  <1>7. Distinct(T, Ids(node'))
    BY <1>1, <1>4 DEF Lists
  <1>8. ASSUME NEW f \in Range(stack')
        PROVE  Holds(f, T, F)'
    <2>1. CASE f \in Range(stack)
      <3>1. Holds(f, T, F)
        BY <1>1, <2>1 DEF Lists
      <3>2. f.at = "link" => f.tp \in Nodes
        <4>1. 1 .. malloced \subseteq Nodes
          BY <1>2, NodeFacts, Consts DEF Nodes
        <4> QED
          BY <3>1, <4>1 DEF Holds
      <3>3. f.at = "link" => node' = node
        BY <2>1, StackFacts DEF AtTop
      <3>4. f.at = "link" => Active(f.tp)'
        BY <3>1, <3>3 DEF Holds, Active
      <3>6. f.at \in {"fill", "link"} => f.tp \in (1 .. malloced') \ (T \cup F)
        BY <3>1, <1>0 DEF Holds
      <3>5. f.at \in Adding => \A n \in T : node'[n].id < adds'
        BY <3>1, <1>2, <1>3 DEF Holds, Fewer
      <3>7. f.at = "link" => node'[f.tp].next = tptop' /\ node'[f.tp].id = f.id
        BY <3>1, <3>2 DEF Holds, Fewer
      <3> QED
        BY <3>1, <3>4, <3>5, <3>6, <3>7 DEF Holds, Lost
    <2>2. CASE f.at \notin {"take", "pop", "fill", "link", "act", "walk"}
      BY <2>2 DEF Holds, Adding, Filling
    <2>3. CASE f.at = "take" /\ adds < adds'
      BY <2>3, <1>2, <1>3 DEF Holds, Fewer
    <2>4. CASE f.at = "walk" /\ Lost'
      BY <2>4 DEF Holds, Adding, Filling, Lost
    <2>5. CASE f.at = "walk" /\ f.tp \in {tptop, Nil}
      BY <2>5, <1>3 DEF Holds, Adding, Filling
    <2>6. CASE f.at = "walk" /\ ~Lost' /\ \E g \in Range(stack) : g.at = "walk" /\ g.tp # Nil /\ f.tp = node[g.tp].next
      <3>1. PICK g \in Range(stack) : g.at = "walk" /\ g.tp # Nil /\ f.tp = node[g.tp].next
        BY <2>6
      <3>2. g.tp \in T
        BY <3>1, <2>6, <1>1 DEF Lists, Holds, Lost
      <3> QED
        BY <2>6, <3>1, <3>2, <1>3 DEF Holds, Adding, Filling
    <2>7. CASE Holds(f, T, F)'
      BY <2>7
    <2> QED
      BY <2>1, <2>2, <2>3, <2>4, <2>5, <2>6, <2>7 DEF Harmless
  <1>9. \A n \in Nodes : Active(n)' => n \in T \/ Linking(n)'
    BY <1>1 DEF Lists, Fewer
  <1>10. \A n \in T : node'[n].id \in 1 .. adds'
    BY <1>1, <1>2 DEF Lists, Fewer
  <1>11. T \cup F \subseteq 1 .. malloced'
    BY <1>0, <1>1 DEF Lists
  <1> QED
    BY <1>1, <1>6, <1>7, <1>8, <1>9, <1>10, <1>11 DEF Lists

LEMMA SoundKept ==
    ASSUME Inv, Fewer, UNCHANGED <<malloced, tptop, tpfree>>, tpmin' \in {tpmin, Nil},
           adds' \in Nat, adds <= adds', Lost => Lost',
           \A n \in Nodes : Linking(n) => Linking(n)', AtTop({"link"}) => node' = node,
           \A f \in Range(stack') : Harmless(f)
    PROVE  Sound'
  <1>1. PICK T \in SUBSET Nodes, F \in SUBSET Nodes, r \in [Nodes -> Nat], high \in Nat : Lists(T, F, r, high)
    BY DEF Inv, Sound
  <1>2. malloced' \in Nat /\ malloced <= malloced'
    BY NodeFacts, Consts DEF Inv
  <1>3. Lists(T, F, r, high)'
    BY <1>1, <1>2, ListsKept
  <1> QED
    BY <1>3 DEF Sound

SameCode(a, b) ==
    \/ a \in InAlarm /\ b \in InAlarm
    \/ a \in InAdd /\ b \in InAdd
    \/ a \in InDel /\ b \in InDel
    \/ a \in InUser /\ b \in InUser

\* The running frame takes a step inside the code it is in.
LEMMA StepTop ==
    ASSUME Inv, stack # <<>>, NEW f, stack' = <<f>> \o Rest(stack, 1),
           f \in Frames, SameCode(Top.at, f.at), f.kind = Top.kind, f.id = Top.id, f.d = Top.d,
           f.at # "top", f.at \in {"assign", "wait", "pause", "del"} => f.kind \in Statics,
           adds' = adds, base' = base
    PROVE  /\ Framed(stack, adds, base)'
           /\ stack' # <<>> /\ Top' = f /\ f \in Range(stack')
           /\ Range(stack') \subseteq Range(stack) \cup {f}
           /\ Range(stack) \subseteq Range(stack') \cup {Top}
  <1>1. Top \in Range(stack) /\ Top \in Frames /\ Fits(Top, adds, base) /\ adds \in Nat
    BY StackFacts
  <1>2. Instead(f, Top)
    BY <1>1 DEF Instead, SameCode, Level, InAlarm, InAdd, InDel, InUser
  <1>3. Fits(f, adds, base)
    BY <1>1 DEF Fits, SameCode, InAlarm, InAdd, InDel, InUser
  <1>4. \A h \in Range(stack) : Over(Top, h) => Over(f, h)
    BY <1>1, <1>2, StackFacts, InsteadOver
  <1> QED
    BY <1>1, <1>2, <1>3, <1>4, SetTop

LEMMA GoToIs ==
    ASSUME Inv, stack # <<>>, NEW a \in InAlarm \cup InAdd \cup InDel \cup InUser, GoTo(a),
           SameCode(Top.at, a), a # "top", a \in {"assign", "wait", "pause", "del"} => Top.kind \in Statics,
           adds' = adds, base' = base
    PROVE  /\ Framed(stack, adds, base)'
           /\ stack' # <<>> /\ Top' \in Range(stack')
           /\ Top'.at = a /\ Top'.tp = Top.tp /\ Top'.kind = Top.kind /\ Top'.d = Top.d /\ Top'.id = Top.id
           /\ Range(stack') \subseteq Range(stack) \cup {Top'}
           /\ Range(stack) \subseteq Range(stack') \cup {Top}
  <1> DEFINE f == [Top EXCEPT !.at = a]
  <1>1. Top \in Frames
    BY StackFacts
  <1>2. stack' = <<f>> \o Rest(stack, 1)
    BY TopForms DEF GoTo
  <1>3. /\ f \in Frames /\ f.at = a /\ f.tp = Top.tp /\ f.kind = Top.kind /\ f.d = Top.d /\ f.id = Top.id
    BY <1>1 DEF Frames
  <1> HIDE DEF f
  <1> QED
    BY <1>2, <1>3, StepTop

LEMMA GoToWithIs ==
    ASSUME Inv, stack # <<>>, NEW a \in InAlarm \cup InAdd \cup InDel \cup InUser, NEW p \in Ptr,
           GoToWith(a, p), SameCode(Top.at, a), a # "top",
           a \in {"assign", "wait", "pause", "del"} => Top.kind \in Statics,
           adds' = adds, base' = base
    PROVE  /\ Framed(stack, adds, base)'
           /\ stack' # <<>> /\ Top' \in Range(stack')
           /\ Top'.at = a /\ Top'.tp = p /\ Top'.kind = Top.kind /\ Top'.d = Top.d /\ Top'.id = Top.id
           /\ Range(stack') \subseteq Range(stack) \cup {Top'}
           /\ Range(stack) \subseteq Range(stack') \cup {Top}
  <1> DEFINE f == [Top EXCEPT !.at = a, !.tp = p]
  <1>1. Top \in Frames
    BY StackFacts
  <1>2. stack' = <<f>> \o Rest(stack, 1)
    BY TopForms DEF GoToWith
  <1>3. /\ f \in Frames /\ f.at = a /\ f.tp = p /\ f.kind = Top.kind /\ f.d = Top.d /\ f.id = Top.id
    BY <1>1 DEF Frames
  <1> HIDE DEF f
  <1> QED
    BY <1>2, <1>3, StepTop

LEMMA RangePushed ==
    ASSUME NEW S, NEW s \in Seq(S), NEW f \in S
    PROVE  /\ <<f>> \o s \in Seq(S) /\ <<f>> \o s # <<>> /\ (<<f>> \o s)[1] = f
           /\ \A g : g \in Range(<<f>> \o s) <=> g = f \/ g \in Range(s)
  <1> DEFINE t == <<f>> \o s
  <1>1. /\ t \in Seq(S) /\ Len(t) = Len(s) + 1 /\ t[1] = f /\ Len(s) \in Nat
        /\ \A i \in 1 .. Len(s) : t[i + 1] = s[i]
    OBVIOUS
  <1> HIDE DEF t
  <1>2. \A i \in 1 .. Len(t) : i = 1 \/ (i - 1 \in 1 .. Len(s) /\ t[i] = s[i - 1])
    <2> SUFFICES ASSUME NEW i \in 1 .. Len(t), i # 1
                 PROVE  i - 1 \in 1 .. Len(s) /\ t[i] = s[i - 1]
      OBVIOUS
    <2>1. i - 1 \in 1 .. Len(s) /\ (i - 1) + 1 = i
      BY <1>1
    <2> QED
      BY <2>1, <1>1
  <1>3. \A g : g \in Range(t) <=> \E i \in 1 .. Len(t) : t[i] = g
    BY <1>1, RangeIs
  <1>4. \A g : g \in Range(s) <=> \E i \in 1 .. Len(s) : s[i] = g
    BY RangeIs
  <1>5. 1 \in 1 .. Len(t) /\ t # <<>>
    BY <1>1
  <1>6. \A i \in 1 .. Len(s) : i + 1 \in 1 .. Len(t) /\ t[i + 1] = s[i]
    BY <1>1
  <1>7. \A g : g \in Range(t) <=> g = f \/ g \in Range(s)
    <2> SUFFICES ASSUME NEW g
                 PROVE  g \in Range(t) <=> g = f \/ g \in Range(s)
      OBVIOUS
    <2>1. ASSUME g \in Range(t)
          PROVE  g = f \/ g \in Range(s)
      BY <2>1, <1>1, <1>2, <1>3, <1>4
    <2>2. ASSUME g = f \/ g \in Range(s)
          PROVE  g \in Range(t)
      <3>1. CASE g = f
        BY <3>1, <1>1, <1>3, <1>5
      <3>2. CASE g \in Range(s)
        <4>1. PICK i \in 1 .. Len(s) : s[i] = g
          BY <3>2, <1>4
        <4> QED
          BY <4>1, <1>3, <1>6
      <3> QED
        BY <2>2, <3>1, <3>2
    <2> QED
      BY <2>1, <2>2
  <1> QED
    BY <1>1, <1>5, <1>7 DEF t

\* Two frames take the place of the first k.
LEMMA TwoTops ==
    ASSUME Inv, NEW k \in 0 .. Len(stack), NEW f, NEW g, stack' = <<f, g>> \o Rest(stack, k),
           adds' \in Nat, adds <= adds', base' = base, Fits(f, adds', base), Fits(g, adds', base),
           Over(f, g), \A i \in k + 1 .. Len(stack) : Over(f, stack[i]) /\ Over(g, stack[i]),
           f.at \in InAdd => Calls(f, g),
           g.at \in InAdd => k < Len(stack) /\ Calls(g, stack[k + 1])
    PROVE  /\ Framed(stack, adds, base)'
           /\ stack' # <<>> /\ Top' = f /\ f \in Range(stack') /\ g \in Range(stack')
           /\ Range(stack') \subseteq Range(stack) \cup {f, g}
           /\ \A i \in k + 1 .. Len(stack) : stack[i] \in Range(stack')
  <1> DEFINE s == Rest(stack, k)
             t == <<g>> \o s
             u == <<f>> \o t
  <1>1. /\ Framed(stack, adds, base) /\ adds \in Nat /\ Len(stack) \in Nat
        /\ stack \in Seq(Frames)
    BY StackFacts
  <1>2. Framed(stack, adds', base)
    BY <1>1, FramedMore
  <1>3. /\ s \in Seq(Frames) /\ Len(s) = Len(stack) - k
        /\ \A i \in 1 .. Len(stack) - k : s[i] = stack[i + k]
        /\ Framed(s, adds', base)
    <2>1. s \in Seq(Frames) /\ Len(s) = Len(stack) - k /\ Shifted(stack, k, s) /\ Framed(s, adds', base)
      BY <1>1, <1>2, Dropped
    <2> QED
      BY <2>1 DEF Shifted
  <1>4. f \in Frames /\ g \in Frames
    BY DEF Fits
  <1>5. stack' = u
    <2>1. <<f, g>> = <<f>> \o <<g>>
      <3>1. /\ <<f, g>> \in Seq(Frames) /\ Len(<<f, g>>) = 2
            /\ <<f, g>>[1] = f /\ <<f, g>>[2] = g
        BY <1>4
      <3>2. /\ <<f>> \o <<g>> \in Seq(Frames) /\ Len(<<f>> \o <<g>>) = 2
            /\ (<<f>> \o <<g>>)[1] = f /\ (<<f>> \o <<g>>)[2] = g
        BY <1>4
      <3>3. \A i \in 1 .. 2 : <<f, g>>[i] = (<<f>> \o <<g>>)[i]
        <4>1. \A i \in 1 .. 2 : i = 1 \/ i = 2
          OBVIOUS
        <4> QED
          BY <3>1, <3>2, <4>1
      <3> QED
        BY <3>1, <3>2, <3>3, SeqEqual
    <2>2. <<f>> \in Seq(Frames) /\ <<g>> \in Seq(Frames)
      BY <1>4
    <2>3. (<<f>> \o <<g>>) \o s = <<f>> \o (<<g>> \o s)
      BY <2>2, <1>3, ConcatAssociative
    <2> QED
      BY <2>1, <2>3
  <1>6. \A i \in 1 .. Len(s) : Over(f, s[i]) /\ Over(g, s[i])
    <2> SUFFICES ASSUME NEW i \in 1 .. Len(s)
                 PROVE  Over(f, s[i]) /\ Over(g, s[i])
      OBVIOUS
    <2>1. i + k \in k + 1 .. Len(stack) /\ s[i] = stack[i + k]
      BY <1>1, <1>3
    <2> QED
      BY <2>1
  <1>7. g.at \in InAdd => s # <<>> /\ Calls(g, s[1])
    <2> SUFFICES ASSUME g.at \in InAdd
                 PROVE  s # <<>> /\ Calls(g, s[1])
      OBVIOUS
    <2>1. 1 \in 1 .. Len(stack) - k
      BY <1>1
    <2>2. s[1] = stack[1 + k] /\ 1 + k = k + 1 /\ Len(s) > 0
      BY <1>1, <1>3, <2>1
    <2> QED
      BY <2>2, <1>3
  <1>8. \A i \in k + 1 .. Len(stack) : stack[i] \in Range(s)
    <2> SUFFICES ASSUME NEW i \in k + 1 .. Len(stack)
                 PROVE  stack[i] \in Range(s)
      OBVIOUS
    <2>1. i - k \in 1 .. Len(stack) - k /\ (i - k) + k = i
      BY <1>1
    <2>2. i - k \in 1 .. Len(s) /\ s[i - k] = stack[i]
      BY <2>1, <1>3
    <2>3. \A h : h \in Range(s) <=> \E j \in 1 .. Len(s) : s[j] = h
      BY <1>3, RangeIs
    <2> QED
      BY <2>2, <2>3
  <1>9. Range(s) \subseteq Range(stack)
    <2>1. \A h : h \in Range(s) <=> \E j \in 1 .. Len(s) : s[j] = h
      BY <1>3, RangeIs
    <2>2. \A h : h \in Range(stack) <=> \E j \in 1 .. Len(stack) : stack[j] = h
      BY <1>1, RangeIs
    <2>3. \A j \in 1 .. Len(s) : j + k \in 1 .. Len(stack) /\ s[j] = stack[j + k]
      BY <1>1, <1>3
    <2> QED
      BY <2>1, <2>2, <2>3
  <1> HIDE DEF s
  <1>10. Framed(t, adds', base)
    BY <1>3, <1>6, <1>7, Pushed
  <1>11. /\ t \in Seq(Frames) /\ t # <<>> /\ t[1] = g
         /\ \A h : h \in Range(t) <=> h = g \/ h \in Range(s)
    BY <1>3, <1>4, RangePushed
  <1> HIDE DEF t
  <1>12. \A h \in Range(t) : Over(f, h)
    <2>1. \A h : h \in Range(s) <=> \E j \in 1 .. Len(s) : s[j] = h
      BY <1>3, RangeIs
    <2> QED
      BY <2>1, <1>6, <1>11
  <1>13. \A i \in 1 .. Len(t) : Over(f, t[i])
    <2>1. \A h : h \in Range(t) <=> \E j \in 1 .. Len(t) : t[j] = h
      BY <1>11, RangeIs
    <2> QED
      BY <2>1, <1>12
  <1>14. Framed(u, adds', base)
    BY <1>10, <1>11, <1>13, Pushed
  <1>15. /\ u # <<>> /\ u[1] = f
         /\ \A h : h \in Range(u) <=> h = f \/ h \in Range(t)
    BY <1>4, <1>11, RangePushed
  <1> HIDE DEF u
  <1>16. Framed(stack', adds', base')
    BY <1>5, <1>14
  <1> QED
    BY <1>5, <1>8, <1>9, <1>11, <1>15, <1>16 DEF Top

HandleOf(f) == \A n \in Nodes : Active(n) /\ node[n].id = f.id /\ base = "dfl" => f.tp = n

\* A frame as a calm step leaves it.
CalmFrame(f) ==
    \/ f \in Range(stack) /\ (adds' = adds \/ f.at \notin InAdd)
    \/ /\ f.at \in {"end", "give", "take"} \cup InUser
       /\ f.at \in InAdd => Numbered(f)'
       /\ f.at = "take" => adds < adds'
       /\ f.at \in {"end", "give", "read"} => HandleOf(f)

LEMMA CalmInv ==
    ASSUME Inv, Fewer, UNCHANGED <<malloced, tptop, tpmin, tpfree, state, left, kernel, clock, fired, odd>>,
           timeout' \in [Statics -> Ptr], adds' \in 0 .. MaxAdds, adds <= adds', Framed(stack, adds, base)',
           ~AtTop(InAlarm \cup InDel \cup Adding \cup {"end"}), ~AtTop(InAlarm \cup InDel \cup {"link"})',
           AtTop(Filling)' => Top'.kind # "old",
           \A f \in Range(stack') : CalmFrame(f)
    PROVE  Inv'
  <1>1. adds' \in Nat /\ adds \in Nat /\ base' = base
    <2>1. adds' \in Nat
      BY Consts
    <2>2. adds \in Nat
      BY NodeFacts DEF Inv
    <2> QED
      BY <2>1, <2>2 DEF kernel
  <1>2. ~AtTop(InAlarm) /\ ~AtTop({"link"}) /\ ~AtTop({"end"}) /\ ~AtTop(Adding)
    BY DEF AtTop, Adding
  <1>3. "add" \notin state
    <2>1. ~AtTop({"link", "end"}) /\ ~AtTop(Filling)
      BY <1>2 DEF AtTop, Adding
    <2> QED
      BY <1>2, <2>1 DEF Inv, Bits
  <1>4. TypeOK' /\ (odd \subseteq {"lost", "slow"})'
    <2>1. state' \subseteq {"add", "alrm", "defer"} /\ node' \in [Nodes -> Cells]
      BY DEF Inv, TypeOK, Fewer
    <2> QED
      BY <2>1, TypeKept DEF Inv
  <1>5. Bits'
    <2>1. ~AtTop(InAlarm \cup Adding \cup {"end"}) /\ ~AtTop(InAlarm \cup {"link"})'
      BY DEF AtTop
    <2> QED
      BY <2>1, BitsKept
  <1>6. Counted'
    BY <1>1, CountedKept DEF CalmFrame, kernel, InAdd, InUser
  <1>7. Sound'
    <2>1. \A f \in Range(stack') : Harmless(f)
      BY DEF CalmFrame, Harmless, InUser
    <2>2. \A n \in Nodes : ~Linking(n)
      BY <1>2 DEF Linking
    <2> QED
      BY <1>1, <1>2, <2>1, <2>2, SoundKept DEF Lost
  <1>8. Handles'
    <2>1. \A f \in Range(stack') : \/ f \in Range(stack)
                                   \/ f.at \notin {"end", "check", "give", "read"}
                                   \/ \A n \in Nodes : Active(n) /\ node[n].id = f.id /\ base = "dfl" => f.tp = n
      BY DEF CalmFrame, HandleOf, InUser
    <2> QED
      BY <1>1, <2>1, HandlesKept
  <1>9. Intervals' /\ Given' /\ MinAlarm' /\ InHandler' /\ AtAct' /\ AtBreak' /\ AtLink' /\ AtWalk' /\ Outside'
    <2>1. \A f \in Range(stack') : f.at \in InDel => f \in Range(stack)
      BY DEF CalmFrame, InDel, InUser
    <2>2. ~AtTop(InAlarm \cup InDel \cup {"link"})
      BY DEF AtTop, Adding
    <2> QED
      BY <1>3, <2>1, <2>2, CalmKeeps
  <1> QED
    BY <1>4, <1>5, <1>6, <1>7, <1>8, <1>9 DEF Inv

LEMMA AtIs ==
    ASSUME Inv, NEW a, At(a)
    PROVE  /\ stack # <<>> /\ Top.at = a /\ ~pending
           /\ Top \in Frames /\ Top \in Range(stack) /\ Fits(Top, adds, base)
           /\ \A S : AtTop(S) <=> a \in S
  BY StackFacts DEF At, AtTop

LEMMA FewerSame ==
    ASSUME Inv, node' = node
    PROVE  Fewer
  BY NodeFacts DEF Inv, Fewer, Active

\* The cells of TypeOK are cells, and timers that are given up.
LEMMA FewerDeleted ==
    ASSUME Inv, NEW D \in SUBSET Nodes,
           node' = [n \in Nodes |-> IF n \in D THEN [node[n] EXCEPT !.action = "none"] ELSE node[n]]
    PROVE  Fewer
  <1>1. node \in [Nodes -> Cells]
    BY NodeFacts DEF Inv
  <1>2. \A n \in Nodes : node'[n] \in Cells
    BY <1>1 DEF Cells
  <1>3. node' \in [Nodes -> Cells]
    BY <1>2
  <1>4. ASSUME NEW n \in Nodes
        PROVE  /\ node'[n].wakeup = node[n].wakeup /\ node'[n].incr = node[n].incr
               /\ node'[n].next = node[n].next /\ node'[n].id = node[n].id
               /\ node'[n].action \in {node[n].action, "none"}
    BY <1>1 DEF Cells
  <1> QED
    BY <1>3, <1>4 DEF Fewer, Active

----------------------------------------------------------------------------
(* The users of timers                                                     *)

LEMMA ReadTopKeeps ==
    ASSUME Inv, ReadTop
    PROVE  Inv'
  <1>1. /\ At("top") /\ GoToWith("end", tptop)
        /\ UNCHANGED <<node, malloced, tptop, tpmin, tpfree, state, left, kernel, timeout, clock, adds, fired, odd>>
    BY DEF ReadTop, lists, rest
  <1>2. /\ stack # <<>> /\ Top.at = "top" /\ base = "fault" /\ Top \in Range(stack)
        /\ \A S : AtTop(S) <=> "top" \in S
    BY <1>1, AtIs DEF Fits, InAdd
  <1>3. /\ tptop \in Ptr /\ timeout \in [Statics -> Ptr] /\ adds \in 0 .. MaxAdds /\ adds \in Nat
    BY NodeFacts DEF Inv
  <1>4. /\ Framed(stack, adds, base)' /\ stack' # <<>>
        /\ Top'.at = "end" /\ Top'.id = Top.id
        /\ Range(stack') \subseteq Range(stack) \cup {Top'}
    BY <1>1, <1>2, <1>3, GoToWithIs DEF kernel, SameCode, InAdd
  <1>5. \A f \in Range(stack') : CalmFrame(f)
    <2> SUFFICES ASSUME NEW f \in Range(stack'), f.at = "end", f.id = Top.id
                 PROVE  CalmFrame(f)
      BY <1>1, <1>4 DEF CalmFrame
    <2>1. Numbered(f)'
      BY <1>1, <1>2 DEF Numbered, Adding, Filling, kernel
    <2> QED
      BY <1>2, <2>1 DEF CalmFrame, HandleOf
  <1>7. /\ ~AtTop(InAlarm \cup InDel \cup Adding \cup {"end"})
        /\ ~AtTop(InAlarm \cup InDel \cup {"link"})' /\ ~AtTop(Filling)'
    BY <1>2, <1>4 DEF AtTop, InAlarm, InDel, Adding, Filling
  <1> QED
    BY <1>1, <1>3, <1>4, <1>5, <1>7, CalmInv, FewerSame

\* The handle is dropped only if the timer has left the list.
LEMMA CheckKeeps ==
    ASSUME Inv, Check
    PROVE  Inv'
  <1>0. PICK p : p = IF Top.tp = tptop THEN Top.tp ELSE Nil
    OBVIOUS
  <1>1. /\ At("check") /\ GoToWith("give", p)
        /\ UNCHANGED <<node, malloced, tptop, tpmin, tpfree, state, left, kernel, timeout, clock, adds, fired, odd>>
    BY <1>0 DEF Check, lists, rest
  <1>2. /\ stack # <<>> /\ Top.at = "check" /\ Top \in Range(stack)
        /\ \A S : AtTop(S) <=> "check" \in S
    BY <1>1, AtIs
  <1>3. /\ tptop \in Ptr /\ timeout \in [Statics -> Ptr] /\ adds \in 0 .. MaxAdds /\ adds \in Nat
        /\ \A n \in Nodes : node[n].id \in 0 .. MaxAdds
        /\ MaxAdds \in Nat /\ TypeOK
    BY NodeFacts, Consts DEF Inv
  <1>4. p \in Ptr
    BY <1>0, <1>3 DEF Ptr
  <1>5. /\ Framed(stack, adds, base)' /\ stack' # <<>>
        /\ Top'.at = "give" /\ Top'.id = Top.id /\ Top'.tp = p
        /\ Range(stack') \subseteq Range(stack) \cup {Top'}
    <2>1. adds' = adds /\ base' = base
      BY <1>1 DEF kernel
    <2>2. SameCode(Top.at, "give") /\ "give" \in InAlarm \cup InAdd \cup InDel \cup InUser
      BY <1>2 DEF SameCode, InAdd
    <2>3. GoToWith("give", p) /\ stack # <<>> /\ "give" # "top" /\ "give" \notin {"assign", "wait", "pause", "del"}
      BY <1>1, <1>2
    <2> QED
      BY <2>1, <2>2, <2>3, <1>4, GoToWithIs
  <1>6. ASSUME NEW n \in Nodes, Active(n), node[n].id = Top.id, base = "dfl"
        PROVE  p = n
    <2>1. Top.tp = n
      BY <1>2, <1>6 DEF Inv, Handles
    <2>2. Top.id = adds
      BY <1>2, <1>6 DEF Inv, Counted, Numbered, InAdd
    <2>3. PICK T \in SUBSET Nodes, F \in SUBSET Nodes, r \in [Nodes -> Nat], high \in Nat : Lists(T, F, r, high)
      BY DEF Inv, Sound
    <2>4. n \in T
      <3>1. ~Linking(n)
        BY <1>2 DEF Linking
      <3> QED
        BY <2>3, <3>1, <1>6 DEF Lists
    <2>5. /\ tptop \in T \cup {Nil} /\ (tptop = Nil => T = {})
          /\ tptop # Nil => node[n].id <= node[tptop].id
          /\ tptop # Nil => node[tptop].id <= adds
      BY <1>3, <2>3, <2>4, ListsFacts
    <2>6. tptop \in T /\ node[tptop].id = node[n].id
      BY <1>3, <1>6, <2>2, <2>4, <2>5
    <2>7. tptop = n
      BY <2>3, <2>4, <2>6 DEF Lists, Distinct, Ids
    <2> QED
      BY <1>0, <2>1, <2>7
  <1>7. \A f \in Range(stack') : CalmFrame(f)
    <2> SUFFICES ASSUME NEW f \in Range(stack'), f.at = "give", f.id = Top.id, f.tp = p
                 PROVE  CalmFrame(f)
      BY <1>1, <1>5 DEF CalmFrame
    <2>1. Numbered(f)'
      BY <1>1, <1>2 DEF Inv, Counted, Numbered, Adding, Filling, InAdd, kernel
    <2> QED
      BY <1>6, <2>1 DEF CalmFrame, HandleOf
  <1>8. /\ ~AtTop(InAlarm \cup InDel \cup Adding \cup {"end"})
        /\ ~AtTop(InAlarm \cup InDel \cup {"link"})' /\ ~AtTop(Filling)'
    BY <1>2, <1>5 DEF AtTop, InAlarm, InDel, Adding, Filling
  <1> QED
    BY <1>1, <1>3, <1>5, <1>7, <1>8, CalmInv, FewerSame

LEMMA RestIs ==
    ASSUME NEW S, NEW s \in Seq(S), NEW k \in 0 .. Len(s), NEW t, t = Rest(s, k)
    PROVE  t \in Seq(S) /\ Len(t) = Len(s) - k /\ Shifted(s, k, t)
  <1>1. Len(s) \in Nat
    OBVIOUS
  <1>2. \A i \in k + 1 .. Len(s) : s[i] \in S
    BY <1>1
  <1>3. /\ t \in Seq(S) /\ Len(t) = Len(s) - k
        /\ \A i \in 1 .. Len(s) - k : t[i] = s[i + k]
    BY <1>1, <1>2, SubSeqProperties DEF Rest
  <1> QED
    BY <1>3 DEF Shifted

LEMMA TailTail ==
    ASSUME NEW S, NEW s \in Seq(S), Len(s) > 1
    PROVE  Tail(Tail(s)) = Rest(s, 2)
  <1>1. Len(s) \in Nat
    OBVIOUS
  <1>2. Tail(s) \in Seq(S) /\ Len(Tail(s)) = Len(s) - 1 /\ \A i \in 1 .. Len(s) - 1 : Tail(s)[i] = s[i + 1]
    BY <1>1
  <1> DEFINE t == Tail(s)
             u == Tail(t)
             v == Rest(s, 2)
  <1> HIDE DEF t
  <1>3. t \in Seq(S) /\ Len(t) = Len(s) - 1 /\ \A i \in 1 .. Len(s) - 1 : t[i] = s[i + 1]
    BY <1>2 DEF t
  <1>4. u \in Seq(S) /\ Len(u) = Len(s) - 2 /\ \A i \in 1 .. Len(s) - 2 : u[i] = t[i + 1]
    BY <1>1, <1>3
  <1>5. v \in Seq(S) /\ Len(v) = Len(s) - 2 /\ \A i \in 1 .. Len(s) - 2 : v[i] = s[i + 2]
    <2>1. 2 \in 0 .. Len(s)
      BY <1>1
    <2>2. v \in Seq(S) /\ Len(v) = Len(s) - 2 /\ Shifted(s, 2, v)
      BY <2>1, RestIs
    <2> QED
      BY <2>2 DEF Shifted
  <1> HIDE DEF u, v
  <1>6. ASSUME NEW i \in 1 .. Len(u)
        PROVE  u[i] = v[i]
    <2>1. i \in 1 .. Len(s) - 2 /\ i + 1 \in 1 .. Len(s) - 1 /\ (i + 1) + 1 = i + 2
      BY <1>1, <1>4
    <2>2. u[i] = t[i + 1] /\ t[i + 1] = s[(i + 1) + 1] /\ v[i] = s[i + 2]
      BY <2>1, <1>3, <1>4, <1>5
    <2> QED
      BY <2>1, <2>2
  <1>7. u = v
    BY <1>4, <1>5, <1>6, SeqEqual
  <1> QED
    BY <1>7 DEF u, v, t

\* What is below a user of timers is a user that waits.
LEMMA BelowUser ==
    ASSUME Inv, NEW i \in 1 .. Len(stack), NEW j \in 1 .. Len(stack), i < j, stack[i].at \in InUser
    PROVE  stack[j].at \in {"read", "wait"} /\ stack[j].id < stack[i].id
  <1>1. Over(stack[i], stack[j]) /\ stack[i] \in Range(stack)
    BY StackFacts DEF Framed
  <1>2. stack[i] \in Frames
    BY <1>1, StackFacts
  <1> QED
    BY <1>1, <1>2, FrameFields DEF Over

LEMMA GiveKeeps ==
    ASSUME Inv, Give
    PROVE  Inv'
  <1> DEFINE caller == stack[2]
             k == IF caller.kind = "read" THEN "read" ELSE "assign"
             g == [caller EXCEPT !.tp = Top.tp, !.at = k]
  <1>1. /\ At("give")
        /\ UNCHANGED <<node, malloced, tptop, tpmin, tpfree, state, left, kernel, timeout, clock, adds, fired, odd>>
    BY DEF Give, lists, rest
  <1>2. /\ stack # <<>> /\ Top.at = "give" /\ Top \in Range(stack) /\ Top \in Frames
        /\ \A S : AtTop(S) <=> "give" \in S
    BY <1>1, AtIs
  <1>3. /\ timeout \in [Statics -> Ptr] /\ adds \in 0 .. MaxAdds /\ adds \in Nat
    BY NodeFacts DEF Inv
  <1>4. /\ stack \in Seq(Frames) /\ Len(stack) \in Nat /\ 1 < Len(stack) /\ Calls(Top, caller)
        /\ 2 \in 1 .. Len(stack) /\ caller \in Range(stack)
    <2>1. stack \in Seq(Frames) /\ Len(stack) \in Nat /\ 1 \in 1 .. Len(stack)
      BY <1>2, StackFacts
    <2>2. 1 < Len(stack) /\ Calls(stack[1], stack[1 + 1])
      BY <2>1, <1>2, StackFacts DEF Framed, Top, InAdd
    <2>3. 2 \in 1 .. Len(stack)
      BY <2>1, <2>2
    <2> QED
      BY <2>1, <2>2, <2>3, StackFacts DEF Top
  <1>5. caller \in Frames /\ Fits(caller, adds, base)
    BY <1>4, StackFacts
  <1>6. Tail(Tail(stack)) = Rest(stack, 2) /\ 2 \in 0 .. Len(stack)
    BY <1>4, TailTail
  <1> HIDE DEF g
  <1>7. /\ ~AtTop(InAlarm \cup InDel \cup Adding \cup {"end"})
        /\ timeout' \in [Statics -> Ptr] /\ adds' \in 0 .. MaxAdds /\ adds <= adds'
    BY <1>1, <1>2, <1>3 DEF InAlarm, InDel, Adding, Filling
  <1>8. CASE caller.at = "top"
    <2>1. stack' = Rest(stack, 1)
      <3>1. stack' = Tail(stack)
        BY <1>8 DEF Give
      <3> QED
        BY <1>2, <3>1, TopForms
    <2>2. /\ Framed(stack, adds, base)' /\ Range(stack') \subseteq Range(stack)
          /\ stack' # <<>> => Top' = caller
      BY <1>1, <1>2, <2>1, PopTop DEF kernel
    <2>3. \A f \in Range(stack') : CalmFrame(f)
      BY <1>1, <2>2 DEF CalmFrame
    <2>4. ~AtTop(InAlarm \cup InDel \cup {"link"})' /\ ~AtTop(Filling)'
      BY <2>2, <1>8 DEF AtTop, InAlarm, InDel, Filling
    <2> QED
      BY <1>1, <1>7, <2>2, <2>3, <2>4, CalmInv, FewerSame
  <1>9. CASE caller.at = "adding" /\ caller.kind = "touch"
    <2>1. stack' = Rest(stack, 2)
      BY <1>6, <1>9 DEF Give
    <2>2. /\ Framed(stack, adds, base)' /\ Range(stack') \subseteq Range(stack)
          /\ stack' # <<>> => 2 < Len(stack) /\ Top' = stack[2 + 1]
      BY <1>1, <1>6, <2>1, NoNewTop DEF kernel
    <2>3. \A f \in Range(stack') : CalmFrame(f)
      BY <1>1, <2>2 DEF CalmFrame
    <2>4. stack' # <<>> => Top'.at \in {"read", "wait"}
      <3> SUFFICES ASSUME stack' # <<>>
                   PROVE  Top'.at \in {"read", "wait"}
        OBVIOUS
      <3>1. 2 + 1 \in 1 .. Len(stack) /\ 2 < 2 + 1
        BY <2>2, <1>4
      <3> QED
        BY <3>1, <1>4, <1>9, <2>2, BelowUser DEF InUser
    <2>5. ~AtTop(InAlarm \cup InDel \cup {"link"})' /\ ~AtTop(Filling)'
      BY <2>4 DEF AtTop, InAlarm, InDel, Filling
    <2> QED
      BY <1>1, <1>7, <2>2, <2>3, <2>5, CalmInv, FewerSame
  <1>10. CASE caller.at = "adding" /\ caller.kind # "touch"
    <2>1. stack' = <<g>> \o Rest(stack, 2)
      BY <1>6, <1>10 DEF Give, g
    <2>2. /\ g \in Frames /\ g.at = k /\ g.tp = Top.tp /\ g.kind = caller.kind /\ g.d = caller.d /\ g.id = caller.id
      <3>1. PICK c, t, a : c = caller /\ t = Top.tp /\ a = k
        OBVIOUS
      <3>2. c \in Frames /\ t \in Ptr /\ a \in InUser
        BY <1>2, <1>5, <3>1, FrameFields DEF InUser
      <3>3. g = [c EXCEPT !.tp = t, !.at = a]
        BY <3>1 DEF g
      <3>4. g \in Frames /\ g.at = a /\ g.tp = t /\ g.kind = c.kind /\ g.d = c.d /\ g.id = c.id
        BY <3>2, <3>3 DEF Frames
      <3> QED
        BY <3>1, <3>4
    <2>3. Fits(g, adds, base) /\ g.at \in InUser /\ g.at \in {"read", "assign"}
      <3>1. caller.kind \in Clients /\ caller.id \in 1 .. adds
        BY <1>5, <1>10 DEF Fits, InUser
      <3>2. caller.kind = "read" \/ caller.kind \in Statics
        BY <3>1, <1>10 DEF Clients
      <3> QED
        BY <2>2, <3>1, <3>2 DEF Fits, InUser, InAdd
    <2>4. \A i \in 2 + 1 .. Len(stack) : Over(g, stack[i])
      <3> SUFFICES ASSUME NEW i \in 2 + 1 .. Len(stack)
                   PROVE  Over(g, stack[i])
        OBVIOUS
      <3>1. i \in 1 .. Len(stack) /\ 2 < i
        BY <1>4
      <3>2. Over(caller, stack[i]) /\ stack[i] \in Frames
        BY <3>1, <1>4, StackFacts DEF Framed
      <3>3. Instead(g, caller)
        BY <2>2, <2>3, <1>10 DEF Instead, Level, InAlarm, InAdd, InDel, InUser
      <3> QED
        BY <3>2, <3>3, <1>5, <2>2, InsteadOver
    <2>5. g.at \notin InAdd /\ adds' = adds /\ adds' \in Nat /\ base' = base
      BY <1>1, <1>3, <2>3 DEF InAdd, InUser, kernel
    <2>6. /\ Framed(stack, adds, base)' /\ stack' # <<>> /\ Top' = g
          /\ Range(stack') \subseteq Range(stack) \cup {g}
      BY <1>6, <2>1, <2>3, <2>4, <2>5, <1>3, NewTop
    <2>7. HandleOf(g)
      <3>1. Top.kind # "old" /\ g.id = Top.id
        BY <1>4, <1>10, <2>2 DEF Calls
      <3> QED
        BY <3>1, <2>2, <1>2 DEF Inv, Handles, HandleOf
    <2>8. \A f \in Range(stack') : CalmFrame(f)
      BY <1>1, <2>3, <2>5, <2>6, <2>7 DEF CalmFrame, InAdd, InUser
    <2>9. ~AtTop(InAlarm \cup InDel \cup {"link"})' /\ ~AtTop(Filling)'
      BY <2>3, <2>6 DEF AtTop, InAlarm, InDel, Filling
    <2> QED
      BY <1>1, <1>7, <2>6, <2>8, <2>9, CalmInv, FewerSame
  <1> QED
    BY <1>4, <1>8, <1>9, <1>10 DEF Calls

LEMMA StartKeeps ==
    ASSUME Inv, NEW kind \in Users, Start(kind)
    PROVE  Inv'
  <1>0. PICK id, f, g : /\ id = adds + 1
                        /\ f = AddFrame(kind, Delay[kind], id)
                        /\ g = Frame("adding", Nil, kind, Delay[kind], id)
    OBVIOUS
  <1>1. /\ Idle \/ Reading
        /\ adds + (IF alarm > 0 /\ handler = "fault" THEN 1 ELSE 0) < MaxAdds
        /\ adds' = id /\ stack' = <<f, g>> \o stack
        /\ UNCHANGED <<node, malloced, tptop, tpmin, tpfree, state, left, kernel, timeout, clock, fired, odd>>
    BY <1>0 DEF Start, MayStart, lists
  <1>2. /\ timeout \in [Statics -> Ptr] /\ adds \in Nat /\ MaxAdds \in Nat /\ malloced \in Nat
    BY NodeFacts, Consts DEF Inv
  <1>3. /\ kind \in Clients /\ Delay[kind] \in Nat /\ Delay[kind] > 0 /\ kind # "old"
    BY ConstantsAssumption DEF Clients, Statics
  <1>4. /\ f.at = "take" /\ f.tp = Nil /\ f.kind = kind /\ f.d = Delay[kind] /\ f.id = id
        /\ g.at = "adding" /\ g.tp = Nil /\ g.kind = kind /\ g.d = Delay[kind] /\ g.id = id
    BY <1>0 DEF AddFrame, Frame
  <1>5. id \in 1 .. id /\ id \in 0 .. MaxAdds /\ adds <= id /\ adds < id /\ id \in Nat
    BY <1>0, <1>1, <1>2
  <1>6. f \in Frames /\ g \in Frames
    BY <1>0, <1>3, <1>5 DEF Frames, AddFrame, Frame, Ptr, InAdd, InUser
  <1>7. Fits(f, adds', base) /\ Fits(g, adds', base)
    BY <1>1, <1>3, <1>4, <1>5, <1>6 DEF Fits, InAdd, InUser
  <1>8. /\ stack \in Seq(Frames) /\ Len(stack) \in Nat /\ stack' = <<f, g>> \o Rest(stack, 0)
        /\ 0 \in 0 .. Len(stack)
    BY <1>1, StackFacts DEF Rest
  <1>9. \A h \in Range(stack) : h.at \in {"read", "wait"} /\ h.id < id /\ Level(h) = 3
    <2> SUFFICES ASSUME NEW h \in Range(stack)
                 PROVE  h.at \in {"read", "wait"} /\ h.id < id /\ Level(h) = 3
      OBVIOUS
    <2>1. stack # <<>> /\ h \in Frames /\ Fits(h, adds, base) /\ (h = Top \/ Over(Top, h))
      BY StackFacts
    <2>2. Top.at \in {"read", "wait"} /\ Top \in Frames
      BY <1>1, <2>1, StackFacts DEF Reading, Idle, At
    <2>3. h.at \in {"read", "wait"}
      BY <2>1, <2>2, FrameFields DEF Over, InUser
    <2>4. h.id \in 1 .. adds
      BY <2>1, <2>3 DEF Fits, InUser
    <2> QED
      BY <2>1, <2>3, <2>4, <1>2, <1>0, FrameFields DEF InUser
  <1>10. Over(f, g) /\ \A h \in Range(stack) : Over(f, h) /\ Over(g, h)
    BY <1>4, <1>6, <1>9, FrameFields DEF Over, InAlarm, InAdd, InDel, InUser, Filling
  <1>11. Calls(f, g) /\ g.at \notin InAdd
    BY <1>3, <1>4 DEF Calls, InAdd
  <1>12. \A i \in 0 + 1 .. Len(stack) : Over(f, stack[i]) /\ Over(g, stack[i])
    <2>1. \A i \in 0 + 1 .. Len(stack) : i \in 1 .. Len(stack)
      BY <1>8
    <2> QED
      BY <2>1, <1>10, StackFacts
  <1>13. adds' \in Nat /\ adds <= adds' /\ adds < adds' /\ base' = base /\ adds' \in 0 .. MaxAdds
    BY <1>1, <1>5 DEF kernel
  <1>14. /\ Framed(stack, adds, base)' /\ stack' # <<>> /\ Top' = f
         /\ Range(stack') \subseteq Range(stack) \cup {f, g}
    <2>1. /\ f.at \in InAdd => Calls(f, g)
          /\ g.at \in InAdd => 0 < Len(stack) /\ Calls(g, stack[0 + 1])
      BY <1>11
    <2>2. /\ adds' \in Nat /\ adds <= adds' /\ base' = base /\ Over(f, g)
          /\ stack' = <<f, g>> \o Rest(stack, 0) /\ 0 \in 0 .. Len(stack)
      BY <1>8, <1>10, <1>13
    <2> QED
      BY <1>7, <1>12, <2>1, <2>2, TwoTops
  <1>15. Numbered(f)'
    <2>1. malloced <= adds /\ (id \in 1 .. MaxAdds => fired[id] = 0)
      BY <1>1, <1>2, <1>5 DEF Inv, Counted
    <2>2. malloced' < adds' /\ f.id = adds' /\ fired'[f.id] = 0
      BY <2>1, <1>1, <1>2, <1>4, <1>5
    <2>3. alarm' > 0 /\ handler' = "fault" => adds' < MaxAdds
      BY <1>0, <1>1, <1>2 DEF kernel
    <2> QED
      BY <2>2, <2>3 DEF Numbered
  <1>16. \A h \in Range(stack') : CalmFrame(h)
    BY <1>4, <1>9, <1>13, <1>14, <1>15 DEF CalmFrame, InAdd, InUser
  <1>17. /\ ~AtTop(InAlarm \cup InDel \cup Adding \cup {"end"})
         /\ ~AtTop(InAlarm \cup InDel \cup {"link"})' /\ (AtTop(Filling)' => Top'.kind # "old")
    <2>1. AtTop(InAlarm \cup InDel \cup Adding \cup {"end"}) => stack # <<>> /\ Top \in Range(stack)
      BY StackFacts DEF AtTop
    <2> QED
      BY <2>1, <1>3, <1>4, <1>9, <1>14 DEF AtTop, InAlarm, InDel, Adding, Filling
  <1> QED
    BY <1>1, <1>2, <1>13, <1>14, <1>16, <1>17, CalmInv, FewerSame

\* A user of timers is left.
LEMMA UserReturn ==
    ASSUME Inv, stack # <<>>, Top.at \in InUser, stack' = Tail(stack), adds' = adds, base' = base
    PROVE  /\ Framed(stack, adds, base)' /\ Range(stack') \subseteq Range(stack)
           /\ stack' # <<>> => Top'.at \in {"read", "wait"}
           /\ ~AtTop(InAlarm \cup InDel \cup Adding \cup {"end"})
           /\ ~AtTop(InAlarm \cup InDel \cup {"link"})' /\ ~AtTop(Filling)'
  <1>1. stack' = Rest(stack, 1)
    BY TopForms
  <1>2. /\ Framed(stack, adds, base)' /\ Range(stack') \subseteq Range(stack)
        /\ stack' # <<>> => Over(Top, Top')
    BY <1>1, PopTop
  <1>3. Top \in Frames
    BY StackFacts
  <1>4. stack' # <<>> => Top'.at \in {"read", "wait"}
    BY <1>2, <1>3, FrameFields DEF Over
  <1>5. ~AtTop(InAlarm \cup InDel \cup Adding \cup {"end"})
    BY DEF AtTop, InAlarm, InDel, Adding, Filling, InUser
  <1>6. ~AtTop(InAlarm \cup InDel \cup {"link"})' /\ ~AtTop(Filling)'
    BY <1>4 DEF AtTop, InAlarm, InDel, Adding, Filling
  <1> QED
    BY <1>2, <1>4, <1>5, <1>6

\* A user of timers goes on.
LEMMA UserStep ==
    ASSUME Inv, stack # <<>>, Top.at \in InUser, NEW a \in InUser \ {"read"},
           \/ GoTo(a)
           \/ \E p \in Ptr : GoToWith(a, p),
           a \in {"assign", "wait", "pause", "del"} => Top.kind \in Statics,
           UNCHANGED <<node, malloced, tptop, tpmin, tpfree, state, left, kernel, clock, adds, fired, odd>>,
           timeout' \in [Statics -> Ptr]
    PROVE  Inv'
  <1>1. SameCode(Top.at, a) /\ a # "top" /\ adds' = adds /\ base' = base
    BY DEF SameCode, kernel, InUser
  <1>2. a \in InAlarm \cup InAdd \cup InDel \cup InUser
    OBVIOUS
  <1>3. /\ Framed(stack, adds, base)' /\ stack' # <<>> /\ Top'.at = a
        /\ Range(stack') \subseteq Range(stack) \cup {Top'}
    <2>1. CASE GoTo(a)
      BY <1>1, <1>2, <2>1, GoToIs
    <2>2. CASE \E p \in Ptr : GoToWith(a, p)
      BY <1>1, <1>2, <2>2, GoToWithIs
    <2> QED
      BY <2>1, <2>2
  <1>4. \A f \in Range(stack') : CalmFrame(f)
    BY <1>1, <1>3 DEF CalmFrame, InAdd, InUser
  <1>5. /\ ~AtTop(InAlarm \cup InDel \cup Adding \cup {"end"})
        /\ ~AtTop(InAlarm \cup InDel \cup {"link"})' /\ ~AtTop(Filling)'
    BY <1>3 DEF AtTop, InAlarm, InDel, Adding, Filling, InUser
  <1>6. adds \in 0 .. MaxAdds /\ adds <= adds'
    BY <1>1, NodeFacts DEF Inv
  <1> QED
    BY <1>1, <1>3, <1>4, <1>5, <1>6, CalmInv, FewerSame

LEMMA UserLeaves ==
    ASSUME Inv, stack # <<>>, Top.at \in InUser, Return, Fewer,
           UNCHANGED <<malloced, tptop, tpmin, tpfree, state, left, kernel, clock, adds, fired, odd>>,
           timeout' \in [Statics -> Ptr]
    PROVE  Inv'
  <1>1. adds' = adds /\ base' = base /\ stack' = Tail(stack)
    BY DEF kernel, Return
  <1>2. /\ Framed(stack, adds, base)' /\ Range(stack') \subseteq Range(stack)
        /\ ~AtTop(InAlarm \cup InDel \cup Adding \cup {"end"})
        /\ ~AtTop(InAlarm \cup InDel \cup {"link"})' /\ ~AtTop(Filling)'
    BY <1>1, UserReturn
  <1>3. \A f \in Range(stack') : CalmFrame(f)
    BY <1>1, <1>2 DEF CalmFrame
  <1>4. adds \in 0 .. MaxAdds /\ adds <= adds'
    BY <1>1, NodeFacts DEF Inv
  <1> QED
    BY <1>1, <1>2, <1>3, <1>4, CalmInv

LEMMA AssignKeeps ==
    ASSUME Inv, Assign
    PROVE  Inv'
  <1>1. /\ At("assign") /\ GoTo("wait") /\ timeout' = [timeout EXCEPT ![Top.kind] = Top.tp]
        /\ UNCHANGED <<node, malloced, tptop, tpmin, tpfree, state, left, kernel, clock, adds, fired, odd>>
    BY DEF Assign, lists
  <1>2. stack # <<>> /\ Top.at = "assign" /\ Top \in Frames /\ Top.kind \in Statics
    BY <1>1, AtIs DEF Fits
  <1>3. timeout' \in [Statics -> Ptr]
    BY <1>1, <1>2, NodeFacts, FrameFields DEF Inv
  <1> QED
    BY <1>1, <1>2, <1>3, UserStep DEF InUser

LEMMA ReadEndsKeeps ==
    ASSUME Inv, ReadEnds
    PROVE  Inv'
  <1>1. PICK tty \in BOOLEAN :
          LET h == IF tty THEN timeout["grace"] ELSE Nil IN
          /\ node' = [n \in Nodes |-> IF n \in {Top.tp, h} THEN [node[n] EXCEPT !.action = "none"]
                                      ELSE node[n]]
          /\ timeout' = IF tty THEN [timeout EXCEPT !["grace"] = Nil] ELSE timeout
    BY DEF ReadEnds
  <1>2. /\ At("read") /\ Return
        /\ UNCHANGED <<malloced, tptop, tpmin, tpfree, state, left, kernel, clock, adds, fired, odd>>
    BY DEF ReadEnds
  <1>3. stack # <<>> /\ Top.at \in InUser
    BY <1>2, AtIs DEF InUser
  <1> DEFINE D == {n \in Nodes : n \in {Top.tp, IF tty THEN timeout["grace"] ELSE Nil}}
  <1>4. node' = [n \in Nodes |-> IF n \in D THEN [node[n] EXCEPT !.action = "none"] ELSE node[n]]
    BY <1>1
  <1>5. Fewer
    <2>1. D \in SUBSET Nodes
      OBVIOUS
    <2> HIDE DEF D
    <2> QED
      BY <2>1, <1>4, FewerDeleted
  <1>6. timeout' \in [Statics -> Ptr]
    BY <1>1, NodeFacts DEF Inv, Ptr
  <1> QED
    BY <1>2, <1>3, <1>5, <1>6, UserLeaves

LEMMA WaitEndsKeeps ==
    ASSUME Inv, WaitEnds
    PROVE  Inv'
  <1>1. /\ At("wait")
        /\ UNCHANGED <<node, malloced, tptop, tpmin, tpfree, state, left, kernel, timeout, clock, adds, fired, odd>>
    BY DEF WaitEnds, lists, rest
  <1>2. stack # <<>> /\ Top.at = "wait" /\ Top.at \in InUser /\ Top.kind \in Statics
    BY <1>1, AtIs DEF Fits, InUser
  <1>3. timeout \in [Statics -> Ptr] /\ timeout[Top.kind] \in Ptr
    BY <1>2, NodeFacts DEF Inv
  <1>4. CASE Return
    BY <1>1, <1>2, <1>3, <1>4, UserLeaves, FewerSame
  <1>5. CASE GoToWith("del", timeout[Top.kind])
    BY <1>1, <1>2, <1>3, <1>5, UserStep DEF InUser
  <1>6. CASE GoTo("pause")
    BY <1>1, <1>2, <1>3, <1>6, UserStep DEF InUser
  <1> QED
    BY <1>4, <1>5, <1>6 DEF WaitEnds

LEMMA ResumeKeeps ==
    ASSUME Inv, Resume
    PROVE  Inv'
  <1>1. /\ At("pause") /\ GoToWith("del", timeout[Top.kind])
        /\ UNCHANGED <<node, malloced, tptop, tpmin, tpfree, state, left, kernel, timeout, clock, adds, fired, odd>>
    BY DEF Resume, lists, rest
  <1>2. stack # <<>> /\ Top.at = "pause" /\ Top.at \in InUser /\ Top.kind \in Statics
    BY <1>1, AtIs DEF Fits, InUser
  <1>3. timeout \in [Statics -> Ptr] /\ timeout[Top.kind] \in Ptr
    BY <1>2, NodeFacts DEF Inv
  <1> QED
    BY <1>1, <1>2, <1>3, UserStep DEF InUser

LEMMA AbandonKeeps ==
    ASSUME Inv, Abandon
    PROVE  Inv'
  <1>1. /\ At("read") /\ Return
        /\ UNCHANGED <<node, malloced, tptop, tpmin, tpfree, state, left, kernel, timeout, clock, adds, fired, odd>>
    BY DEF Abandon, lists, rest
  <1>2. stack # <<>> /\ Top.at \in InUser
    BY <1>1, AtIs DEF InUser
  <1>3. timeout \in [Statics -> Ptr]
    BY NodeFacts DEF Inv
  <1> QED
    BY <1>1, <1>2, <1>3, UserLeaves, FewerSame

\* The active cells are on the list while no timer is being linked.
LEMMA ActiveListed ==
    ASSUME Inv, NEW T, NEW F, NEW r, NEW high, Lists(T, F, r, high), ~AtTop({"link"}), NEW n \in Nodes, Active(n)
    PROVE  n \in T
  BY DEF Lists, Linking

\* sh_timerdel(NULL) begins.
LEMMA WalkStarts ==
    ASSUME Inv, ~AtTop(InAlarm \cup InDel \cup Adding \cup {"end"}),
           NEW f, f = WalkFrame, Framed(stack, adds, base)', stack' # <<>>, Top' = f,
           Range(stack') \subseteq Range(stack) \cup {f}, timeout' \in [Statics -> Ptr],
           UNCHANGED <<node, malloced, tptop, tpmin, tpfree, state, left, base, handler, clock, adds, fired, odd>>,
           \/ alarm' = alarm /\ pending' = pending
           \/ alarm' = 0 /\ pending' = FALSE
    PROVE  Inv'
  <1>1. f.at = "walk" /\ f.tp = tptop /\ f.kind = "none"
    BY DEF WalkFrame, Frame
  <1>2. /\ \A n \in Nodes : node[n].id \in 0 .. MaxAdds
        /\ adds \in 0 .. MaxAdds /\ adds \in Nat /\ alarm \in Nat /\ TypeOK
    BY NodeFacts DEF Inv
  <1>3. Fewer
    BY FewerSame
  <1>4. /\ ~AtTop(InAlarm) /\ ~AtTop(InDel) /\ ~AtTop({"walk"}) /\ ~AtTop({"giveup"}) /\ ~AtTop({"link"})
        /\ ~AtTop({"link", "end"}) /\ ~AtTop(Filling) /\ ~AtTop(InAlarm \cup Adding \cup {"end"})
    BY DEF AtTop, InDel, Adding
  <1>5. /\ AtTop({"walk"})' /\ ~AtTop(InAlarm)' /\ ~AtTop({"link"})' /\ ~AtTop({"act"})' /\ ~AtTop({"break"})'
        /\ ~AtTop({"end"})' /\ AtTop(InAlarm \cup InDel)' /\ ~AtTop(InAlarm \cup {"link"})' /\ ~AtTop(Filling)'
    BY <1>1 DEF AtTop, InDel, InAlarm, Filling
  <1>6. TypeOK' /\ (odd \subseteq {"lost", "slow"})'
    <2>1. alarm' \in Nat /\ (alarm' # 0 => alarm' > clock')
      BY <1>2, NodeFacts
    <2>2. pending \in BOOLEAN
      BY <1>2, NodeFacts
    <2>3. pending' \in BOOLEAN
      BY <2>2, Zenon
    <2> QED
      BY <2>1, <2>3 DEF Inv, TypeOK
  <1>7. Bits'
    BY <1>4, <1>5, BitsKept
  <1>8. Counted'
    <2>1. alarm' > 0 => alarm > 0
      BY <1>2
    <2> QED
      BY <1>1, <1>2, <2>1, CountedKept DEF InAdd
  <1>9. Sound'
    <2>1. \A h \in Range(stack') : Harmless(h)
      BY <1>1 DEF Harmless
    <2>2. \A n \in Nodes : ~Linking(n)
      BY <1>4 DEF Linking
    <2> QED
      BY <1>2, <1>3, <1>4, <2>1, <2>2, SoundKept DEF Lost
  <1>10. Handles'
    BY <1>1, <1>3, HandlesKept
  <1>11. Intervals'
    BY DEF Inv, Intervals, Active
  <1>12. Given' /\ MinAlarm'
    BY DEF Inv, Given, MinAlarm, Slow
  <1>13. InHandler' /\ AtAct' /\ AtBreak' /\ AtLink' /\ Outside'
    BY <1>5 DEF InHandler, AtAct, AtBreak, AtLink, Outside
  <1>14. AtWalk'
    <2>1. ASSUME ~Lost, NEW n \in Nodes, Active(n)
          PROVE  tptop # Nil /\ node[n].id <= node[tptop].id
      <3>1. PICK T \in SUBSET Nodes, F \in SUBSET Nodes, r \in [Nodes -> Nat], high \in Nat : Lists(T, F, r, high)
        BY DEF Inv, Sound
      <3>2. n \in T
        BY <2>1, <3>1, <1>4, ActiveListed
      <3>3. (tptop = Nil => T = {}) /\ (tptop # Nil => \A m \in T : node[m].id <= node[tptop].id)
        BY <3>1, <1>2, ListsFacts
      <3> QED
        BY <3>2, <3>3
    <2> SUFFICES ASSUME NEW h \in Range(stack')
                 PROVE  /\ h.at = "walk" /\ ~Lost =>
                              \A n \in Nodes : Active(n) => h.tp # Nil /\ node[n].id <= node[h.tp].id
                        /\ h.at = "giveup" /\ ~Lost => tpmin = Nil /\ \A n \in Nodes : ~Active(n)
                        /\ h.at = "giveup" /\ base = "dfl" => Slow
      BY <1>5 DEF AtWalk, Lost, Slow, Active
    <2>2. CASE h = f
      BY <1>1, <2>1, <2>2
    <2>3. CASE h \in Range(stack)
      BY <2>3, <1>4 DEF Inv, AtWalk
    <2> QED
      BY <2>2, <2>3
  <1> QED
    BY <1>6, <1>7, <1>8, <1>9, <1>10, <1>11, <1>12, <1>13, <1>14 DEF Inv

LEMMA WalkFrameFits ==
    ASSUME Inv, NEW f, f = WalkFrame
    PROVE  /\ f \in Frames /\ Fits(f, adds, base) /\ f.at \notin InAdd
           /\ \A h \in Frames : h.at \in {"read", "wait"} => Over(f, h)
  <1>1. f.at = "walk" /\ f.tp = tptop /\ f.kind = "none" /\ f.d = 0 /\ f.id = 0
    BY DEF WalkFrame, Frame
  <1>2. tptop \in Ptr /\ MaxAdds \in Nat
    BY NodeFacts, Consts DEF Inv
  <1>3. f \in Frames
    BY <1>2 DEF WalkFrame, Frame, Frames, InDel
  <1> QED
    BY <1>1, <1>3, FrameFields DEF Fits, InAdd, InUser, InDel, Over, Level, InAlarm

LEMMA DeleteStaticKeeps ==
    ASSUME Inv, DeleteStatic
    PROVE  Inv'
  <1>1. /\ At("del") /\ timeout' = [timeout EXCEPT ![Top.kind] = Nil]
        /\ UNCHANGED <<malloced, tptop, tpmin, tpfree, state, left, kernel, clock, adds, fired, odd>>
    BY DEF DeleteStatic
  <1>2. stack # <<>> /\ Top.at = "del" /\ Top.at \in InUser /\ Top.kind \in Statics /\ Top \in Frames
    BY <1>1, AtIs DEF Fits, InUser
  <1>3. timeout \in [Statics -> Ptr] /\ timeout[Top.kind] \in Ptr /\ Top.tp \in Ptr /\ adds \in Nat
    BY <1>2, NodeFacts, FrameFields DEF Inv
  <1>4. timeout' \in [Statics -> Ptr]
    BY <1>1, <1>2, <1>3 DEF Ptr
  <1>5. ~AtTop(InAlarm \cup InDel \cup Adding \cup {"end"})
    BY <1>2 DEF AtTop, InAlarm, InDel, Adding, Filling
  <1>6. PICK h \in {Top.tp, timeout[Top.kind]} :
          IF h = Nil
          THEN stack' = <<WalkFrame>> \o Tail(stack) /\ UNCHANGED node
          ELSE Delete(h) /\ Return
    BY DEF DeleteStatic
  <1>7. CASE h = Nil
    <2>1. PICK f : f = WalkFrame
      OBVIOUS
    <2>2. /\ f \in Frames /\ Fits(f, adds, base) /\ f.at \notin InAdd
          /\ \A g \in Frames : g.at \in {"read", "wait"} => Over(f, g)
      BY <2>1, WalkFrameFits
    <2>3. \A g \in Range(stack) : Over(Top, g) => Over(f, g)
      <3> SUFFICES ASSUME NEW g \in Range(stack), Over(Top, g)
                   PROVE  g \in Frames /\ g.at \in {"read", "wait"}
        BY <2>2
      <3> QED
        BY <1>2, StackFacts, FrameFields DEF Over
    <2>4. stack' = <<f>> \o Rest(stack, 1)
      <3>1. stack' = <<f>> \o Tail(stack)
        BY <1>6, <1>7, <2>1
      <3> QED
        BY <1>2, <3>1, TopForms
    <2>5. adds' \in Nat /\ adds <= adds' /\ base' = base /\ Fits(f, adds', base)
      BY <1>1, <1>3, <2>2 DEF kernel
    <2>6. /\ Framed(stack, adds, base)' /\ stack' # <<>> /\ Top' = f
          /\ Range(stack') \subseteq Range(stack) \cup {f}
      BY <1>2, <2>2, <2>3, <2>4, <2>5, SetTop
    <2>7. /\ UNCHANGED <<node, malloced, tptop, tpmin, tpfree, state, left, base, handler, clock, adds, fired, odd>>
          /\ alarm' = alarm /\ pending' = pending
      BY <1>1, <1>6, <1>7 DEF kernel
    <2> QED
      BY <1>4, <1>5, <2>1, <2>6, <2>7, WalkStarts
  <1>8. CASE h # Nil
    <2>1. h \in Nodes /\ Delete(h) /\ Return
      BY <1>3, <1>6, <1>8 DEF Ptr
    <2> DEFINE D == {h}
    <2>2. node' = [n \in Nodes |-> IF n \in D THEN [node[n] EXCEPT !.action = "none"] ELSE node[n]]
      BY <2>1, NodeFacts DEF Inv, Delete
    <2>3. Fewer
      <3>1. D \in SUBSET Nodes
        BY <2>1
      <3> HIDE DEF D
      <3> QED
        BY <2>2, <3>1, FewerDeleted
    <2> QED
      BY <1>1, <1>2, <1>4, <2>1, <2>3, UserLeaves
  <1> QED
    BY <1>7, <1>8

\* A stack of one frame.
LEMMA OneFrame ==
    ASSUME Inv, NEW f, f = WalkFrame, stack' = <<f>>, adds' = adds, base' = base
    PROVE  /\ Framed(stack, adds, base)' /\ stack' # <<>> /\ Top' = f
           /\ Range(stack') \subseteq Range(stack) \cup {f}
  <1>1. /\ f \in Frames /\ Fits(f, adds, base) /\ f.at \notin InAdd
    BY WalkFrameFits
  <1>2. stack \in Seq(Frames) /\ Len(stack) \in Nat /\ adds \in Nat /\ Len(stack) \in 0 .. Len(stack)
    BY StackFacts
  <1>3. Rest(stack, Len(stack)) = <<>>
    BY <1>2, SubSeqEmpty DEF Rest
  <1>4. <<f>> \o <<>> = <<f>>
    <2>1. <<f>> \in Seq(Frames)
      BY <1>1
    <2> QED
      BY <2>1, ConcatEmptySeq
  <1>5. stack' = <<f>> \o Rest(stack, Len(stack))
    BY <1>3, <1>4
  <1>6. \A i \in Len(stack) + 1 .. Len(stack) : Over(f, stack[i])
    BY <1>2
  <1>7. adds' \in Nat /\ adds <= adds' /\ Fits(f, adds', base)
    BY <1>1, <1>2
  <1> QED
    BY <1>1, <1>2, <1>5, <1>6, <1>7, NewTop

LEMMA ForkChildKeeps ==
    ASSUME Inv, ForkChild
    PROVE  Inv'
  <1>1. /\ Idle \/ Reading
        /\ alarm' = 0 /\ pending' = FALSE /\ stack' = <<WalkFrame>>
        /\ UNCHANGED <<node, malloced, tptop, tpmin, tpfree, state, left, base, handler, timeout, clock, adds, fired, odd>>
    BY DEF ForkChild, lists, rest
  <1>2. ~AtTop(InAlarm \cup InDel \cup Adding \cup {"end"})
    BY <1>1 DEF Idle, Reading, At, AtTop, InAlarm, InDel, Adding, Filling
  <1>3. PICK f : f = WalkFrame
    OBVIOUS
  <1>4. /\ Framed(stack, adds, base)' /\ stack' # <<>> /\ Top' = f
        /\ Range(stack') \subseteq Range(stack) \cup {f}
    BY <1>1, <1>3, OneFrame
  <1>5. timeout \in [Statics -> Ptr]
    BY NodeFacts DEF Inv
  <1> QED
    BY <1>1, <1>2, <1>3, <1>4, <1>5, WalkStarts

LEMMA ExecKeeps ==
    ASSUME Inv, Exec
    PROVE  Inv'
  <1>1. /\ Idle /\ stack' = <<WalkFrame>>
        /\ UNCHANGED <<node, malloced, tptop, tpmin, tpfree, state, left, base, handler, alarm, pending, timeout, clock, adds, fired, odd>>
    BY DEF Exec, lists, rest, kernel
  <1>2. ~AtTop(InAlarm \cup InDel \cup Adding \cup {"end"})
    BY <1>1 DEF Idle, AtTop
  <1>3. PICK f : f = WalkFrame
    OBVIOUS
  <1>4. /\ Framed(stack, adds, base)' /\ stack' # <<>> /\ Top' = f
        /\ Range(stack') \subseteq Range(stack) \cup {f}
    BY <1>1, <1>3, OneFrame
  <1>5. timeout \in [Statics -> Ptr]
    BY NodeFacts DEF Inv
  <1> QED
    BY <1>1, <1>2, <1>3, <1>4, <1>5, WalkStarts

----------------------------------------------------------------------------
(* sh_timerdel(NULL)                                                       *)

\* What is below the running frame, in terms of any stack.
LEMMA FramedTop ==
    ASSUME NEW n \in Nat, NEW b, NEW s, Framed(s, n, b), NEW f \in Range(s)
    PROVE  /\ f \in Frames /\ Fits(f, n, b) /\ s # <<>> /\ s[1] \in Frames
           /\ f = s[1] \/ Over(s[1], f)
           /\ s[1].at \in InDel => f = s[1] \/ f.at \in {"read", "wait"}
           /\ s[1].at \in InAdd => f = s[1] \/ f.at \in {"top"} \cup InUser
           /\ s[1].at \in InAdd /\ s[1].kind # "old" => f = s[1] \/ f.at \in InUser
           /\ s[1].at \in InUser => f.at \in InUser
  <1>1. /\ s \in Seq(Frames) /\ Len(s) \in Nat
        /\ \A i \in 1 .. Len(s) : /\ s[i] \in Frames /\ Fits(s[i], n, b)
                                  /\ i > 1 => Over(s[1], s[i])
        /\ s # <<>> => 1 \in 1 .. Len(s) /\ Len(s) > 0
    BY FrameFacts
  <1>2. PICK i \in 1 .. Len(s) : s[i] = f
    BY <1>1, RangeIs
  <1>3. s # <<>> /\ (i = 1 \/ i > 1)
    BY <1>1
  <1>4. /\ f \in Frames /\ Fits(f, n, b) /\ s[1] \in Frames
        /\ f = s[1] \/ Over(s[1], f)
    BY <1>1, <1>2, <1>3
  <1>5. ASSUME Over(s[1], f)
        PROVE  /\ s[1].at \in InDel => f.at \in {"read", "wait"}
               /\ s[1].at \in InAdd => f.at \in {"top"} \cup InUser
               /\ s[1].at \in InAdd /\ s[1].kind # "old" => f.at \in InUser
               /\ s[1].at \in InUser => f.at \in InUser
    BY <1>4, <1>5, FrameFields DEF Over
  <1> QED
    BY <1>3, <1>4, <1>5

LEMMA DelKeeps ==
    ASSUME Inv, Fewer, stack # <<>>, Top.at \in InDel, Framed(stack, adds, base)', stack' # <<>>,
           Top'.at \in InDel, Range(stack') \subseteq Range(stack) \cup {Top'},
           tpmin' \in {tpmin, Nil}, alarm' \in {alarm, 0}, Harmless(Top'),
           UNCHANGED <<malloced, tptop, tpfree, state, left, base, handler, pending, timeout, clock, adds, fired, odd>>,
           Given', MinAlarm', AtWalk'
    PROVE  Inv'
  <1>1. /\ TypeOK /\ adds \in Nat /\ alarm \in Nat /\ clock \in Nat /\ tpmin \in Ptr
        /\ (alarm # 0 => alarm > clock)
    BY NodeFacts DEF Inv
  <1>2. TypeOK' /\ (odd \subseteq {"lost", "slow"})'
    <2>1. /\ alarm' \in Nat /\ (alarm' # 0 => alarm' > clock') /\ tpmin' \in Ptr /\ node' \in [Nodes -> Cells]
      BY <1>1 DEF Fewer, Ptr
    <2> QED
      BY <1>1, <2>1 DEF Inv, TypeOK, Cells
  <1>3. /\ ~AtTop(InAlarm \cup Adding \cup {"end"}) /\ ~AtTop({"link"})
        /\ ~AtTop(InAlarm \cup {"link"})' /\ ~AtTop(Filling)' /\ AtTop(InAlarm \cup InDel)'
        /\ ~AtTop(InAlarm)' /\ ~AtTop({"act"})' /\ ~AtTop({"break"})' /\ ~AtTop({"link"})' /\ ~AtTop({"end"})'
    BY DEF AtTop, InAlarm, InDel, Adding, Filling
  <1>4. Bits'
    BY <1>3, BitsKept
  <1>5. Counted'
    <2>1. alarm' > 0 => alarm > 0
      BY <1>1
    <2> QED
      BY <1>1, <2>1, CountedKept DEF InAdd, InDel
  <1>6. Sound'
    <2>1. \A h \in Range(stack') : Harmless(h)
      BY DEF Harmless
    <2>2. \A n \in Nodes : ~Linking(n)
      BY <1>3 DEF Linking
    <2> QED
      BY <1>1, <1>3, <2>1, <2>2, SoundKept DEF Lost
  <1>7. Handles'
    BY HandlesKept DEF InDel
  <1>8. Intervals'
    BY DEF Inv, Intervals, Fewer
  <1>9. InHandler' /\ AtAct' /\ AtBreak' /\ AtLink' /\ Outside'
    BY <1>3 DEF InHandler, AtAct, AtBreak, AtLink, Outside
  <1> QED
    BY <1>2, <1>4, <1>5, <1>6, <1>7, <1>8, <1>9 DEF Inv

\* The next cell is one that is older than the one that has been looked at.
LEMMA WalkKeeps ==
    ASSUME Inv, Walk
    PROVE  Inv'
  <1>0. PICK p : p = node[Top.tp].next
    OBVIOUS
  <1>1. /\ At("walk") /\ Top.tp # Nil /\ Delete(Top.tp) /\ GoToWith("walk", p)
        /\ UNCHANGED <<malloced, tptop, tpmin, tpfree, state, left, base, handler, alarm, pending, timeout, clock, adds, fired, odd>>
    BY <1>0 DEF Walk, rest, kernel
  <1>2. stack # <<>> /\ Top.at = "walk" /\ Top \in Frames /\ Top \in Range(stack) /\ Top.at \in InDel
        /\ \A S : AtTop(S) <=> "walk" \in S
    BY <1>1, AtIs DEF InDel
  <1>3. Top.tp \in Nodes /\ p \in Ptr /\ adds \in Nat /\ TypeOK
    <2>1. Top.tp \in Nodes
      BY <1>1, <1>2, FrameFields DEF Ptr
    <2> QED
      BY <1>0, <2>1, NodeFacts DEF Inv
  <1>4. Fewer
    <2> DEFINE D == {Top.tp}
    <2>1. node' = [n \in Nodes |-> IF n \in D THEN [node[n] EXCEPT !.action = "none"] ELSE node[n]]
      BY <1>1, <1>3, NodeFacts DEF Delete
    <2>2. D \in SUBSET Nodes
      BY <1>3
    <2> HIDE DEF D
    <2> QED
      BY <2>1, <2>2, FewerDeleted
  <1>5. /\ Framed(stack, adds, base)' /\ stack' # <<>>
        /\ Top'.at = "walk" /\ Top'.tp = p
        /\ Range(stack') \subseteq Range(stack) \cup {Top'}
    <2>1. SameCode(Top.at, "walk") /\ "walk" \in InAlarm \cup InAdd \cup InDel \cup InUser
      BY <1>2 DEF SameCode, InDel
    <2> QED
      BY <1>1, <1>2, <1>3, <2>1, GoToWithIs
  <1>6. Harmless(Top')
    BY <1>0, <1>1, <1>2, <1>5 DEF Harmless
  <1>7. Given' /\ MinAlarm' /\ Top'.at \in InDel
    <2>1. tpmin \in Ptr
      BY <1>3, NodeFacts
    <2> QED
      BY <1>1, <1>4, <1>5, <2>1 DEF Inv, Given, MinAlarm, Slow, Fewer, Ptr, InDel
  <1>8. AtWalk'
    <2>1. ASSUME ~Lost, NEW n \in Nodes, Active(n)'
          PROVE  p # Nil /\ node'[n].id <= node'[p].id
      <3>1. PICK T \in SUBSET Nodes, F \in SUBSET Nodes, r \in [Nodes -> Nat], high \in Nat : Lists(T, F, r, high)
        BY DEF Inv, Sound
      <3>2. Active(n)
        BY <2>1, <1>4 DEF Fewer
      <3>3. n \in T /\ Top.tp \in T
        <4>1. ~AtTop({"link"})
          BY <1>2
        <4>2. n \in T
          BY <3>1, <3>2, <4>1, ActiveListed
        <4>3. Holds(Top, T, F)
          BY <1>2, <3>1 DEF Lists
        <4> QED
          BY <4>2, <4>3, <1>1, <1>2, <2>1 DEF Holds, Lost
      <3>4. n # Top.tp
        <4>1. node'[Top.tp].action = "none"
          BY <1>1, <1>3, NodeFacts DEF Delete, Cells
        <4> QED
          BY <2>1, <4>1 DEF Active
      <3>5. node[n].id <= node[Top.tp].id
        BY <1>2, <2>1, <3>2 DEF Inv, AtWalk
      <3>6. /\ node[n].id \in Nat /\ node[Top.tp].id \in Nat
            /\ node[Top.tp].next \in T \cup {Nil}
            /\ node[Top.tp].next = Nil => node[Top.tp].id <= node[n].id
            /\ node[Top.tp].next # Nil => (node[n].id < node[Top.tp].id => node[n].id <= node[node[Top.tp].next].id)
        BY <1>3, <3>1, <3>3, ListsFacts
      <3>7. node[n].id # node[Top.tp].id
        BY <3>1, <3>3, <3>4 DEF Lists, Distinct, Ids
      <3>8. p # Nil /\ node[n].id <= node[p].id /\ p \in Nodes
        BY <1>0, <3>5, <3>6, <3>7
      <3> QED
        BY <3>8, <1>4 DEF Fewer
    <2>2. ASSUME NEW f \in Range(stack'), f.at \in InDel
          PROVE  f = Top'
      <3>1. Top' = stack'[1]
        BY DEF Top
      <3> QED
        BY <1>1, <1>3, <1>5, <2>2, <3>1, FramedTop DEF InDel
    <2>3. AtTop({"walk"})'
      BY <1>5 DEF AtTop
    <2> QED
      BY <1>1, <1>5, <2>1, <2>2, <2>3 DEF AtWalk, Lost, InDel
  <1>9. tpmin' \in {tpmin, Nil} /\ alarm' \in {alarm, 0}
    BY <1>1
  <1> QED
    BY <1>1, <1>2, <1>4, <1>5, <1>6, <1>7, <1>8, <1>9, DelKeeps

\* At the end of the list no timer is left, and the alarm is turned off.
LEMMA WalkEndKeeps ==
    ASSUME Inv, WalkEnd
    PROVE  Inv'
  <1>1. /\ At("walk") /\ Top.tp = Nil /\ GoTo("giveup") /\ tpmin' = Nil
        /\ alarm' = IF tpmin = Nil THEN alarm ELSE 0
        /\ UNCHANGED <<node, malloced, tptop, tpfree, state, left, base, handler, pending, timeout, clock, adds, fired, odd>>
    BY DEF WalkEnd, rest
  <1>2. stack # <<>> /\ Top.at = "walk" /\ Top \in Frames /\ Top \in Range(stack) /\ Top.at \in InDel
        /\ ~pending /\ \A S : AtTop(S) <=> "walk" \in S
    BY <1>1, AtIs DEF InDel
  <1>3. adds \in Nat
    BY NodeFacts DEF Inv
  <1>4. /\ Framed(stack, adds, base)' /\ stack' # <<>> /\ Top'.at = "giveup"
        /\ Range(stack') \subseteq Range(stack) \cup {Top'}
    <2>1. SameCode(Top.at, "giveup") /\ "giveup" \in InAlarm \cup InAdd \cup InDel \cup InUser
      BY <1>2 DEF SameCode, InDel
    <2> QED
      BY <1>1, <1>2, <2>1, GoToIs
  <1>5. Given' /\ MinAlarm' /\ Top'.at \in InDel /\ Harmless(Top')
    BY <1>1, <1>2, <1>4 DEF Inv, Given, MinAlarm, Slow, InDel, Harmless
  <1>6. AtWalk'
    <2>1. ASSUME ~Lost, NEW n \in Nodes
          PROVE  ~Active(n)'
      <3>1. ~Active(n) /\ UNCHANGED node
        BY <1>1, <1>2, <2>1 DEF Inv, AtWalk
      <3> QED
        BY <3>1 DEF Active
    <2>2. ASSUME NEW f \in Range(stack'), f.at \in InDel
          PROVE  f = Top'
      <3>1. Top' = stack'[1]
        BY DEF Top
      <3> QED
        BY <1>1, <1>3, <1>4, <2>2, <3>1, FramedTop DEF InDel
    <2>3. AtTop({"giveup"})'
      BY <1>4 DEF AtTop
    <2> QED
      BY <1>1, <1>4, <2>1, <2>2, <2>3 DEF AtWalk, Lost, InDel
  <1>9. tpmin' \in {tpmin, Nil} /\ alarm' \in {alarm, 0}
    BY <1>1
  <1> QED
    BY <1>1, <1>2, <1>4, <1>5, <1>6, <1>9, DelKeeps, FewerSame

\* SIGALRM is given back with the alarm off.
LEMMA GiveUpKeeps ==
    ASSUME Inv, GiveUp
    PROVE  Inv'
  <1>1. /\ At("giveup") /\ handler' = base /\ stack' = Tail(stack)
        /\ UNCHANGED <<node, malloced, tptop, tpmin, tpfree, state, left, base, alarm, pending, timeout, clock, adds, fired, odd>>
    BY DEF GiveUp, lists, rest, Return
  <1>2. stack # <<>> /\ Top.at = "giveup" /\ Top \in Frames /\ Top \in Range(stack)
        /\ ~pending /\ \A S : AtTop(S) <=> "giveup" \in S
    BY <1>1, AtIs
  <1>3. adds \in Nat /\ TypeOK
    BY NodeFacts DEF Inv
  <1>4. /\ Framed(stack, adds, base)' /\ Range(stack') \subseteq Range(stack)
        /\ stack' # <<>> => Over(Top, Top')
    BY <1>1, <1>2, TopForms, PopTop
  <1>5. stack' # <<>> => Top'.at \in {"read", "wait"}
    BY <1>2, <1>4 DEF Over, InDel
  <1>6. \A f \in Range(stack') : f.at \in InUser
    <2> SUFFICES ASSUME NEW f \in Range(stack')
                 PROVE  f.at \in InUser
      OBVIOUS
    <2>1. stack' # <<>> /\ Top' = stack'[1]
      BY <1>1, <1>3, <1>4, FramedTop DEF Top
    <2> QED
      BY <1>1, <1>3, <1>4, <1>5, <2>1, FramedTop DEF InUser
  <1>7. /\ ~AtTop(InAlarm \cup Adding \cup {"end"}) /\ ~AtTop({"link"})
        /\ ~AtTop(InAlarm \cup {"link"})' /\ ~AtTop(Filling)'
        /\ ~AtTop(InAlarm)' /\ ~AtTop({"act"})' /\ ~AtTop({"break"})' /\ ~AtTop({"link"})' /\ ~AtTop({"end"})'
    BY <1>2, <1>5 DEF AtTop, InAlarm, InDel, Adding, Filling
  <1>8. TypeOK' /\ (odd \subseteq {"lost", "slow"})'
    BY <1>1 DEF Inv, TypeOK
  <1>9. Bits'
    BY <1>1, <1>7, BitsKept
  <1>10. Counted'
    BY <1>1, <1>3, <1>6, CountedKept DEF InAdd, InUser
  <1>11. Sound'
    <2>1. \A h \in Range(stack') : Harmless(h)
      BY <1>4 DEF Harmless
    <2>2. \A n \in Nodes : ~Linking(n)
      BY <1>7 DEF Linking
    <2> QED
      BY <1>1, <1>3, <1>7, <2>1, <2>2, SoundKept, FewerSame DEF Lost
  <1>12. Handles'
    BY <1>1, <1>4, HandlesKept, FewerSame
  <1>13. Intervals'
    BY <1>1 DEF Inv, Intervals, Active
  <1>14. Given' /\ MinAlarm'
    BY <1>1, <1>2 DEF Inv, Given, MinAlarm, Slow, AtWalk
  <1>15. InHandler' /\ AtAct' /\ AtBreak' /\ AtLink'
    BY <1>7 DEF InHandler, AtAct, AtBreak, AtLink
  <1>16. AtWalk'
    BY <1>6 DEF AtWalk, InUser
  <1>17. Outside'
    BY <1>1, <1>2 DEF Inv, AtWalk, Outside, Lost, Active
  <1> QED
    BY <1>4, <1>8, <1>9, <1>10, <1>11, <1>12, <1>13, <1>14, <1>15, <1>16, <1>17 DEF Inv

----------------------------------------------------------------------------
(* Time and signals                                                        *)

LEMMA TickKeeps ==
    ASSUME Inv, Tick
    PROVE  Inv'
  <1>1. /\ clock < MaxTime /\ ~pending /\ clock' = clock + 1
        /\ pending' = (pending \/ alarm = clock + 1)
        /\ alarm' = IF alarm = clock + 1 THEN 0 ELSE alarm
        /\ odd' = odd \cup (IF At("link") THEN {"slow"} ELSE {})
        /\ UNCHANGED <<node, malloced, tptop, tpmin, tpfree, state, left, base, handler, timeout, stack, adds, fired>>
    BY DEF Tick, lists
  <1>2. /\ TypeOK /\ adds \in Nat /\ alarm \in Nat /\ clock \in Nat /\ clock \in 0 .. MaxTime /\ MaxTime \in Nat
        /\ (alarm # 0 => alarm > clock) /\ left \in Nat /\ tpmin \in Ptr
        /\ \A n \in Nodes : node[n].wakeup \in Nat
    BY NodeFacts, ConstantsAssumption DEF Inv, TypeOK
  <1>3. /\ clock' \in Nat /\ clock' \in 0 .. MaxTime /\ alarm' \in Nat /\ (alarm' # 0 => alarm' > clock')
        /\ alarm' > 0 => alarm' = alarm /\ ~pending'
        /\ alarm > 0 => pending' \/ alarm' = alarm
        /\ alarm = 0 => alarm' = 0 /\ ~pending'
        /\ ~pending' => alarm' = alarm
    <2>1. CASE alarm = clock + 1
      <3>1. alarm' = 0 /\ pending'
        BY <1>1, <2>1, Zenon
      <3>2. clock' \in Nat /\ clock' \in 0 .. MaxTime /\ alarm # 0
        BY <2>1, <1>1, <1>2
      <3> QED
        BY <3>1, <3>2
    <2>2. CASE alarm # clock + 1
      <3>1. alarm' = alarm /\ ~pending'
        BY <1>1, <2>2, Zenon
      <3>2. clock' \in Nat /\ clock' \in 0 .. MaxTime /\ (alarm # 0 => alarm > clock')
        BY <2>2, <1>1, <1>2
      <3> QED
        BY <3>1, <3>2, <1>2
    <2> QED
      BY <2>1, <2>2
  <1>4. pending' \in BOOLEAN
    BY <1>1, Zenon
  <1>5. /\ TypeOK' /\ (odd \subseteq {"lost", "slow"})'
        /\ (Slow => Slow') /\ Lost' = Lost
    BY <1>1, <1>3, <1>4 DEF Inv, TypeOK, Slow, Lost
  <1>6. /\ Top' = Top /\ \A S : AtTop(S)' <=> AtTop(S)
        /\ \A n \in Nodes : (Active(n)' <=> Active(n)) /\ (Linking(n)' <=> Linking(n)) /\ (Expired(n) => Expired(n)')
    BY <1>1, <1>2 DEF Top, AtTop, Active, Linking, Expired
  <1>7. Framed(stack, adds, base)' /\ Bits'
    BY <1>1, <1>6 DEF Inv, Bits
  <1>8. Counted'
    BY <1>1, <1>2, <1>3, CountedKept
  <1>9. Sound'
    <2>1. \A h \in Range(stack') : Harmless(h)
      BY <1>1 DEF Harmless
    <2> QED
      BY <1>1, <1>2, <1>5, <1>6, <2>1, SoundKept, FewerSame
  <1>10. Handles' /\ Intervals'
    BY <1>1, <1>6 DEF Inv, Handles, Intervals
  <1>11. Given'
    BY <1>1, <1>2, <1>3, <1>5 DEF Inv, Given
  <1>12. MinAlarm'
    BY <1>1, <1>3, <1>5 DEF Inv, MinAlarm
  <1>13. InHandler'
    <2> SUFFICES ASSUME AtTop(InAlarm)
                 PROVE  /\ ((~Slow \/ NoCheck) /\ alarm > 0)' => \E n \in Nodes : Active(n) /\ alarm' <= node[n].wakeup
                        /\ left # 0 => handler = "sigalrm"
                        /\ left # 0 => \/ pending'
                                       \/ /\ alarm' > 0 /\ alarm' <= clock' + left
                                          /\ \E n \in Nodes : Active(n) /\ alarm' <= node[n].wakeup
                                          /\ \A n \in Nodes : Active(n) /\ ~Expired(n)' => alarm' <= node[n].wakeup
      BY <1>1, <1>6 DEF InHandler
    <2>1. NoCheck' => NoCheck
      BY <1>1 DEF NoCheck
    <2>2. ((~Slow \/ NoCheck) /\ alarm > 0)' => \E n \in Nodes : Active(n) /\ alarm' <= node[n].wakeup
      BY <2>1, <1>3, <1>5 DEF Inv, InHandler
    <2>3. ASSUME left # 0, ~pending'
          PROVE  /\ alarm' > 0 /\ alarm' <= clock' + left
                 /\ \E n \in Nodes : Active(n) /\ alarm' <= node[n].wakeup
                 /\ \A n \in Nodes : Active(n) /\ ~Expired(n)' => alarm' <= node[n].wakeup
      <3>1. /\ alarm > 0 /\ alarm <= clock + left
            /\ \E n \in Nodes : Active(n) /\ alarm <= node[n].wakeup
            /\ \A n \in Nodes : Active(n) /\ ~Expired(n) => alarm <= node[n].wakeup
        BY <2>3, <1>1 DEF Inv, InHandler
      <3>2. alarm' = alarm /\ alarm <= clock' + left
        BY <2>3, <3>1, <1>1, <1>2, <1>3
      <3> QED
        BY <3>1, <3>2, <1>6
    <2> QED
      BY <2>2, <2>3 DEF Inv, InHandler
  <1>14. \A n \in Nodes : Coming(n) => Coming(n)'
    BY <1>1, <1>3 DEF Coming
  <1>15. AtAct'
    <2> SUFFICES ASSUME AtTop({"act"})
                 PROVE  AtAct'
      BY <1>6 DEF AtAct
    <2>1. Top.d \in Nat
      BY StackFacts, FrameFields DEF AtTop
    <2>2. Top.d <= clock'
      <3>1. Top.d <= clock
        BY DEF Inv, AtAct
      <3> QED
        BY <3>1, <2>1, <1>1, <1>2
    <2>3. 1 .. clock + 1 \subseteq 1 .. clock' + 1
      BY <1>1, <1>2
    <2>4. \A z \in Int : z <= clock => z <= clock'
      BY <1>1, <1>2
    <2>5. ASSUME NEW w, NEW incr \in Nat, Moved(w, incr, Top.d, clock)
          PROVE  Moved(w, incr, Top.d, clock')
      <3> SUFFICES ASSUME NEW k \in 1 .. clock + 1, w = Top.d + k * incr, Top.d + (k - 1) * incr <= clock
                   PROVE  Moved(w, incr, Top.d, clock')
        BY <2>5 DEF Moved
      <3> DEFINE z == Top.d + (k - 1) * incr
      <3>2. z \in Int
        BY <2>1
      <3> HIDE DEF z
      <3>3. z <= clock'
        <4>1. z <= clock
          BY DEF z
        <4> QED
          BY <4>1, <3>2, <2>4
      <3>4. k \in 1 .. clock' + 1
        BY <2>3
      <3> QED
        BY <3>3, <3>4 DEF Moved, z
    <2>6. AtTop({"act"})' /\ AtAct
      BY <1>6 DEF Inv
    <2>7. Top.tp \in Nodes /\ node[Top.tp].incr \in Nat
      <3>1. Top.tp \in Nodes
        BY StackFacts, FrameFields DEF Inv, AtAct, AtTop, Ptr
      <3> QED
        BY <3>1, <1>2, NodeFacts
    <2> QED
      BY <2>2, <2>5, <2>6, <2>7, <1>1, <1>3, <1>5, <1>6 DEF AtAct, Active, Expired, Coming
  <1>16. AtBreak'
    <2>1. NoCheck' => NoCheck
      BY <1>1 DEF NoCheck
    <2> QED
      BY <2>1, <1>1, <1>3, <1>5, <1>6, <1>14 DEF Inv, AtBreak
  <1>17. AtLink'
    <2>1. AtTop({"link"}) => Slow'
      BY <1>1 DEF AtTop, At, Slow
    <2> QED
      BY <2>1, <1>1, <1>6 DEF Inv, AtLink
  <1>18. AtWalk'
    BY <1>1, <1>5, <1>6 DEF Inv, AtWalk
  <1>19. Outside'
    BY <1>1, <1>3, <1>5, <1>6 DEF Inv, Outside
  <1> QED
    BY <1>5, <1>7, <1>8, <1>9, <1>10, <1>11, <1>12, <1>13, <1>15, <1>16, <1>17, <1>18, <1>19 DEF Inv

\* With a trap or an alarm of somebody else.
LEMMA OtherAlarmKeeps ==
    ASSUME Inv, OtherAlarm
    PROVE  Inv'
  <1>1. /\ pending /\ handler = "fault" /\ pending' = FALSE
        /\ UNCHANGED <<node, malloced, tptop, tpmin, tpfree, state, left, base, handler, alarm, timeout, stack, clock, adds, fired, odd>>
    BY DEF OtherAlarm, lists, rest
  <1>2. base = "fault" /\ adds \in Nat
    BY <1>1, NodeFacts DEF Inv
  <1>3. /\ Top' = Top /\ \A S : AtTop(S)' <=> AtTop(S)
        /\ \A n \in Nodes : (Active(n)' <=> Active(n)) /\ (Linking(n)' <=> Linking(n)) /\ (Expired(n)' <=> Expired(n))
    BY <1>1 DEF Top, AtTop, Active, Linking, Expired
  <1>4. TypeOK' /\ (odd \subseteq {"lost", "slow"})'
    BY <1>1 DEF Inv, TypeOK
  <1>5. Framed(stack, adds, base)' /\ Bits'
    BY <1>1, <1>3 DEF Inv, Bits
  <1>6. Counted'
    BY <1>1, <1>2, CountedKept
  <1>7. Sound'
    <2>1. \A h \in Range(stack') : Harmless(h)
      BY <1>1 DEF Harmless
    <2> QED
      BY <1>1, <1>2, <1>3, <2>1, SoundKept, FewerSame DEF Lost
  <1>8. Handles' /\ Intervals' /\ Given' /\ MinAlarm'
    BY <1>1, <1>2, <1>3 DEF Inv, Handles, Intervals, Given, MinAlarm, Slow
  <1>9. InHandler'
    BY <1>1, <1>3 DEF Inv, InHandler, NoCheck, Slow
  <1>10. AtAct'
    <2>1. AtAct /\ (AtTop({"act"})' => AtTop({"act"}))
      BY <1>3 DEF Inv
    <2> QED
      BY <2>1, <1>1, <1>3 DEF AtAct, Active, Expired, Coming, Lost
  <1>11. AtBreak'
    BY <1>1, <1>3 DEF Inv, AtBreak, Coming, Lost, Slow, NoCheck
  <1>12. AtLink' /\ AtWalk'
    BY <1>1, <1>3 DEF Inv, AtLink, AtWalk, Slow, Lost
  <1>13. Outside'
    BY <1>1, <1>3 DEF Inv, Outside, Lost
  <1> QED
    BY <1>4, <1>5, <1>6, <1>7, <1>8, <1>9, <1>10, <1>11, <1>12, <1>13 DEF Inv

\* sigalrm() is called.
LEMMA SigalrmKeeps ==
    ASSUME Inv, Sigalrm
    PROVE  Inv'
  <1>1. /\ pending /\ handler = "sigalrm" /\ pending' = FALSE /\ alarm' = 0 /\ left' = 0
        /\ odd' = IF "alrm" \in state \/ \E i \in 1 .. Len(stack) : stack[i].at = "walk"
                  THEN odd \cup {"lost"} ELSE odd
        /\ UNCHANGED <<node, malloced, tptop, tpmin, tpfree, base, handler, timeout, clock, adds, fired>>
    BY DEF Sigalrm, lists, rest
  <1>2. /\ TypeOK /\ adds \in Nat /\ stack \in Seq(Frames) /\ state \subseteq {"add", "alrm", "defer"}
        /\ MaxAdds \in Nat /\ tpmin \in Ptr
    BY NodeFacts, StackFacts, Consts DEF Inv
  <1>3. /\ odd \subseteq odd' /\ (odd \subseteq {"lost", "slow"})' /\ (Slow' <=> Slow) /\ (Lost => Lost')
        /\ "alrm" \in state => Lost'
        /\ ~Lost' => \A f \in Range(stack) : f.at # "walk"
    <2>1. \A f : f \in Range(stack) <=> \E i \in 1 .. Len(stack) : stack[i] = f
      BY <1>2, RangeIs
    <2> QED
      BY <1>1, <2>1 DEF Inv, Slow, Lost
  <1>4. \A n \in Nodes : (Active(n)' <=> Active(n)) /\ (Expired(n)' <=> Expired(n))
    BY <1>1 DEF Active, Expired
  <1>5. Intervals' /\ Given' /\ MinAlarm'
    BY <1>1, <1>4 DEF Inv, Intervals, Given, MinAlarm
  <1>6. InHandler'
    BY <1>1 DEF InHandler
  <1>7. \A f \in Range(stack) : f.at = "giveup" /\ base = "dfl" => Slow
    BY <1>1 DEF Inv, AtWalk, Given
  <1>8. CASE state = {}
    <2>1. PICK f : f = Frame("scan", Nil, "none", 0, 0)
      OBVIOUS
    <2>2. stack' = <<f>> \o stack /\ state' = {"alrm"}
      BY <1>8, <2>1 DEF Sigalrm, Push
    <2>3. f.at = "scan" /\ f.tp = Nil /\ f.kind = "none" /\ f.d = 0 /\ f.id = 0 /\ f \in Frames
      BY <2>1, <1>2 DEF Frame, Frames, Ptr, InAlarm
    <2>4. /\ ~AtTop({"scan", "act", "break"}) /\ ~AtTop({"link"})
          /\ ~(AtTop(Adding) /\ Top.kind = "old")
      BY <1>8 DEF Inv, Bits
    <2>5. stack # <<>> => Over(f, Top)
      <3> SUFFICES ASSUME stack # <<>>
                   PROVE  Over(f, Top)
        OBVIOUS
      <3>1. Top \in Frames
        BY StackFacts
      <3> QED
        BY <3>1, <2>3, <2>4, FrameFields DEF Over, AtTop, Adding, InAlarm, InDel
    <2>6. \A h \in Range(stack) \ {Top} : Over(Top, h) => Over(f, h)
      <3> SUFFICES ASSUME NEW h \in Range(stack), Over(Top, h)
                   PROVE  Over(f, h)
        OBVIOUS
      <3>1. Top \in Frames /\ h \in Frames
        BY StackFacts
      <3> QED
        BY <3>1, <2>3, FrameFields DEF Over, InAlarm, InDel, InAdd, InUser, Filling
    <2>7. Fits(f, adds', base) /\ f.at \notin InAdd /\ adds' \in Nat /\ adds <= adds' /\ base' = base
      BY <1>1, <1>2, <2>3 DEF Fits, InAdd, InUser
    <2>8. /\ Framed(stack, adds, base)' /\ stack' # <<>> /\ Top' = f
          /\ Range(stack') \subseteq Range(stack) \cup {f}
      BY <2>2, <2>5, <2>6, <2>7, PushTop
    <2>9. /\ AtTop(InAlarm)' /\ ~AtTop({"ran"})' /\ ~AtTop({"link"})' /\ ~AtTop(Adding)' /\ ~AtTop({"end"})'
          /\ ~AtTop({"act"})' /\ ~AtTop({"break"})' /\ AtTop(InAlarm \cup InDel)'
      BY <2>3, <2>8 DEF AtTop, InAlarm, Adding, Filling
    <2>10. TypeOK'
      BY <1>1, <1>2, <2>2 DEF TypeOK
    <2>11. Bits'
      BY <2>2, <2>9 DEF Bits
    <2>12. Counted'
      BY <1>1, <1>2, <2>3, <2>8, CountedKept DEF InAdd
    <2>13. Sound'
      <3>1. \A h \in Range(stack') : Harmless(h)
        BY <2>3, <2>8 DEF Harmless
      <3>2. \A n \in Nodes : ~Linking(n)
        BY <2>4 DEF Linking
      <3> QED
        BY <1>1, <1>2, <1>3, <2>4, <3>1, <3>2, SoundKept, FewerSame
    <2>14. Handles'
      BY <1>1, <2>3, <2>8, HandlesKept, FewerSame
    <2>15. AtAct' /\ AtBreak' /\ AtLink' /\ Outside'
      BY <2>9 DEF AtAct, AtBreak, AtLink, Outside
    <2>16. AtWalk'
      BY <1>1, <1>3, <1>4, <1>7, <2>3, <2>8 DEF Inv, AtWalk
    <2> QED
      BY <1>3, <1>5, <1>6, <2>8, <2>10, <2>11, <2>12, <2>13, <2>14, <2>15, <2>16 DEF Inv
  <1>9. CASE state # {}
    <2>1. stack' = stack /\ state' = state \cup (IF "add" \in state THEN {"defer"} ELSE {})
      BY <1>9 DEF Sigalrm
    <2>2. /\ Top' = Top /\ \A S : AtTop(S)' <=> AtTop(S)
          /\ \A n \in Nodes : Linking(n)' <=> Linking(n)
      BY <2>1 DEF Top, AtTop, Linking
    <2>3. ~AtTop(InAlarm) => "add" \in state /\ "defer" \in state'
      BY <1>2, <1>9, <2>1 DEF Inv, Bits
    <2>4. AtTop({"act"}) \/ AtTop({"break"}) => Lost'
      <3>1. AtTop({"act"}) \/ AtTop({"break"}) => AtTop({"scan", "act", "break"})
        BY DEF AtTop
      <3> QED
        BY <3>1, <1>3 DEF Inv, Bits
    <2>5. TypeOK' /\ Framed(stack, adds, base)'
      BY <1>1, <1>2, <2>1 DEF Inv, TypeOK
    <2>6. Bits'
      <3>1. ~AtTop({"ran"})
        BY <1>9 DEF Inv, Bits
      <3> QED
        BY <1>1, <2>1, <2>2, <3>1 DEF Inv, Bits
    <2>7. Counted'
      BY <1>1, <1>2, <2>1, CountedKept
    <2>8. Sound'
      <3>1. \A h \in Range(stack') : Harmless(h)
        BY <2>1 DEF Harmless
      <3> QED
        BY <1>1, <1>2, <1>3, <2>2, <3>1, SoundKept, FewerSame
    <2>9. Handles'
      BY <1>1, <2>1, HandlesKept, FewerSame
    <2>10. AtAct'
      <3>1. AtAct /\ (AtTop({"act"})' => AtTop({"act"}))
        BY <2>2 DEF Inv
      <3> QED
        BY <3>1, <1>1, <2>2, <2>4 DEF AtAct, Active, Expired
    <2>11. AtBreak'
      BY <1>1, <1>4, <2>2, <2>4 DEF Inv, AtBreak
    <2>12. AtLink'
      BY <1>1, <1>3, <1>4, <2>1, <2>2 DEF Inv, AtLink
    <2>13. AtWalk'
      BY <1>1, <1>3, <1>4, <1>7, <2>1, <2>2 DEF Inv, AtWalk
    <2>14. Outside'
      <3>1. ~AtTop(InAlarm \cup InDel) => ~AtTop(InAlarm)
        BY DEF AtTop
      <3> QED
        BY <1>1, <1>3, <1>4, <2>2, <2>3, <3>1 DEF Inv, Outside
    <2> QED
      BY <1>3, <1>5, <1>6, <2>5, <2>6, <2>7, <2>8, <2>9, <2>10, <2>11, <2>12, <2>13, <2>14 DEF Inv
  <1> QED
    BY <1>8, <1>9

----------------------------------------------------------------------------
(* sigalrm(): the end of a turn, and of the loop                           *)

LEMMA RanKeeps ==
    ASSUME Inv, Ran
    PROVE  Inv'
  <1>1. /\ At("ran") /\ GoTo("scan") /\ state' = state \cup {"alrm"}
        /\ UNCHANGED <<node, malloced, tptop, tpmin, tpfree, left, base, handler, alarm, pending, timeout, clock, adds, fired, odd>>
    BY DEF Ran, lists, rest, kernel
  <1>2. stack # <<>> /\ Top.at = "ran" /\ Top \in Frames /\ Top \in Range(stack)
        /\ ~pending /\ \A S : AtTop(S) <=> "ran" \in S
    BY <1>1, AtIs
  <1>3. adds \in Nat /\ TypeOK
    BY NodeFacts DEF Inv
  <1>4. /\ Framed(stack, adds, base)' /\ stack' # <<>> /\ Top' \in Range(stack') /\ Top'.at = "scan"
        /\ Range(stack') \subseteq Range(stack) \cup {Top'}
        /\ Range(stack) \subseteq Range(stack') \cup {Top}
    <2>1. SameCode(Top.at, "scan") /\ "scan" \in InAlarm \cup InAdd \cup InDel \cup InUser
      BY <1>2 DEF SameCode, InAlarm
    <2> QED
      BY <1>1, <1>2, <2>1, GoToIs
  <1>5. /\ AtTop(InAlarm)' /\ ~AtTop({"ran"})' /\ ~AtTop({"link"})' /\ ~AtTop(Adding)' /\ ~AtTop({"end"})'
        /\ ~AtTop({"act"})' /\ ~AtTop({"break"})' /\ AtTop(InAlarm \cup InDel)'
        /\ AtTop(InAlarm) /\ ~AtTop({"link"}) /\ ~AtTop({"walk"}) /\ ~AtTop({"giveup"}) /\ AtTop({"ran"})
    BY <1>2, <1>4 DEF AtTop, InAlarm, Adding, Filling
  <1>6. state = {}
    BY <1>5 DEF Inv, Bits
  <1>7. TypeOK' /\ (odd \subseteq {"lost", "slow"})'
    BY <1>1, <1>6 DEF Inv, TypeOK
  <1>8. Bits'
    BY <1>1, <1>5, <1>6 DEF Bits
  <1>9. Counted'
    BY <1>1, <1>3, <1>4, CountedKept DEF InAdd
  <1>10. Sound'
    <2>1. \A h \in Range(stack') : Harmless(h)
      BY <1>4 DEF Harmless
    <2>2. \A n \in Nodes : ~Linking(n)
      BY <1>5 DEF Linking
    <2> QED
      BY <1>1, <1>3, <1>5, <2>1, <2>2, SoundKept, FewerSame DEF Lost
  <1>11. Handles'
    BY <1>1, <1>4, HandlesKept, FewerSame
  <1>12. Intervals' /\ Given' /\ MinAlarm'
    BY <1>1 DEF Inv, Intervals, Given, MinAlarm, Slow, Active
  <1>13. InHandler'
    <2>1. NoCheck' => NoCheck
      BY <1>2, <1>4 DEF NoCheck
    <2> QED
      BY <1>1, <1>5, <2>1 DEF Inv, InHandler, Slow, Active, Expired
  <1>14. AtAct' /\ AtBreak' /\ AtLink' /\ Outside'
    BY <1>5 DEF AtAct, AtBreak, AtLink, Outside
  <1>15. AtWalk'
    BY <1>1, <1>4, <1>5 DEF Inv, AtWalk, Lost, Slow, Active
  <1> QED
    BY <1>4, <1>7, <1>8, <1>9, <1>10, <1>11, <1>12, <1>13, <1>14, <1>15 DEF Inv

\* There is one call of sh_timeradd() at most but for the chained alarm.
LEMMA OneCall ==
    ASSUME Inv, NEW f \in Range(stack), NEW g \in Range(stack), f.at \in Adding, g.at = "check"
    PROVE  FALSE
  <1>1. stack \in Seq(Frames) /\ Len(stack) \in Nat
    BY StackFacts
  <1>2. PICK i \in 1 .. Len(stack), j \in 1 .. Len(stack) : stack[i] = f /\ stack[j] = g
    BY <1>1, RangeIs
  <1>3. i # j /\ f \in Frames /\ g \in Frames
    BY <1>2, StackFacts DEF Adding, Filling
  <1>4. Over(f, g) \/ Over(g, f)
    <2>1. i < j \/ j < i
      BY <1>1, <1>3
    <2> QED
      BY <1>2, <2>1, StackFacts DEF Framed
  <1> QED
    BY <1>3, <1>4, FrameFields DEF Over, Adding, Filling, InAdd

\* SIGALRM is given back when no timer is left.
LEMMA BreakKeeps ==
    ASSUME Inv, Break
    PROVE  Inv'
  <1>1. /\ At("break") /\ handler' = (IF tpmin = Nil THEN base ELSE handler) /\ state' = state \ {"alrm"}
        /\ stack' = Tail(stack)
        /\ UNCHANGED <<node, malloced, tptop, tpmin, tpfree, left, base, alarm, pending, timeout, clock, adds, fired, odd>>
    BY DEF Break, lists, rest, Return
  <1>2. stack # <<>> /\ Top.at = "break" /\ Top \in Frames /\ Top \in Range(stack)
        /\ ~pending /\ \A S : AtTop(S) <=> "break" \in S
    BY <1>1, AtIs
  <1>3. adds \in Nat /\ TypeOK /\ alarm \in Nat /\ handler \in {"sigalrm", base}
    BY NodeFacts DEF Inv
  <1>4. /\ Framed(stack, adds, base)' /\ Range(stack') \subseteq Range(stack)
        /\ Range(stack) \subseteq Range(stack') \cup {Top}
        /\ stack' # <<>> => Over(Top, Top')
    BY <1>1, <1>2, TopForms, PopTop
  <1>5. /\ AtTop(InAlarm) /\ ~AtTop({"link"}) /\ ~AtTop({"walk"}) /\ ~AtTop({"giveup"}) /\ AtTop({"break"})
        /\ AtTop({"scan", "act", "break"})
    BY <1>2 DEF InAlarm
  <1>6. /\ ~AtTop({"scan", "act", "break"})' /\ ~AtTop({"link"})' /\ ~AtTop({"act"})' /\ ~AtTop({"break"})'
        /\ ~(AtTop(Adding)' /\ Top'.kind = "old")
    <2>1. Level(Top) = 1
      BY <1>2, FrameFields DEF InAlarm
    <2> QED
      BY <1>4, <2>1 DEF AtTop, Over, Adding
  <1>7. state' = {}
    BY <1>1, <1>5 DEF Inv, Bits
  <1>8. TypeOK' /\ (odd \subseteq {"lost", "slow"})'
    BY <1>1, <1>7 DEF Inv, TypeOK
  <1>9. Bits'
    BY <1>6, <1>7 DEF Bits
  <1>10. NoCheck' => NoCheck
    BY <1>2, <1>4 DEF NoCheck
  <1>11. Counted'
    <2>1. ASSUME NEW f \in Range(stack'), f.at \in Adding, alarm > 0, handler' = "fault"
          PROVE  handler = "fault"
      <3>1. NoCheck
        BY <1>4, <2>1, OneCall DEF NoCheck
      <3>2. tpmin # Nil
        BY <1>3, <1>5, <2>1, <3>1 DEF Inv, AtBreak
      <3> QED
        BY <1>1, <2>1, <3>2
    <2>2. ASSUME NEW f \in Range(stack')
          PROVE  Numbered(f)'
      <3>1. Numbered(f)
        BY <1>4 DEF Inv, Counted
      <3> QED
        BY <1>1, <2>1, <3>1 DEF Numbered
    <2> QED
      BY <1>1, <2>2 DEF Inv, Counted
  <1>12. Sound'
    <2>1. \A h \in Range(stack') : Harmless(h)
      BY <1>4 DEF Harmless
    <2>2. \A n \in Nodes : ~Linking(n)
      BY <1>5 DEF Linking
    <2> QED
      BY <1>1, <1>3, <1>5, <2>1, <2>2, SoundKept, FewerSame DEF Lost
  <1>13. Handles'
    BY <1>1, <1>4, HandlesKept, FewerSame
  <1>14. Intervals' /\ Given' /\ MinAlarm'
    BY <1>1 DEF Inv, Intervals, Given, MinAlarm, Slow, Active
  <1>15. InHandler'
    <2>1. left # 0 => tpmin # Nil
      BY <1>2, <1>5 DEF Inv, InHandler, AtBreak
    <2> QED
      BY <1>1, <1>5, <1>10, <2>1 DEF Inv, InHandler, Slow, Active, Expired
  <1>16. AtAct' /\ AtBreak' /\ AtLink'
    BY <1>6, <1>7 DEF AtAct, AtBreak, AtLink
  <1>17. AtWalk'
    BY <1>1, <1>4, <1>5 DEF Inv, AtWalk, Lost, Slow, Active
  <1>18. Outside'
    BY <1>1, <1>5 DEF Inv, AtBreak, Coming, Outside, Lost, Slow, Active
  <1> QED
    BY <1>4, <1>8, <1>9, <1>11, <1>12, <1>13, <1>14, <1>15, <1>16, <1>17, <1>18 DEF Inv

----------------------------------------------------------------------------
(* sh_timeradd()                                                           *)

LEMMA AddFacts ==
    ASSUME Inv, NEW a \in InAdd, At(a)
    PROVE  /\ stack # <<>> /\ Top.at = a /\ ~pending /\ Top \in Frames /\ Top \in Range(stack)
           /\ Fits(Top, adds, base) /\ Numbered(Top) /\ Top.tp \in Ptr /\ Top.id \in Nat /\ Top.d \in Nat
           /\ \A S : AtTop(S) <=> a \in S
           /\ ~AtTop(InAlarm) /\ ~AtTop(InDel) /\ ~AtTop(InAlarm \cup InDel) /\ ~AtTop({"walk"}) /\ ~AtTop({"giveup"})
           /\ \A f \in Range(stack) : f.at \notin InDel /\ (f = Top \/ f.at \in {"top"} \cup InUser)
           /\ adds \in Nat /\ TypeOK
  <1>1. stack # <<>> /\ Top.at = a /\ ~pending /\ Top \in Frames /\ Top \in Range(stack)
        /\ Fits(Top, adds, base) /\ \A S : AtTop(S) <=> a \in S
    BY AtIs
  <1>2. a \notin InAlarm \cup InDel \cup {"walk", "giveup"}
    BY DEF InAdd, InAlarm, InDel
  <1>3. adds \in Nat /\ TypeOK /\ Framed(stack, adds, base) /\ Top = stack[1]
    BY StackFacts DEF Inv, Top
  <1>4. \A f \in Range(stack) : f = Top \/ f.at \in {"top"} \cup InUser
    BY <1>1, <1>3, FramedTop
  <1>5. Numbered(Top)
    BY <1>1 DEF Inv, Counted
  <1>6. Top.tp \in Ptr /\ Top.d \in Nat
    BY <1>1, FrameFields
  <1>7. Top.id \in Nat
    BY <1>1 DEF Fits
  <1>8. \A f \in Range(stack) : f.at \notin InDel
    BY <1>1, <1>2, <1>4 DEF InDel, InUser
  <1> QED
    BY <1>1, <1>2, <1>3, <1>4, <1>5, <1>6, <1>7, <1>8

\* A call of sigalrm() that was put off is made, once.
LEMMA EndKeeps ==
    ASSUME Inv, End
    PROVE  Inv'
  <1>1. /\ At("end")
        /\ UNCHANGED <<node, malloced, tptop, tpmin, tpfree, base, handler, alarm, pending, timeout, clock, adds, fired, odd>>
    BY DEF End, lists, rest, kernel
  <1>2. /\ stack # <<>> /\ Top.at = "end" /\ ~pending /\ Top \in Frames /\ Top \in Range(stack)
        /\ Fits(Top, adds, base) /\ Numbered(Top)
        /\ \A S : AtTop(S) <=> "end" \in S
        /\ ~AtTop(InAlarm) /\ ~AtTop(InAlarm \cup InDel) /\ ~AtTop({"walk"}) /\ ~AtTop({"giveup"})
        /\ \A f \in Range(stack) : f.at \notin InDel /\ (f = Top \/ f.at \in {"top"} \cup InUser)
        /\ adds \in Nat /\ TypeOK
    BY <1>1, AddFacts DEF InAdd
  <1>3. \A n \in Nodes : ~Linking(n)
    BY <1>2 DEF Linking
  <1>4. CASE "defer" \in state
    <2>1. PICK f : f = Frame("scan", Nil, "none", 0, 0)
      OBVIOUS
    <2>2. PICK g : g = [Top EXCEPT !.at = "check"]
      OBVIOUS
    <2>3. state' = {"alrm"} /\ left' = 0 /\ stack' = <<f, g>> \o Tail(stack)
      BY <1>4, <2>1, <2>2 DEF End
    <2>4. f.at = "scan" /\ f.tp = Nil /\ f.kind = "none" /\ f.d = 0 /\ f.id = 0 /\ f \in Frames
      BY <2>1, <1>2, NodeFacts, Consts DEF Frame, Frames, Ptr, InAlarm
    <2>5. g.at = "check" /\ g.tp = Top.tp /\ g.kind = Top.kind /\ g.d = Top.d /\ g.id = Top.id /\ g \in Frames
      BY <1>2, <2>2 DEF Frames, InAdd
    <2>6. stack' = <<f, g>> \o Rest(stack, 1)
      BY <1>2, <2>3, TopForms
    <2>7. /\ stack \in Seq(Frames) /\ Len(stack) \in Nat /\ 1 < Len(stack) /\ Calls(Top, stack[2]) /\ 1 \in 0 .. Len(stack)
      <3>1. stack \in Seq(Frames) /\ Len(stack) \in Nat /\ 1 \in 1 .. Len(stack)
        BY <1>2, StackFacts
      <3>2. 1 < Len(stack) /\ Calls(stack[1], stack[1 + 1])
        BY <3>1, <1>2, StackFacts DEF Framed, Top, InAdd
      <3> QED
        BY <3>1, <3>2 DEF Top
    <2>8. Fits(f, adds, base) /\ Fits(g, adds, base) /\ Over(f, g) /\ Instead(g, Top)
      BY <1>2, <2>4, <2>5, FrameFields DEF Fits, InAdd, InUser, InAlarm, InDel, Filling, Over, Instead, Level
    <2>9. \A h \in Frames : Over(Top, h) => Over(f, h) /\ Over(g, h)
      <3>1. \A h \in Frames : Over(Top, h) => Over(g, h)
        BY <1>2, <2>5, <2>8, InsteadOver
      <3>2. \A h \in Frames : Over(Top, h) => Over(f, h)
        BY <1>2, <2>4, FrameFields DEF Over, InAdd, InAlarm, InDel, InUser, Filling
      <3> QED
        BY <3>1, <3>2
    <2>10. \A i \in 1 + 1 .. Len(stack) : Over(f, stack[i]) /\ Over(g, stack[i])
      <3> SUFFICES ASSUME NEW i \in 1 + 1 .. Len(stack)
                   PROVE  Over(f, stack[i]) /\ Over(g, stack[i])
        OBVIOUS
      <3>1. i \in 1 .. Len(stack) /\ i > 1
        BY <2>7
      <3> QED
        BY <3>1, <2>7, <2>9, StackFacts
    <2>11. Calls(g, stack[1 + 1])
      BY <2>5, <2>7, InsteadCalls
    <2>12. f.at \notin InAdd
      BY <2>4 DEF InAdd
    <2>13. /\ Framed(stack, adds, base)' /\ stack' # <<>> /\ Top' = f /\ f \in Range(stack') /\ g \in Range(stack')
           /\ Range(stack') \subseteq Range(stack) \cup {f, g}
      <3>1. adds' \in Nat /\ adds <= adds' /\ base' = base /\ Fits(f, adds', base) /\ Fits(g, adds', base)
        BY <1>1, <1>2, <2>8
      <3>2. f.at \in InAdd => Calls(f, g)
        BY <2>12
      <3>3. g.at \in InAdd => 1 < Len(stack) /\ Calls(g, stack[1 + 1])
        BY <2>7, <2>11
      <3> QED
        <4>1. PICK k \in 0 .. Len(stack) : k = 1
          BY <2>7
        <4>2. stack' = <<f, g>> \o Rest(stack, k) /\ Over(f, g)
          BY <4>1, <2>6, <2>8
        <4>3. \A i \in k + 1 .. Len(stack) : Over(f, stack[i]) /\ Over(g, stack[i])
          BY <4>1, <2>10
        <4>4. g.at \in InAdd => k < Len(stack) /\ Calls(g, stack[k + 1])
          BY <4>1, <3>3
        <4> QED
          BY <4>2, <4>3, <4>4, <3>1, <3>2, TwoTops
    <2>14. /\ AtTop(InAlarm)' /\ ~AtTop({"ran"})' /\ ~AtTop({"link"})' /\ ~AtTop(Adding)' /\ ~AtTop({"end"})'
           /\ ~AtTop({"act"})' /\ ~AtTop({"break"})' /\ AtTop(InAlarm \cup InDel)'
      BY <2>4, <2>13 DEF AtTop, InAlarm, Adding, Filling
    <2>15. TypeOK' /\ (odd \subseteq {"lost", "slow"})'
      BY <1>1, <2>3 DEF Inv, TypeOK
    <2>16. Bits'
      BY <2>3, <2>14 DEF Bits
    <2>17. Counted'
      <3>1. Numbered(g)'
        BY <1>1, <1>2, <2>5 DEF Numbered, InAdd, Adding, Filling
      <3> QED
        BY <1>1, <1>2, <2>12, <2>13, <3>1, CountedKept
    <2>18. Sound'
      <3>1. \A h \in Range(stack') : Harmless(h)
        BY <2>4, <2>5, <2>13 DEF Harmless
      <3> QED
        BY <1>1, <1>2, <1>3, <3>1, SoundKept, FewerSame DEF Lost
    <2>19. Handles'
      <3>1. \A n \in Nodes : Active(n) /\ node[n].id = g.id /\ base = "dfl" => g.tp = n
        BY <1>2, <2>5 DEF Inv, Handles
      <3> QED
        BY <1>1, <2>4, <2>13, <3>1, HandlesKept, FewerSame
    <2>20. Intervals' /\ Given' /\ MinAlarm'
      BY <1>1 DEF Inv, Intervals, Given, MinAlarm, Slow, Active
    <2>21. InHandler'
      <3>1. ~NoCheck'
        BY <2>5, <2>13 DEF NoCheck
      <3>2. "add" \in state
        BY <1>2, <1>4 DEF Inv, Bits
      <3>3. PICK n \in Nodes : Active(n) /\ tpmin # Nil /\ node[tpmin].wakeup <= node[n].wakeup
        BY <1>2, <3>2 DEF Inv, AtLink
      <3>4. tpmin \in Nodes /\ node[tpmin].wakeup \in Nat /\ node[n].wakeup \in Nat /\ alarm \in Nat
        <4>1. tpmin \in Nodes
          BY <1>2, <3>3, NodeFacts DEF Ptr
        <4> QED
          BY <1>2, <4>1, NodeFacts
      <3>5. ~Slow /\ alarm > 0 => alarm <= node[n].wakeup
        BY <3>3, <3>4 DEF Inv, MinAlarm
      <3> QED
        BY <1>1, <2>3, <3>1, <3>3, <3>5 DEF InHandler, Slow, Active
    <2>22. AtAct' /\ AtBreak' /\ AtLink' /\ Outside'
      BY <2>14 DEF AtAct, AtBreak, AtLink, Outside
    <2>23. AtWalk'
      BY <1>2, <2>4, <2>5, <2>13 DEF AtWalk, InDel
    <2> QED
      BY <2>13, <2>15, <2>16, <2>17, <2>18, <2>19, <2>20, <2>21, <2>22, <2>23 DEF Inv
  <1>5. CASE "defer" \notin state
    <2>1. state' = state \ {"add"} /\ GoTo("give") /\ left' = left
      BY <1>5 DEF End
    <2>2. /\ Framed(stack, adds, base)' /\ stack' # <<>> /\ Top' \in Range(stack')
          /\ Top'.at = "give" /\ Top'.tp = Top.tp /\ Top'.id = Top.id
          /\ Range(stack') \subseteq Range(stack) \cup {Top'}
      <3>1. SameCode(Top.at, "give") /\ "give" \in InAlarm \cup InAdd \cup InDel \cup InUser
        BY <1>2 DEF SameCode, InAdd
      <3> QED
        BY <1>1, <1>2, <2>1, <3>1, GoToIs
    <2>3. /\ ~AtTop(InAlarm)' /\ ~AtTop({"ran"})' /\ ~AtTop({"link"})' /\ ~AtTop(Adding)' /\ ~AtTop({"end"})'
          /\ ~AtTop({"scan", "act", "break"})' /\ ~AtTop(InAlarm \cup InDel \cup {"link"})'
          /\ ~AtTop(InAlarm \cup InDel \cup {"link"})
      BY <1>2, <2>2 DEF AtTop, InAlarm, InDel, Adding, Filling
    <2>4. TypeOK' /\ (odd \subseteq {"lost", "slow"})'
      BY <1>1, <2>1 DEF Inv, TypeOK
    <2>5. Bits'
      BY <1>2, <1>5, <2>1, <2>3 DEF Inv, Bits
    <2>6. Counted'
      <3>1. ASSUME NEW f \in Range(stack'), f.at = "give", f.id = Top.id
            PROVE  Numbered(f)'
        BY <1>1, <1>2, <3>1 DEF Numbered, InAdd, Adding, Filling
      <3> QED
        BY <1>1, <1>2, <2>2, <3>1, CountedKept
    <2>7. Sound'
      <3>1. \A h \in Range(stack') : Harmless(h)
        BY <2>2 DEF Harmless
      <3> QED
        BY <1>1, <1>2, <1>3, <3>1, SoundKept, FewerSame DEF Lost
    <2>8. Handles'
      <3>1. ASSUME NEW f \in Range(stack'), f.id = Top.id, f.tp = Top.tp
            PROVE  \A n \in Nodes : Active(n) /\ node[n].id = f.id /\ base = "dfl" => f.tp = n
        BY <1>2, <3>1 DEF Inv, Handles
      <3> QED
        BY <1>1, <2>2, <3>1, HandlesKept, FewerSame
    <2>9. Intervals' /\ Given' /\ MinAlarm' /\ InHandler' /\ AtAct' /\ AtBreak' /\ AtLink' /\ AtWalk' /\ Outside'
      <3>1. \A f \in Range(stack') : f.at \in InDel => f \in Range(stack)
        BY <2>2 DEF InDel
      <3>2. UNCHANGED <<tpmin, left, kernel, clock, odd>>
        BY <1>1, <2>1 DEF kernel
      <3>3. Fewer /\ ("defer" \in state' <=> "defer" \in state)
        BY <1>1, <2>1, FewerSame
      <3> QED
        BY <2>3, <3>1, <3>2, <3>3, CalmKeeps
    <2> QED
      BY <2>2, <2>4, <2>5, <2>6, <2>7, <2>8, <2>9 DEF Inv
  <1> QED
    BY <1>4, <1>5

\* The frames of a step inside sh_timeradd().
LEMMA AddStepIs ==
    ASSUME Inv, stack # <<>>, Top.at \in InAdd, NEW a \in InAdd \ {"top"}, NEW p \in Ptr,
           GoToWith(a, p) \/ (GoTo(a) /\ p = Top.tp), adds' = adds, base' = base
    PROVE  /\ Framed(stack, adds, base)' /\ stack' # <<>> /\ Top' \in Range(stack')
           /\ Top'.at = a /\ Top'.tp = p /\ Top'.kind = Top.kind /\ Top'.d = Top.d /\ Top'.id = Top.id
           /\ Range(stack') \subseteq Range(stack) \cup {Top'}
           /\ \A f \in Range(stack') : f = Top' \/ f.at \in {"top"} \cup InUser
           /\ \A S : AtTop(S)' <=> a \in S
  <1>1. /\ SameCode(Top.at, a) /\ a \in InAlarm \cup InAdd \cup InDel \cup InUser
        /\ a # "top" /\ a \notin {"assign", "wait", "pause", "del"}
    BY DEF SameCode, InAdd
  <1>2. /\ Framed(stack, adds, base)' /\ stack' # <<>> /\ Top' \in Range(stack')
        /\ Top'.at = a /\ Top'.tp = p /\ Top'.kind = Top.kind /\ Top'.d = Top.d /\ Top'.id = Top.id
        /\ Range(stack') \subseteq Range(stack) \cup {Top'}
    <2>1. CASE GoToWith(a, p)
      BY <1>1, <2>1, GoToWithIs
    <2>2. CASE GoTo(a) /\ p = Top.tp
      BY <1>1, <2>2, GoToIs
    <2> QED
      BY <2>1, <2>2
  <1>3. Top' = stack'[1] /\ adds \in Nat
    BY StackFacts DEF Top
  <1>4. \A f \in Range(stack') : f = Top' \/ f.at \in {"top"} \cup InUser
    BY <1>2, <1>3, FramedTop
  <1> QED
    BY <1>2, <1>4 DEF AtTop

\* The lists when one frame is inside sh_timeradd().
LEMMA ListsWith ==
    ASSUME NEW T, NEW F, NEW r, NEW high,
           T \cup F \subseteq 1 .. malloced', T \cap F = {},
           r \in [Nodes -> Nat], high \in Nat, Distinct(F, r), \A n \in F : r[n] < high,
           Distinct(T, Ids(node')), \A n \in T : node'[n].id \in 1 .. adds',
           Linked(T, tptop', Ids(node'), node'), Linked(F, tpfree', r, node'),
           \A n \in Nodes : Active(n)' => n \in T \/ Linking(n)',
           tpmin' \in T \cup {Nil},
           \A f \in Range(stack') : f.at \notin {"top"} \cup InUser => Holds(f, T, F)'
    PROVE  Lists(T, F, r, high)'
  <1>1. \A f \in Range(stack') : f.at \in {"top"} \cup InUser => Holds(f, T, F)'
    BY DEF Holds, InUser, Adding, Filling
  <1> QED
    BY <1>1 DEF Lists

\* The cell is taken from the free ones, or there is a new one.
LEMMA TakeKeeps ==
    ASSUME Inv, Take
    PROVE  Inv'
  <1>1. /\ At("take")
        /\ UNCHANGED <<node, tptop, tpmin, tpfree, state, left, base, handler, alarm, pending, timeout, clock, adds, fired, odd>>
    BY DEF Take, rest, kernel
  <1>2. /\ stack # <<>> /\ Top.at = "take" /\ Top \in Range(stack) /\ Top.at \in InAdd
        /\ Fits(Top, adds, base) /\ Numbered(Top)
        /\ \A S : AtTop(S) <=> "take" \in S
        /\ \A f \in Range(stack) : f.at \notin InDel
        /\ adds \in Nat /\ TypeOK
    BY <1>1, AddFacts DEF InAdd
  <1>3. malloced < adds /\ malloced \in Nat /\ MaxAdds \in Nat /\ adds <= MaxAdds /\ tpfree \in Ptr
    BY <1>2, NodeFacts, Consts DEF Numbered
  <1>4. PICK T \in SUBSET Nodes, F \in SUBSET Nodes, r \in [Nodes -> Nat], high \in Nat : Lists(T, F, r, high)
    BY DEF Inv, Sound
  <1>5. tpfree \in F \cup {Nil} /\ Holds(Top, T, F) /\ T \cup F \subseteq 1 .. malloced
    BY <1>2, <1>4, ListsFacts DEF Lists
  <1>6. PICK a, p : \/ /\ a = "pop" /\ p = tpfree /\ p # Nil /\ malloced' = malloced
                    \/ /\ a = "fill" /\ p = malloced + 1 /\ malloced' = malloced + 1
    BY DEF Take
  <1>7. GoToWith(a, p)
    BY <1>6, <1>3 DEF Take
  <1>8. p \in Ptr /\ malloced' \in Nat /\ malloced <= malloced' /\ malloced' <= adds /\ malloced' \in 0 .. MaxAdds
    <2>1. CASE p = tpfree /\ malloced' = malloced
      BY <1>2, <1>3, <2>1
    <2>2. CASE p = malloced + 1 /\ malloced' = malloced + 1
      <3>1. /\ malloced + 1 \in Nat /\ malloced <= malloced + 1 /\ malloced + 1 <= adds
            /\ malloced + 1 \in 0 .. MaxAdds /\ malloced + 1 \in 1 .. MaxAdds
        BY <1>2, <1>3
      <3> QED
        BY <2>2, <3>1 DEF Ptr, Nodes
    <2> QED
      BY <1>6, <2>1, <2>2
  <1>9. /\ Framed(stack, adds, base)' /\ stack' # <<>> /\ Top' \in Range(stack')
        /\ Top'.at = a /\ Top'.tp = p /\ Top'.kind = Top.kind /\ Top'.id = Top.id
        /\ Range(stack') \subseteq Range(stack) \cup {Top'}
        /\ \A f \in Range(stack') : f = Top' \/ f.at \in {"top"} \cup InUser
        /\ \A S : AtTop(S)' <=> a \in S
    <2>1. a \in InAdd \ {"top"}
      BY <1>6 DEF InAdd
    <2> QED
      BY <1>1, <1>2, <1>7, <1>8, <2>1, AddStepIs
  <1>10. a \in {"pop", "fill"} /\ a \in Filling /\ a \in Adding
    BY <1>6 DEF Adding, Filling
  <1>11. TypeOK' /\ (odd \subseteq {"lost", "slow"})'
    BY <1>1, <1>8 DEF Inv, TypeOK
  <1>12. Bits'
    <2>1. ~AtTop(InAlarm) /\ AtTop(Filling) /\ AtTop(Adding) /\ ~AtTop({"link", "end"})
      BY <1>2 DEF InAlarm, Filling, Adding
    <2>2. /\ ~AtTop(InAlarm)' /\ ~AtTop({"link"})' /\ ~AtTop({"ran"})' /\ ~AtTop({"scan", "act", "break"})'
          /\ AtTop(Filling)' /\ AtTop(Adding)'
      BY <1>9, <1>10 DEF InAlarm
    <2> QED
      BY <1>1, <1>9, <2>1, <2>2 DEF Inv, Bits
  <1>13. Counted'
    <2>1. ASSUME NEW f \in Range(stack'), f.at = a, f.id = Top.id, f.kind = Top.kind
          PROVE  Numbered(f)'
      BY <1>1, <1>2, <1>10, <2>1 DEF Numbered, InAdd, Adding, Filling
    <2>2. ASSUME NEW f \in Range(stack'), f.at \in {"top"} \cup InUser
          PROVE  Numbered(f)'
      <3>1. f \in Range(stack)
        BY <1>9, <1>10, <2>2 DEF InUser
      <3>2. Numbered(f)
        BY <3>1 DEF Inv, Counted
      <3> QED
        BY <1>1, <2>2, <3>2 DEF Numbered, InUser
    <2>3. \A f \in Range(stack') : Numbered(f)'
      BY <1>9, <2>1, <2>2
    <2> QED
      BY <1>1, <1>8, <2>3 DEF Inv, Counted
  <1>14. Lists(T, F, r, high)'
    <2>1. ASSUME NEW f \in Range(stack'), f.at = a, f.tp = p
          PROVE  Holds(f, T, F)'
      <3>1. \A n \in T : node[n].id < adds
        BY <1>2, <1>5 DEF Holds, Adding, Filling
      <3>2. a = "pop" => p \in F
        BY <1>5, <1>6
      <3>3. a = "fill" => p \in (1 .. malloced') \ (T \cup F)
        <4>1. malloced + 1 \notin 1 .. malloced
          BY <1>3
        <4>2. malloced + 1 \in 1 .. malloced + 1
          BY <1>3
        <4> QED
          BY <1>5, <1>6, <4>1, <4>2
      <3> QED
        BY <1>1, <1>10, <2>1, <3>1, <3>2, <3>3 DEF Holds
    <2>2. \A f \in Range(stack') : Harmless(f) \/ Holds(f, T, F)'
      BY <1>9, <2>1 DEF Harmless
    <2>3. ~AtTop({"link"}) /\ \A n \in Nodes : ~Linking(n)
      BY <1>2 DEF Linking
    <2>4. UNCHANGED <<tptop, tpfree>> /\ tpmin' \in {tpmin, Nil} /\ (Lost => Lost')
      BY <1>1 DEF Lost
    <2>5. adds' \in Nat /\ adds <= adds' /\ Fewer
      BY <1>1, <1>2, FewerSame
    <2> QED
      BY <1>4, <1>8, <2>2, <2>3, <2>4, <2>5, ListsKept
  <1>15. Sound'
    BY <1>14 DEF Sound
  <1>16. Handles'
    BY <1>1, <1>9, <1>10, HandlesKept, FewerSame DEF InUser
  <1>17. Intervals' /\ Given' /\ MinAlarm' /\ InHandler' /\ AtAct' /\ AtBreak' /\ AtLink' /\ AtWalk' /\ Outside'
    <2>1. \A f \in Range(stack') : f.at \in InDel => f \in Range(stack)
      BY <1>9, <1>10 DEF InDel
    <2>2. UNCHANGED <<tpmin, left, kernel, clock, odd>> /\ Fewer /\ state' = state
      BY <1>1, FewerSame DEF kernel
    <2>3. /\ ~AtTop(InAlarm \cup InDel \cup {"link"}) /\ ~AtTop(InAlarm \cup InDel \cup {"link"})' /\ ~AtTop({"end"})'
      BY <1>2, <1>9, <1>10 DEF InAlarm, InDel
    <2> QED
      BY <2>1, <2>2, <2>3, CalmKeeps
  <1> QED
    BY <1>9, <1>11, <1>12, <1>13, <1>15, <1>16, <1>17 DEF Inv

\* The list of free cells goes on with what comes after the cell that was read.
LEMMA PopKeeps ==
    ASSUME Inv, Pop
    PROVE  Inv'
  <1>1. /\ At("pop") /\ tpfree' = node[Top.tp].next /\ GoTo("fill")
        /\ UNCHANGED <<node, malloced, tptop, tpmin, state, left, base, handler, alarm, pending, timeout, clock, adds, fired, odd>>
    BY DEF Pop, rest, kernel
  <1>2. /\ stack # <<>> /\ Top.at = "pop" /\ Top \in Range(stack) /\ Top.at \in InAdd
        /\ Fits(Top, adds, base) /\ Numbered(Top) /\ Top.tp \in Ptr
        /\ \A S : AtTop(S) <=> "pop" \in S
        /\ \A f \in Range(stack) : f.at \notin InDel
        /\ adds \in Nat /\ TypeOK
    BY <1>1, AddFacts DEF InAdd
  <1>4. PICK T \in SUBSET Nodes, F \in SUBSET Nodes, r \in [Nodes -> Nat], high \in Nat : Lists(T, F, r, high)
    BY DEF Inv, Sound
  <1>5. /\ Holds(Top, T, F) /\ T \cup F \subseteq 1 .. malloced /\ T \cap F = {} /\ Top.tp \in F /\ Top.tp \in Nodes
        /\ \A n \in T : node[n].id < adds
    <2>1. Holds(Top, T, F)
      BY <1>2, <1>4 DEF Lists
    <2> QED
      BY <1>2, <1>4, <2>1 DEF Lists, Holds, Adding, Filling
  <1>6. tpfree' \in Ptr
    BY <1>1, <1>2, <1>5, NodeFacts
  <1>9. /\ Framed(stack, adds, base)' /\ stack' # <<>> /\ Top' \in Range(stack')
        /\ Top'.at = "fill" /\ Top'.tp = Top.tp /\ Top'.kind = Top.kind /\ Top'.id = Top.id
        /\ Range(stack') \subseteq Range(stack) \cup {Top'}
        /\ \A f \in Range(stack') : f = Top' \/ f.at \in {"top"} \cup InUser
        /\ \A S : AtTop(S)' <=> "fill" \in S
    <2>1. "fill" \in InAdd \ {"top"}
      BY DEF InAdd
    <2> QED
      BY <1>1, <1>2, <2>1, AddStepIs
  <1>11. TypeOK' /\ (odd \subseteq {"lost", "slow"})'
    BY <1>1, <1>6 DEF Inv, TypeOK
  <1>12. Bits'
    <2>1. ~AtTop(InAlarm) /\ AtTop(Filling) /\ AtTop(Adding) /\ ~AtTop({"link", "end"})
      BY <1>2 DEF InAlarm, Filling, Adding
    <2>2. /\ ~AtTop(InAlarm)' /\ ~AtTop({"link"})' /\ ~AtTop({"ran"})' /\ ~AtTop({"scan", "act", "break"})'
          /\ AtTop(Filling)' /\ AtTop(Adding)'
      BY <1>9 DEF InAlarm, Filling, Adding
    <2> QED
      BY <1>1, <1>9, <2>1, <2>2 DEF Inv, Bits
  <1>13. Counted'
    <2>1. ASSUME NEW f \in Range(stack'), f.at = "fill", f.id = Top.id, f.kind = Top.kind
          PROVE  Numbered(f)'
      BY <1>1, <1>2, <2>1 DEF Numbered, InAdd, Adding, Filling
    <2>2. ASSUME NEW f \in Range(stack'), f.at \in {"top"} \cup InUser
          PROVE  Numbered(f)'
      <3>1. f \in Range(stack)
        BY <1>9, <2>2 DEF InUser
      <3>2. Numbered(f)
        BY <3>1 DEF Inv, Counted
      <3> QED
        BY <1>1, <2>2, <3>2 DEF Numbered, InUser
    <2>3. \A f \in Range(stack') : Numbered(f)'
      BY <1>9, <2>1, <2>2
    <2> QED
      BY <1>1, <2>3 DEF Inv, Counted
  <1>20. PICK n : n = Top.tp
    OBVIOUS
  <1>21. PICK G : G = {m \in F : r[m] < r[n]}
    OBVIOUS
  <1>14. Linked(G, tpfree', r, node)
    <2>1. tpfree' = Highest(G, r)
      BY <1>1, <1>4, <1>5, <1>20, <1>21 DEF Lists, Linked
    <2>2. ASSUME NEW m \in G
          PROVE  node[m].next = Highest({x \in G : r[x] < r[m]}, r)
      <3>1. \A x \in F : r[x] \in Nat
        BY <1>4
      <3>2. {x \in G : r[x] < r[m]} = {x \in F : r[x] < r[m]}
        BY <1>5, <1>20, <1>21, <3>1
      <3> QED
        BY <3>2, <1>4, <1>21 DEF Lists, Linked
    <2> QED
      BY <2>1, <2>2 DEF Linked
  <1>15. /\ G \in SUBSET Nodes /\ G \subseteq F /\ n \notin G
         /\ T \in SUBSET Nodes /\ F \in SUBSET Nodes /\ r \in [Nodes -> Nat] /\ high \in Nat
    BY <1>4, <1>5, <1>20, <1>21
  <1>16. Lists(T, G, r, high)'
    <2>1. \A f \in Range(stack') : f.at \notin {"top"} \cup InUser => Holds(f, T, G)'
      <3> SUFFICES ASSUME NEW f \in Range(stack'), f.at = "fill", f.tp = n
                   PROVE  Holds(f, T, G)'
        BY <1>9, <1>20
      <3>1. f.tp \in (1 .. malloced) \ (T \cup G)
        BY <1>5, <1>15, <1>20
      <3>2. \A m \in T : node'[m].id < adds'
        BY <1>1, <1>5
      <3> QED
        BY <1>1, <3>1, <3>2 DEF Holds
    <2>2. /\ T \cup G \subseteq 1 .. malloced' /\ T \cap G = {} /\ Distinct(G, r) /\ \A m \in G : r[m] < high
      BY <1>1, <1>4, <1>5, <1>15 DEF Lists, Distinct
    <2>3. /\ Distinct(T, Ids(node')) /\ \A m \in T : node'[m].id \in 1 .. adds'
          /\ Linked(T, tptop', Ids(node'), node') /\ Linked(G, tpfree', r, node')
      BY <1>1, <1>4, <1>14 DEF Lists
    <2>4. \A m \in Nodes : Active(m)' => m \in T \/ Linking(m)'
      BY <1>1, <1>2, <1>4 DEF Lists, Active, Linking
    <2>5. tpmin' \in T \cup {Nil}
      BY <1>1, <1>4 DEF Lists
    <2> QED
      BY <1>15, <2>1, <2>2, <2>3, <2>4, <2>5, ListsWith
  <1>17. Sound'
    BY <1>15, <1>16 DEF Sound
  <1>18. Handles'
    BY <1>1, <1>9, HandlesKept, FewerSame DEF InUser
  <1>19. Intervals' /\ Given' /\ MinAlarm' /\ InHandler' /\ AtAct' /\ AtBreak' /\ AtLink' /\ AtWalk' /\ Outside'
    <2>1. \A f \in Range(stack') : f.at \in InDel => f \in Range(stack)
      BY <1>9 DEF InDel
    <2>2. UNCHANGED <<tpmin, left, kernel, clock, odd>> /\ Fewer /\ state' = state
      BY <1>1, FewerSame DEF kernel
    <2>3. /\ ~AtTop(InAlarm \cup InDel \cup {"link"}) /\ ~AtTop(InAlarm \cup InDel \cup {"link"})' /\ ~AtTop({"end"})'
      BY <1>2, <1>9 DEF InAlarm, InDel
    <2> QED
      BY <2>1, <2>2, <2>3, CalmKeeps
  <1> QED
    BY <1>9, <1>11, <1>12, <1>13, <1>17, <1>18, <1>19 DEF Inv

\* A list does not change with the cells that are not on it.
LEMMA LinkedSame ==
    ASSUME NEW S \in SUBSET Nodes, NEW p, NEW r, NEW b \in Nat, NEW nd, \A n \in S : r[n] \in Nat /\ r[n] <= b,
           Distinct(S, r), Linked(S, p, r, nd),
           NEW q, \A n \in S : q[n] = r[n], NEW md, \A n \in S : md[n].next = nd[n].next
    PROVE  Distinct(S, q) /\ Linked(S, p, q, md)
  <1>1. Distinct(S, q)
    BY DEF Distinct
  <1>2. ASSUME NEW X \in SUBSET S
        PROVE  Highest(X, q) = Highest(X, r)
    <2>1. CASE X = {}
      BY <2>1 DEF Highest
    <2>2. CASE X # {}
      <3>1. Highest(X, r) \in X /\ \A m \in X : r[m] <= r[Highest(X, r)]
        BY <2>2, HighestIn
      <3>2. PICK h \in X : h = Highest(X, r)
        BY <3>1
      <3>3. \A m \in X : q[m] \in Nat /\ q[m] <= q[h]
        BY <3>1, <3>2
      <3>4. Distinct(X, q)
        BY <1>1 DEF Distinct
      <3> QED
        BY <3>2, <3>3, <3>4, HighestIs
    <2> QED
      BY <2>1, <2>2
  <1>3. p = Highest(S, q)
    BY <1>2 DEF Linked
  <1>4. ASSUME NEW n \in S
        PROVE  md[n].next = Highest({m \in S : q[m] < q[n]}, q)
    <2>1. {m \in S : q[m] < q[n]} = {m \in S : r[m] < r[n]}
      OBVIOUS
    <2>2. {m \in S : r[m] < r[n]} \in SUBSET S
      OBVIOUS
    <2> QED
      BY <1>2, <2>1, <2>2 DEF Linked
  <1> QED
    BY <1>1, <1>3, <1>4 DEF Linked

\* The reads that wait below a call of sh_timeradd() are older.
LEMMA ReadBelow ==
    ASSUME Inv, stack # <<>>, Top.at \in InAdd, Top.kind # "old", NEW f \in Range(stack), f.at = "read"
    PROVE  f.id < Top.id
  <1>1. stack \in Seq(Frames) /\ Len(stack) \in Nat /\ 1 \in 1 .. Len(stack)
    BY StackFacts
  <1>2. 1 < Len(stack) /\ Calls(stack[1], stack[1 + 1])
    BY <1>1, StackFacts DEF Framed, Top
  <1>3. stack[2].at = "adding" /\ stack[2].id = Top.id /\ 2 \in 1 .. Len(stack)
    BY <1>1, <1>2 DEF Calls, Top
  <1>4. PICK i \in 1 .. Len(stack) : stack[i] = f
    BY <1>1, RangeIs
  <1>5. i # 1 /\ i # 2
    BY <1>3, <1>4 DEF Top, InAdd
  <1>6. 2 < i
    BY <1>1, <1>5
  <1> QED
    BY <1>3, <1>4, <1>6, BelowUser DEF InUser

\* The cell is filled in while it is on neither list.
LEMMA FillKeeps ==
    ASSUME Inv, Fill
    PROVE  Inv'
  <1>0. PICK n : n = Top.tp
    OBVIOUS
  <1>1. /\ At("fill") /\ GoTo("link") /\ state' = state \cup {"add"}
        /\ node' = [node EXCEPT ![n] =
                      [wakeup |-> clock + Top.d, incr |-> IF Top.kind = "touch" THEN Top.d ELSE 0,
                       action |-> Top.kind, next |-> tptop, id |-> Top.id]]
        /\ UNCHANGED <<malloced, tptop, tpmin, tpfree, left, base, handler, alarm, pending, timeout, clock, adds, fired, odd>>
    BY <1>0 DEF Fill, rest, kernel
  <1>2. /\ stack # <<>> /\ Top.at = "fill" /\ Top \in Range(stack) /\ Top.at \in InAdd
        /\ Fits(Top, adds, base) /\ Numbered(Top) /\ n \in Ptr /\ Top.d \in Nat /\ ~pending
        /\ \A S : AtTop(S) <=> "fill" \in S
        /\ \A f \in Range(stack) : f.at \notin InDel
        /\ adds \in Nat /\ TypeOK
    BY <1>0, <1>1, AddFacts DEF InAdd
  <1>3. /\ adds \in 0 .. MaxAdds /\ malloced \in 0 .. MaxAdds /\ MaxAdds \in Nat /\ tptop \in Ptr /\ tpmin \in Ptr
        /\ clock \in Nat /\ node \in [Nodes -> Cells] /\ \A m \in Nodes : node[m].id \in 0 .. MaxAdds
    BY <1>2, NodeFacts, Consts
  <1>4. PICK T \in SUBSET Nodes, F \in SUBSET Nodes, r \in [Nodes -> Nat], high \in Nat : Lists(T, F, r, high)
    BY DEF Inv, Sound
  <1>5. /\ T \cup F \subseteq 1 .. malloced /\ T \cap F = {} /\ n \in 1 .. malloced /\ n \notin T \cup F /\ n \in Nodes
        /\ \A m \in T : node[m].id < adds
    <2>1. Holds(Top, T, F)
      BY <1>2, <1>4 DEF Lists
    <2>2. n \in (1 .. malloced) \ (T \cup F) /\ \A m \in T : node[m].id < adds
      BY <1>0, <1>2, <2>1 DEF Holds, Adding, Filling
    <2>3. 1 .. malloced \subseteq Nodes
      BY <1>3 DEF Nodes
    <2> QED
      BY <1>4, <2>2, <2>3 DEF Lists
  <1>6. /\ Top.kind \in Clients \cup {"old"} /\ Top.id \in 1 .. adds /\ Top.id = adds /\ Top.kind # "none"
    BY <1>2 DEF Fits, Numbered, InAdd, Adding, Filling, Clients, Statics
  <1>7. /\ \A m \in Nodes \ {n} : node'[m] = node[m]
        /\ node'[n].wakeup = clock + Top.d /\ node'[n].next = tptop /\ node'[n].id = Top.id /\ node'[n].action = Top.kind
        /\ node'[n].incr # 0 => Top.kind = "touch"
    BY <1>1, <1>3, <1>5
  <1>8. node' \in [Nodes -> Cells]
    <2>1. Top.id \in 0 .. MaxAdds
      BY <1>3, <1>6
    <2> DEFINE c == [wakeup |-> clock + Top.d, incr |-> IF Top.kind = "touch" THEN Top.d ELSE 0,
                     action |-> Top.kind, next |-> tptop, id |-> Top.id]
    <2>2. clock + Top.d \in Nat /\ (IF Top.kind = "touch" THEN Top.d ELSE 0) \in Nat
      BY <1>2, <1>3
    <2>3. c \in Cells
      BY <1>3, <1>6, <2>1, <2>2 DEF Cells
    <2>4. node' = [node EXCEPT ![n] = c]
      BY <1>1
    <2> HIDE DEF c
    <2> QED
      BY <1>3, <2>3, <2>4
  <1>9. /\ Framed(stack, adds, base)' /\ stack' # <<>> /\ Top' \in Range(stack')
        /\ Top'.at = "link" /\ Top'.tp = n /\ Top'.kind = Top.kind /\ Top'.d = Top.d /\ Top'.id = Top.id
        /\ Range(stack') \subseteq Range(stack) \cup {Top'}
        /\ \A f \in Range(stack') : f = Top' \/ f.at \in {"top"} \cup InUser
        /\ \A S : AtTop(S)' <=> "link" \in S
    <2>1. "link" \in InAdd \ {"top"}
      BY DEF InAdd
    <2> QED
      BY <1>0, <1>1, <1>2, <2>1, AddStepIs
  <1>10. \A m \in Nodes : /\ Active(m)' => m = n \/ Active(m)
                          /\ ~Linking(m)
                          /\ Linking(m)' <=> m = n
    BY <1>2, <1>7, <1>9 DEF Active, Linking
  <1>11. TypeOK' /\ (odd \subseteq {"lost", "slow"})'
    BY <1>1, <1>8 DEF Inv, TypeOK, Cells
  <1>12. Bits'
    <2>1. ~AtTop(InAlarm) /\ AtTop(Filling) /\ AtTop(Adding) /\ ~AtTop({"link", "end"})
      BY <1>2 DEF InAlarm, Filling, Adding
    <2>2. /\ ~AtTop(InAlarm)' /\ ~AtTop({"ran"})' /\ ~AtTop({"scan", "act", "break"})'
          /\ AtTop({"link", "end"})' /\ AtTop(Adding)'
      BY <1>9 DEF InAlarm, Filling, Adding
    <2> QED
      BY <1>1, <1>9, <2>1, <2>2 DEF Inv, Bits
  <1>13. Counted'
    <2>1. ASSUME NEW f \in Range(stack'), f.at = "link", f.id = Top.id, f.kind = Top.kind
          PROVE  Numbered(f)'
      BY <1>1, <1>2, <2>1 DEF Numbered, InAdd, Adding, Filling
    <2>2. ASSUME NEW f \in Range(stack'), f.at \in {"top"} \cup InUser
          PROVE  Numbered(f)'
      <3>1. f \in Range(stack)
        BY <1>9, <2>2 DEF InUser
      <3>2. Numbered(f)
        BY <3>1 DEF Inv, Counted
      <3> QED
        BY <1>1, <2>2, <3>2 DEF Numbered, InUser
    <2>3. \A f \in Range(stack') : Numbered(f)'
      BY <1>9, <2>1, <2>2
    <2> QED
      BY <1>1, <2>3 DEF Inv, Counted
  <1>14. Lists(T, F, r, high)'
    <2>1. /\ \A m \in T : Ids(node)[m] \in Nat /\ Ids(node)[m] <= adds /\ Ids(node')[m] = Ids(node)[m]
          /\ \A m \in T \cup F : node'[m].next = node[m].next
          /\ \A m \in T : node'[m].id = node[m].id /\ node[m].id \in 1 .. adds
          /\ \A m \in F : r[m] \in Nat /\ r[m] <= high
      <3>1. \A m \in T \cup F : m \in Nodes /\ node'[m] = node[m]
        BY <1>4, <1>5, <1>7
      <3>2. \A m \in T : node[m].id \in 1 .. adds /\ node[m].id \in Nat /\ node[m].id <= adds
        BY <1>2, <1>4 DEF Lists
      <3>3. \A m \in T : Ids(node)[m] = node[m].id /\ Ids(node')[m] = node'[m].id
        BY <3>1 DEF Ids
      <3>4. \A m \in F : r[m] \in Nat /\ r[m] <= high
        BY <1>4 DEF Lists
      <3> QED
        BY <3>1, <3>2, <3>3, <3>4
    <2>2. /\ Linked(T, tptop, Ids(node), node) /\ Linked(F, tpfree, r, node)
          /\ Distinct(T, Ids(node)) /\ Distinct(F, r)
      BY <1>4 DEF Lists
    <2>3. Distinct(T, Ids(node')) /\ Linked(T, tptop, Ids(node'), node')
      BY <1>2, <1>4, <2>1, <2>2, LinkedSame
    <2>4. Linked(F, tpfree, r, node')
      BY <1>4, <2>1, <2>2, LinkedSame
    <2>5. \A f \in Range(stack') : f.at \notin {"top"} \cup InUser => Holds(f, T, F)'
      <3> SUFFICES ASSUME NEW f \in Range(stack'), f.at = "link", f.tp = n, f.id = Top.id
                   PROVE  Holds(f, T, F)'
        BY <1>9
      <3>1. \A m \in T : node'[m].id < adds'
        BY <1>1, <1>5, <2>1
      <3>2. n \in (1 .. malloced') \ (T \cup F)
        BY <1>1, <1>5
      <3>3. node'[n].next = tptop' /\ node'[n].id = f.id /\ node'[n].action # "none"
        BY <1>1, <1>6, <1>7
      <3> QED
        BY <3>1, <3>2, <3>3 DEF Holds, Active
    <2>6. \A m \in Nodes : Active(m)' => m \in T \/ Linking(m)'
      BY <1>4, <1>10 DEF Lists
    <2>7. /\ T \cup F \subseteq 1 .. malloced' /\ T \cap F = {} /\ \A m \in F : r[m] < high
          /\ \A m \in T : node'[m].id \in 1 .. adds' /\ tpmin' \in T \cup {Nil}
      BY <1>1, <1>4, <1>5, <2>1 DEF Lists
    <2>8. Linked(T, tptop', Ids(node'), node') /\ Linked(F, tpfree', r, node') /\ tpmin' \in T \cup {Nil}
      BY <1>1, <1>4, <2>3, <2>4 DEF Lists
    <2> QED
      BY <1>4, <2>2, <2>3, <2>5, <2>6, <2>7, <2>8, ListsWith
  <1>15. Sound'
    BY <1>14 DEF Sound
  <1>16. Handles'
    <2> SUFFICES ASSUME base = "dfl", NEW f \in Range(stack'), NEW m \in Nodes,
                        f.at \in {"end", "check", "give", "read"}, Active(m)', node'[m].id = f.id
                 PROVE  f.tp = m
      BY <1>1 DEF Handles
    <2>1. f.at = "read" /\ f \in Range(stack)
      BY <1>9 DEF InUser
    <2>2. Top.kind # "old"
      BY <1>2 DEF Fits
    <2>3. f.id < Top.id
      BY <1>2, <2>1, <2>2, ReadBelow
    <2>4. m # n
      BY <1>7, <2>3, <1>6
    <2> QED
      BY <1>7, <1>10, <2>1, <2>4 DEF Inv, Handles
  <1>17. Intervals'
    BY <1>7, <1>10 DEF Inv, Intervals, Active
  <1>18. tpmin # n /\ (tpmin # Nil => tpmin \in Nodes /\ node'[tpmin].wakeup = node[tpmin].wakeup)
    <2>1. tpmin \in T \cup {Nil} /\ Nil \notin Nodes
      BY <1>4, Consts DEF Lists
    <2> QED
      BY <1>4, <1>5, <1>7, <2>1
  <1>19. Given' /\ MinAlarm'
    BY <1>1, <1>18 DEF Inv, Given, MinAlarm, Slow
  <1>20. ~AtTop(InAlarm)' /\ ~AtTop({"act"})' /\ ~AtTop({"break"})' /\ ~AtTop({"end"})'
    BY <1>9 DEF InAlarm
  <1>21. InHandler' /\ AtAct' /\ AtBreak'
    BY <1>20 DEF InHandler, AtAct, AtBreak
  <1>22. AtLink'
    BY <1>1, <1>7, <1>9, <1>20 DEF AtLink
  <1>23. AtWalk'
    BY <1>9 DEF AtWalk, InUser
  <1>24. Outside'
    <2>1. ~AtTop(InAlarm \cup InDel)
      BY <1>2 DEF InAlarm, InDel
    <2>2. ASSUME ~Lost, NEW m \in Nodes, Active(m)', ~Linking(m)'
          PROVE  /\ tpmin # Nil /\ node'[tpmin].wakeup <= node'[m].wakeup /\ handler = "sigalrm"
                 /\ pending \/ "defer" \in state \/ (alarm > 0 /\ (Slow \/ alarm <= node'[m].wakeup))
      <3>1. m # n /\ Active(m) /\ ~Linking(m) /\ node'[m] = node[m]
        BY <2>2, <1>7, <1>10
      <3> QED
        BY <2>1, <2>2, <3>1, <1>18 DEF Inv, Outside
    <2> QED
      BY <1>1, <2>1, <2>2 DEF Inv, Outside, Lost, Slow
  <1> QED
    BY <1>9, <1>11, <1>12, <1>13, <1>15, <1>16, <1>17, <1>19, <1>21, <1>22, <1>23, <1>24 DEF Inv

\* The frames after the timer has been linked: the caller of sh_timeradd() has
\* its timer, or sh_timeradd() has been called again for an alarm of somebody else.
LEMMA LinkFrames ==
    ASSUME Inv, LinkIn
    PROVE  /\ Framed(stack, adds, base)' /\ stack' # <<>> /\ Top' \in Range(stack')
           /\ adds' \in 0 .. MaxAdds /\ adds' \in Nat /\ adds <= adds' /\ Counted'
           /\ \A f \in Range(stack') : f = Top' \/ f.at \in {"top"} \cup InUser
           /\ \A f \in Range(stack') : f = Top' \/ f.at = "top" \/ f \in Range(stack)
           /\ \/ Top'.at = "take" /\ Top'.kind = "old" /\ adds < adds' /\ state' = state /\ handler' = "sigalrm"
              \/ Top'.at = "end" /\ Top'.tp = Top.tp /\ Top'.id = Top.id /\ adds' = adds
  <1>1. /\ At("link")
        /\ UNCHANGED <<node, malloced, tpfree, left, base, pending, timeout, clock, fired, odd>>
    BY DEF LinkIn
  <1>2. /\ stack # <<>> /\ Top.at = "link" /\ Top \in Frames /\ Top \in Range(stack) /\ Top.at \in InAdd
        /\ Fits(Top, adds, base) /\ Numbered(Top) /\ Top.id \in Nat
        /\ \A S : AtTop(S) <=> "link" \in S
        /\ adds \in Nat /\ TypeOK
    BY <1>1, AddFacts DEF InAdd
  <1>3. /\ adds \in 0 .. MaxAdds /\ malloced \in 0 .. MaxAdds /\ MaxAdds \in Nat /\ alarm \in Nat /\ clock \in Nat
        /\ (alarm # 0 => alarm > clock) /\ handler \in {"sigalrm", base} /\ base \in {"dfl", "fault"}
        /\ malloced <= adds /\ \A i \in 1 .. MaxAdds : i > adds => fired[i] = 0
    BY <1>2, NodeFacts, Consts DEF Inv, Counted
  <1>4. PICK first, chain : /\ first = (tpmin = Nil \/ node[Top.tp].wakeup < node[tpmin].wakeup)
                            /\ chain = (first /\ Remaining > 0 /\ handler = "fault")
    OBVIOUS
  <1>5. /\ IF first
           THEN /\ tpmin' = Top.tp /\ handler' = "sigalrm" /\ alarm' = clock + Top.d
                /\ state' = state
           ELSE /\ state' = state \cup (IF ~Active(tpmin) THEN {"defer"} ELSE {})
                /\ UNCHANGED <<tpmin, handler, alarm>>
        /\ IF chain
           THEN /\ adds' = adds + 1
                /\ stack' = <<AddFrame("old", Remaining, adds + 1),
                              [Top EXCEPT !.at = "top"]>> \o Tail(stack)
           ELSE GoTo("end") /\ UNCHANGED adds
    BY <1>4 DEF LinkIn
  <1>6. \A f \in Range(stack) : f = Top \/ f.at \in {"top"} \cup InUser
    BY <1>1, AddFacts DEF InAdd
  <1>7. ASSUME NEW f \in Range(stack), f.at \in {"top"} \cup InUser, base = "fault" \/ f.at \in InUser \/ adds' = adds
        PROVE  Numbered(f)'
    <2>1. Numbered(f)
      BY <1>7 DEF Inv, Counted
    <2> QED
      BY <1>1, <1>7, <2>1 DEF Numbered, InUser, InAdd, Adding, Filling
  <1>8. CASE chain
    <2>1. /\ first /\ Remaining > 0 /\ handler = "fault"
      BY <1>4, <1>8
    <2>2. base = "fault" /\ alarm > 0 /\ Remaining \in Nat
      BY <1>3, <2>1 DEF Remaining
    <2>3. Top.kind # "old" /\ adds < MaxAdds
      <3>1. AtTop(Adding) /\ Top.at \in Adding
        BY <1>2 DEF Adding
      <3>2. Top.kind # "old"
        BY <2>1, <3>1 DEF Inv, Bits
      <3> QED
        BY <1>2, <2>1, <2>2, <3>1, <3>2 DEF Numbered
    <2>4. PICK f, g, id : /\ id = adds + 1 /\ f = AddFrame("old", Remaining, id)
                          /\ g = [Top EXCEPT !.at = "top"]
      OBVIOUS
    <2>5. stack' = <<f, g>> \o Rest(stack, 1) /\ adds' = id /\ handler' = "sigalrm" /\ state' = state
      <3>1. stack' = <<f, g>> \o Tail(stack)
        BY <1>5, <1>8, <2>4
      <3> QED
        BY <1>2, <1>5, <1>8, <2>1, <2>4, <3>1, TopForms
    <2>6. id \in Nat /\ id \in 1 .. id /\ id \in 0 .. MaxAdds /\ adds < id /\ adds <= id
      BY <1>2, <1>3, <2>3, <2>4
    <2>7. f.at = "take" /\ f.tp = Nil /\ f.kind = "old" /\ f.d = Remaining /\ f.id = id /\ f \in Frames
      BY <2>2, <2>4, <2>6 DEF AddFrame, Frame, Frames, Ptr, InAdd
    <2>8. g.at = "top" /\ g.tp = Top.tp /\ g.kind = Top.kind /\ g.d = Top.d /\ g.id = Top.id /\ g \in Frames
      BY <1>2, <2>4 DEF Frames, InAdd
    <2>9. Fits(f, id, base) /\ Fits(g, id, base) /\ Instead(g, Top) /\ Over(f, g)
      <3>1. 1 .. adds \subseteq 1 .. id
        BY <1>2, <2>6
      <3> QED
        BY <1>2, <2>1, <2>2, <2>3, <2>6, <2>7, <2>8, <3>1, FrameFields
           DEF Fits, InAdd, InUser, InAlarm, InDel, Filling, Over, Instead, Level
    <2>10. \A h \in Frames : Over(Top, h) => Over(f, h) /\ Over(g, h)
      <3>1. \A h \in Frames : Over(Top, h) => Over(g, h)
        BY <1>2, <2>8, <2>9, InsteadOver
      <3>2. ASSUME NEW h \in Frames, Over(Top, h)
            PROVE  Over(f, h)
        <4>1. h.at \in InUser
          BY <1>2, <2>3, <3>2, FrameFields DEF Over
        <4> QED
          BY <2>7, <4>1, FrameFields DEF Over, InAdd, InAlarm, InDel, InUser, Filling
      <3> QED
        BY <3>1, <3>2
    <2>11. /\ stack \in Seq(Frames) /\ Len(stack) \in Nat /\ 1 < Len(stack) /\ Calls(Top, stack[2]) /\ 1 \in 0 .. Len(stack)
      <3>1. stack \in Seq(Frames) /\ Len(stack) \in Nat /\ 1 \in 1 .. Len(stack)
        BY <1>2, StackFacts
      <3>2. 1 < Len(stack) /\ Calls(stack[1], stack[1 + 1])
        BY <3>1, <1>2, StackFacts DEF Framed, Top
      <3> QED
        BY <3>1, <3>2 DEF Top
    <2>12. \A i \in 1 + 1 .. Len(stack) : Over(f, stack[i]) /\ Over(g, stack[i])
      <3> SUFFICES ASSUME NEW i \in 1 + 1 .. Len(stack)
                   PROVE  Over(f, stack[i]) /\ Over(g, stack[i])
        OBVIOUS
      <3>1. i \in 1 .. Len(stack) /\ i > 1
        BY <2>11
      <3> QED
        BY <3>1, <2>10, <2>11, StackFacts
    <2>13. Calls(f, g) /\ Calls(g, stack[1 + 1])
      <3>1. Calls(g, stack[1 + 1])
        BY <2>8, <2>11, InsteadCalls
      <3> QED
        BY <2>7, <2>8, <3>1 DEF Calls
    <2>14. /\ Framed(stack, adds, base)' /\ stack' # <<>> /\ Top' = f /\ f \in Range(stack')
           /\ Range(stack') \subseteq Range(stack) \cup {f, g}
      <3>1. adds' \in Nat /\ adds <= adds' /\ base' = base /\ Fits(f, adds', base) /\ Fits(g, adds', base)
        BY <1>1, <2>5, <2>6, <2>9
      <3>2. /\ f.at \in InAdd => Calls(f, g)
            /\ g.at \in InAdd => 1 < Len(stack) /\ Calls(g, stack[1 + 1])
        BY <2>11, <2>13
      <3> QED
        BY <2>5, <2>9, <2>11, <2>12, <3>1, <3>2, TwoTops
    <2>15. \A h \in Range(stack') : h = f \/ h.at \in {"top"} \cup InUser
      <3>1. f = stack'[1] /\ f.at \in InAdd
        BY <2>7, <2>14 DEF Top, InAdd
      <3> QED
        BY <2>5, <2>6, <2>14, <3>1, FramedTop
    <2>16. Counted'
      <3>1. Numbered(f)'
        <4>1. malloced' < adds' /\ f.id = adds' /\ fired'[f.id] = 0
          BY <1>1, <1>3, <2>5, <2>6, <2>7
        <4> QED
          BY <4>1, <1>1, <2>2, <2>7 DEF Numbered
      <3>2. Numbered(g)'
        BY <1>1, <2>2, <2>8 DEF Numbered, Adding, Filling, InAdd
      <3>3. \A h \in Range(stack') : Numbered(h)'
        BY <1>7, <2>2, <2>14, <2>15, <3>1, <3>2
      <3>4. malloced' <= adds' /\ \A i \in 1 .. MaxAdds : i > adds' => fired'[i] = 0
        BY <1>1, <1>3, <2>5, <2>6
      <3> QED
        BY <3>3, <3>4 DEF Counted
    <2> QED
      BY <2>5, <2>6, <2>7, <2>8, <2>14, <2>15, <2>16
  <1>9. CASE ~chain
    <2>1. GoTo("end") /\ adds' = adds
      BY <1>5, <1>9
    <2>2. /\ Framed(stack, adds, base)' /\ stack' # <<>> /\ Top' \in Range(stack')
          /\ Top'.at = "end" /\ Top'.tp = Top.tp /\ Top'.kind = Top.kind /\ Top'.id = Top.id
          /\ Range(stack') \subseteq Range(stack) \cup {Top'}
          /\ \A f \in Range(stack') : f = Top' \/ f.at \in {"top"} \cup InUser
      <3>1. "end" \in InAdd \ {"top"} /\ Top.tp \in Ptr
        BY <1>2, FrameFields DEF InAdd
      <3> QED
        BY <1>1, <1>2, <2>1, <3>1, AddStepIs
    <2>3. Counted'
      <3>1. ASSUME NEW f \in Range(stack'), f.at = "end", f.id = Top.id
            PROVE  Numbered(f)'
        BY <1>1, <1>2, <2>1, <3>1 DEF Numbered, InAdd, Adding, Filling
      <3>2. \A h \in Range(stack') : Numbered(h)'
        BY <1>7, <2>1, <2>2, <3>1 DEF InUser
      <3> QED
        BY <1>1, <1>3, <2>1, <3>2 DEF Counted
    <2> QED
      BY <1>3, <1>2, <2>1, <2>2, <2>3
  <1> QED
    BY <1>8, <1>9

\* The timer is on the list, and an alarm that is not later is set, or will be by
\* the call of sigalrm() that is put off.
LEMMA LinkInKeeps ==
    ASSUME Inv, LinkIn
    PROVE  Inv'
  <1>0. PICK n : n = Top.tp
    OBVIOUS
  <1>1. /\ At("link") /\ tptop' = n
        /\ UNCHANGED <<node, malloced, tpfree, left, base, pending, timeout, clock, fired, odd>>
    BY <1>0 DEF LinkIn
  <1>2. /\ stack # <<>> /\ Top.at = "link" /\ Top \in Range(stack) /\ ~pending
        /\ Fits(Top, adds, base) /\ Numbered(Top) /\ n \in Ptr /\ Top.d \in Nat /\ Top.id \in Nat
        /\ \A S : AtTop(S) <=> "link" \in S
        /\ adds \in Nat /\ TypeOK
    BY <1>0, <1>1, AddFacts DEF InAdd
  <1>3. /\ adds \in 0 .. MaxAdds /\ malloced \in 0 .. MaxAdds /\ MaxAdds \in Nat /\ tptop \in Ptr /\ tpmin \in Ptr
        /\ clock \in Nat /\ alarm \in Nat /\ Nil \notin Nodes
        /\ \A m \in Nodes : node[m].id \in 0 .. MaxAdds /\ node[m].wakeup \in Nat
    BY <1>2, NodeFacts, Consts
  <1>4. PICK T \in SUBSET Nodes, F \in SUBSET Nodes, r \in [Nodes -> Nat], high \in Nat : Lists(T, F, r, high)
    BY DEF Inv, Sound
  <1>5. /\ T \cup F \subseteq 1 .. malloced /\ T \cap F = {} /\ n \in 1 .. malloced /\ n \notin T \cup F /\ n \in Nodes
        /\ \A m \in T : node[m].id < adds
        /\ node[n].next = tptop /\ node[n].id = adds /\ adds \in 1 .. adds /\ Active(n) /\ Top.d > 0
    <2>1. Holds(Top, T, F)
      BY <1>2, <1>4 DEF Lists
    <2>2. n \in (1 .. malloced) \ (T \cup F) /\ \A m \in T : node[m].id < adds
      BY <1>0, <1>2, <2>1 DEF Holds, Adding, Filling
    <2>3. 1 .. malloced \subseteq Nodes
      BY <1>3 DEF Nodes
    <2>4. node[n].next = tptop /\ node[n].id = Top.id /\ Active(n)
      BY <1>0, <1>2, <2>1 DEF Holds
    <2>5. Top.id = adds /\ Top.id \in 1 .. adds /\ Top.d > 0
      BY <1>2 DEF Numbered, Fits, Adding, Filling, InAdd
    <2> QED
      BY <1>4, <2>2, <2>3, <2>4, <2>5 DEF Lists
  <1>6. \/ /\ tpmin = Nil \/ node[n].wakeup < node[tpmin].wakeup
           /\ tpmin' = n /\ handler' = "sigalrm" /\ alarm' = clock + Top.d /\ state' = state
        \/ /\ tpmin # Nil /\ ~(node[n].wakeup < node[tpmin].wakeup)
           /\ tpmin' = tpmin /\ handler' = handler /\ alarm' = alarm
           /\ state \subseteq state' /\ state' \subseteq state \cup {"defer"} /\ (~Active(tpmin) => "defer" \in state')
    BY <1>0 DEF LinkIn
  <1>7. clock + Top.d \in Nat /\ clock + Top.d > clock /\ clock + Top.d > 0
    BY <1>2, <1>3, <1>5
  <1>8. ~Slow => node[n].wakeup = clock + Top.d
    BY <1>0, <1>2 DEF Inv, AtLink
  <1>9. /\ Framed(stack, adds, base)' /\ stack' # <<>> /\ Top' \in Range(stack')
        /\ adds' \in 0 .. MaxAdds /\ adds' \in Nat /\ adds <= adds' /\ Counted'
        /\ \A f \in Range(stack') : f = Top' \/ f.at \in {"top"} \cup InUser
        /\ \A f \in Range(stack') : f = Top' \/ f.at = "top" \/ f \in Range(stack)
        /\ \/ Top'.at = "take" /\ Top'.kind = "old" /\ adds < adds' /\ state' = state /\ handler' = "sigalrm"
           \/ Top'.at = "end" /\ Top'.tp = n /\ Top'.id = Top.id /\ adds' = adds
    BY <1>0, LinkFrames
  <1>10. /\ ~AtTop(InAlarm)' /\ ~AtTop({"ran"})' /\ ~AtTop({"scan", "act", "break"})'
         /\ ~AtTop({"act"})' /\ ~AtTop({"break"})' /\ ~AtTop({"link"})' /\ ~AtTop(InAlarm \cup InDel)'
    BY <1>9 DEF AtTop, InAlarm, InDel
  <1>11. /\ \A m \in Nodes : /\ Active(m)' <=> Active(m)
                             /\ Linking(m) <=> m = n
                             /\ ~Linking(m)'
    BY <1>0, <1>1, <1>2, <1>10 DEF Active, Linking
  <1>12. "add" \in state /\ "alrm" \notin state /\ ~AtTop(InAlarm) /\ AtTop({"link"})
    BY <1>2 DEF Inv, Bits, InAlarm
  <1>13. TypeOK' /\ (odd \subseteq {"lost", "slow"})'
    <2>1. /\ alarm' \in Nat /\ (alarm' # 0 => alarm' > clock') /\ handler' \in {"sigalrm", base}
          /\ tpmin' \in Ptr /\ tptop' \in Ptr /\ state' \subseteq {"add", "alrm", "defer"}
      BY <1>1, <1>2, <1>3, <1>6, <1>7, NodeFacts
    <2> QED
      BY <1>1, <1>9, <2>1 DEF Inv, TypeOK
  <1>14. Bits'
    <2>1. CASE Top'.at = "take" /\ Top'.kind = "old" /\ state' = state /\ handler' = "sigalrm"
      <3>1. AtTop(Filling)'
        BY <1>9, <2>1 DEF AtTop, Filling
      <3> QED
        BY <1>10, <1>12, <2>1, <3>1 DEF Bits
    <2>2. CASE Top'.at = "end"
      <3>1. AtTop({"link", "end"})' /\ ~AtTop(Adding)'
        BY <1>9, <2>2 DEF AtTop, Adding, Filling
      <3>2. "add" \in state' /\ "alrm" \notin state'
        BY <1>6, <1>12
      <3> QED
        BY <1>10, <3>1, <3>2 DEF Bits
    <2> QED
      BY <1>9, <2>1, <2>2
  <1>15. PICK U : U = T \cup {n}
    OBVIOUS
  <1>16. \A m \in U : m \in Nodes /\ node[m].id \in Nat /\ node[m].id <= adds /\ Ids(node)[m] = node[m].id
    BY <1>2, <1>4, <1>5, <1>15 DEF Lists, Ids
  <1>17. Distinct(U, Ids(node)) /\ Linked(U, n, Ids(node), node)
    <2>1. /\ \A m \in T : node[m].id \in Nat /\ node[m].id < adds
          /\ Distinct(T, Ids(node)) /\ Linked(T, tptop, Ids(node), node)
      BY <1>4, <1>5, <1>15, <1>16 DEF Lists
    <2>2. Distinct(U, Ids(node))
      BY <1>5, <1>15, <1>16, <2>1 DEF Distinct
    <2>3. n = Highest(U, Ids(node))
      <3>1. n \in U /\ \A m \in U : Ids(node)[m] \in Nat /\ Ids(node)[m] <= Ids(node)[n]
        BY <1>5, <1>15, <1>16
      <3> QED
        BY <2>2, <3>1, HighestIs
    <2>4. ASSUME NEW m \in U
          PROVE  node[m].next = Highest({x \in U : Ids(node)[x] < Ids(node)[m]}, Ids(node))
      <3>1. CASE m = n
        <4>2. n \in U /\ Ids(node)[n] = adds /\ ~ (Ids(node)[n] < Ids(node)[n])
          BY <1>2, <1>5, <1>15, <1>16
        <4>3. \A x \in T : Ids(node)[x] < Ids(node)[n]
          BY <1>15, <1>16, <2>1, <4>2
        <4>1. {x \in U : Ids(node)[x] < Ids(node)[n]} = T
          BY <1>15, <4>2, <4>3
        <4> QED
          BY <3>1, <4>1, <1>5, <2>1 DEF Linked
      <3>2. CASE m # n
        <4>1. m \in T
          BY <1>15, <3>2
        <4>2. {x \in U : Ids(node)[x] < Ids(node)[m]} = {x \in T : Ids(node)[x] < Ids(node)[m]}
          BY <4>1, <1>5, <1>15, <1>16, <2>1
        <4> QED
          BY <4>1, <4>2, <2>1 DEF Linked
      <3> QED
        BY <3>1, <3>2
    <2> QED
      BY <2>2, <2>3, <2>4 DEF Linked
  <1>18. Lists(U, F, r, high)'
    <2>1. \A f \in Range(stack') : f.at \notin {"top"} \cup InUser => Holds(f, U, F)'
      <3>1. ASSUME NEW f \in Range(stack'), f.at = "end"
            PROVE  Holds(f, U, F)'
        BY <3>1 DEF Holds, Adding, Filling
      <3>2. ASSUME NEW f \in Range(stack'), f.at = "take", adds < adds'
            PROVE  Holds(f, U, F)'
        <4>1. \A m \in U : node'[m].id < adds'
          BY <1>1, <1>2, <1>9, <1>16, <3>2
        <4> QED
          BY <3>2, <4>1 DEF Holds
      <3> QED
        BY <1>9, <3>1, <3>2
    <2>2. \A m \in Nodes : Active(m)' => m \in U \/ Linking(m)'
      BY <1>4, <1>11, <1>15 DEF Lists
    <2>3. /\ U \cup F \subseteq 1 .. malloced' /\ U \cap F = {} /\ Distinct(F, r) /\ \A m \in F : r[m] < high
          /\ r \in [Nodes -> Nat] /\ high \in Nat
      BY <1>1, <1>4, <1>5, <1>15 DEF Lists
    <2>4. /\ Distinct(U, Ids(node')) /\ Linked(U, tptop', Ids(node'), node') /\ Linked(F, tpfree', r, node')
      BY <1>1, <1>4, <1>17 DEF Lists
    <2>5. \A m \in U : node'[m].id \in 1 .. adds'
      <3>1. 1 .. adds \subseteq 1 .. adds'
        BY <1>2, <1>9
      <3>2. \A m \in U : node[m].id \in 1 .. adds
        BY <1>4, <1>5, <1>15 DEF Lists
      <3> QED
        BY <1>1, <3>1, <3>2
    <2>6. tpmin' \in U \cup {Nil}
      BY <1>4, <1>6, <1>15 DEF Lists
    <2> QED
      BY <2>1, <2>2, <2>3, <2>4, <2>5, <2>6, ListsWith
  <1>19. Sound'
    <2>1. U \in SUBSET Nodes /\ F \in SUBSET Nodes /\ r \in [Nodes -> Nat] /\ high \in Nat
      BY <1>4, <1>5, <1>15
    <2> QED
      BY <1>18, <2>1 DEF Sound
  <1>20. Handles'
    <2> SUFFICES ASSUME base = "dfl", NEW f \in Range(stack'), NEW m \in Nodes,
                        f.at \in {"end", "check", "give", "read"}, Active(m), node[m].id = f.id
                 PROVE  f.tp = m
      BY <1>1, <1>11 DEF Handles
    <2>1. CASE f \in Range(stack)
      BY <2>1 DEF Inv, Handles
    <2>2. CASE f.at = "end" /\ f.tp = n /\ f.id = Top.id
      <3>1. node[m].id = adds
        BY <1>2, <2>2 DEF Numbered, Adding, Filling
      <3>2. m \in U
        BY <1>4, <1>11, <1>15 DEF Lists
      <3> QED
        BY <1>2, <1>5, <1>15, <1>16, <2>2, <3>1, <3>2
    <2> QED
      BY <1>9, <2>1, <2>2
  <1>21. Intervals'
    BY <1>1, <1>11 DEF Inv, Intervals
  <1>22. Given'
    BY <1>1, <1>3, <1>5, <1>6 DEF Inv, Given, Slow
  <1>23. MinAlarm'
    BY <1>1, <1>3, <1>6, <1>7, <1>8 DEF Inv, MinAlarm, Slow
  <1>24. InHandler' /\ AtAct' /\ AtBreak'
    BY <1>10 DEF InHandler, AtAct, AtBreak
  <1>25. tpmin' # Nil /\ tpmin' \in Nodes /\ node[tpmin'].wakeup <= node[n].wakeup
    BY <1>3, <1>5, <1>6 DEF Ptr
  <1>26. AtLink'
    BY <1>1, <1>5, <1>10, <1>11, <1>25 DEF AtLink
  <1>27. AtWalk'
    BY <1>9 DEF AtWalk, InUser
  <1>28. Outside'
    <2> SUFFICES ASSUME ~Lost
                 PROVE  /\ handler' # "sigalrm" => tpmin' = Nil
                        /\ \A m \in Nodes : Active(m) =>
                              /\ tpmin' # Nil /\ node[tpmin'].wakeup <= node[m].wakeup
                              /\ handler' = "sigalrm"
                              /\ "defer" \in state' \/ (alarm' > 0 /\ (Slow \/ alarm' <= node[m].wakeup))
      BY <1>1, <1>11 DEF Outside, Lost, Slow
    <2>1. /\ handler # "sigalrm" => tpmin = Nil
          /\ \A m \in Nodes : Active(m) /\ m # n =>
                /\ tpmin # Nil /\ node[tpmin].wakeup <= node[m].wakeup
                /\ handler = "sigalrm"
                /\ "defer" \in state \/ (alarm > 0 /\ (Slow \/ alarm <= node[m].wakeup))
      <3>1. ~AtTop(InAlarm \cup InDel)
        BY <1>2 DEF InAlarm, InDel
      <3> QED
        BY <3>1, <1>2, <1>11 DEF Inv, Outside
    <2>2. CASE /\ tpmin = Nil \/ node[n].wakeup < node[tpmin].wakeup
               /\ tpmin' = n /\ handler' = "sigalrm" /\ alarm' = clock + Top.d /\ state' = state
      <3> SUFFICES ASSUME NEW m \in Nodes, Active(m)
                   PROVE  node[n].wakeup <= node[m].wakeup
        BY <1>3, <1>5, <1>7, <1>8, <2>2
      <3>1. CASE m = n
        BY <1>3, <1>5, <3>1
      <3>2. CASE m # n
        <4>1. tpmin # Nil /\ node[tpmin].wakeup <= node[m].wakeup /\ tpmin \in Nodes
          BY <1>3, <2>1, <3>2 DEF Ptr
        <4>2. node[n].wakeup < node[tpmin].wakeup
          BY <2>2, <4>1
        <4>3. node[n].wakeup \in Nat /\ node[tpmin].wakeup \in Nat /\ node[m].wakeup \in Nat
          BY <1>3, <1>5, <4>1
        <4> QED
          BY <4>1, <4>2, <4>3
      <3> QED
        BY <3>1, <3>2
    <2>3. CASE /\ tpmin # Nil /\ ~(node[n].wakeup < node[tpmin].wakeup)
               /\ tpmin' = tpmin /\ handler' = handler /\ alarm' = alarm
               /\ state \subseteq state' /\ state' \subseteq state \cup {"defer"} /\ (~Active(tpmin) => "defer" \in state')
      <3>1. tpmin \in T /\ tpmin \in Nodes /\ tpmin # n
        BY <1>4, <1>5, <2>3 DEF Lists
      <3>2. "defer" \in state' \/ (alarm > 0 /\ (Slow \/ alarm <= node[tpmin].wakeup))
        BY <2>1, <2>3, <3>1
      <3>3. node[tpmin].wakeup <= node[n].wakeup
        BY <1>3, <1>5, <2>3, <3>1
      <3>4. "defer" \in state' \/ (alarm > 0 /\ (Slow \/ alarm <= node[n].wakeup))
        BY <1>3, <1>5, <3>1, <3>2, <3>3
      <3> QED
        BY <2>1, <2>3, <3>3, <3>4
    <2> QED
      BY <1>6, <2>2, <2>3
  <1> QED
    BY <1>9, <1>13, <1>14, <1>19, <1>20, <1>21, <1>22, <1>23, <1>24, <1>26, <1>27, <1>28 DEF Inv

----------------------------------------------------------------------------
(* sigalrm() looks at the list                                             *)

LEMMA HighestSame ==
    ASSUME NEW X, NEW r, NEW q, NEW b \in Nat, \A n \in X : r[n] \in Nat /\ r[n] <= b /\ q[n] = r[n],
           Distinct(X, r)
    PROVE  Highest(X, q) = Highest(X, r)
  <1>1. CASE X = {}
    BY <1>1 DEF Highest
  <1>2. CASE X # {}
    <2>1. Highest(X, r) \in X /\ \A m \in X : r[m] <= r[Highest(X, r)]
      BY <1>2, HighestIn
    <2>2. PICK h \in X : h = Highest(X, r)
      BY <2>1
    <2>3. \A m \in X : q[m] \in Nat /\ q[m] <= q[h]
      BY <2>1, <2>2
    <2>4. Distinct(X, q)
      BY DEF Distinct
    <2>5. Highest(X, q) = h
      BY <2>3, <2>4, HighestIs
    <2> QED
      BY <2>2, <2>5
  <1> QED
    BY <1>1, <1>2

\* The cells that are taken off the list of timers are put in front of the free ones,
\* the newest timer's first: the last of them comes to be the first free cell.
Parted(live, dead, F, q, top) ==
    /\ Linked(live, Foremost(live, Nil), Ids(node), Unlinked(live, dead))
    /\ q \in [Nodes -> Nat] /\ Distinct(F \cup dead, q) /\ \A n \in F \cup dead : q[n] < top
    /\ Linked(F \cup dead, Hindmost(dead, tpfree), q, Unlinked(live, dead))

LEMMA ScanLists ==
    ASSUME Inv, NEW T \in SUBSET Nodes, NEW F \in SUBSET Nodes, NEW r \in [Nodes -> Nat], NEW high \in Nat,
           Lists(T, F, r, high), NEW live \in SUBSET T
    PROVE  \E q : Parted(live, T \ live, F, q, high + adds + 1)
  <1>0. PICK i, dead, cells : i = Ids(node) /\ dead = T \ live /\ cells = Unlinked(live, dead)
    OBVIOUS
  <1>0a. PICK q : q = [c \in Nodes |-> IF c \in dead THEN high + (adds - i[c]) ELSE r[c]]
    OBVIOUS
  <1>1. /\ adds \in Nat /\ TypeOK /\ T \cap F = {}
        /\ \A n \in F : r[n] \in Nat /\ r[n] < high
        /\ Distinct(F, r) /\ Distinct(T, i) /\ Linked(T, tptop, i, node) /\ Linked(F, tpfree, r, node)
    BY <1>0, NodeFacts DEF Inv, Lists
  <1>2. \A n \in T : i[n] \in Nat /\ i[n] <= adds
    <2>1. \A n \in T : node[n].id \in Nat /\ node[n].id <= adds /\ Ids(node)[n] = node[n].id
      BY <1>1, ListsFacts
    <2> QED
      BY <1>0, <2>1
  <1>3. \A n \in F : q[n] = r[n] /\ q[n] \in Nat /\ q[n] < high
    BY <1>0, <1>1, <1>0a
  <1>4. \A n \in dead : q[n] = high + (adds - i[n]) /\ q[n] \in Nat /\ high <= q[n] /\ q[n] < high + adds + 1
    BY <1>0, <1>1, <1>2, <1>0a
  <1>5. q \in [Nodes -> Nat]
    BY <1>1, <1>4, <1>0a
  <1>6. \A n \in F \cup dead : q[n] \in Nat /\ q[n] < high + adds + 1
    <2>1. ASSUME NEW n \in F
          PROVE  q[n] < high + adds + 1
      <3>1. q[n] \in Nat /\ q[n] < high
        BY <1>3
      <3> QED
        BY <1>1, <3>1
    <2> QED
      BY <1>3, <1>4, <2>1
  <1>6a. \A m \in F : \A n \in dead : q[m] < q[n] /\ q[m] <= q[n] /\ ~ (q[n] < q[m]) /\ q[m] # q[n]
    <2> SUFFICES ASSUME NEW m \in F, NEW n \in dead
                 PROVE  q[m] < q[n] /\ q[m] <= q[n] /\ ~ (q[n] < q[m]) /\ q[m] # q[n]
      OBVIOUS
    <2>1. q[m] \in Nat /\ q[m] < high /\ q[n] \in Nat /\ high <= q[n]
      BY <1>3, <1>4
    <2> QED
      BY <2>1
  <1>6b. \A m \in dead : \A n \in dead :
           /\ q[m] < q[n] => i[n] < i[m]
           /\ i[n] < i[m] => q[m] < q[n]
           /\ i[n] <= i[m] => q[m] <= q[n]
           /\ q[m] = q[n] => i[m] = i[n]
    <2> SUFFICES ASSUME NEW m \in dead, NEW n \in dead
                 PROVE  /\ q[m] < q[n] => i[n] < i[m]
                        /\ i[n] < i[m] => q[m] < q[n]
                        /\ i[n] <= i[m] => q[m] <= q[n]
                        /\ q[m] = q[n] => i[m] = i[n]
      OBVIOUS
    <2>1. /\ q[m] = high + (adds - i[m]) /\ i[m] \in Nat /\ i[m] <= adds
          /\ q[n] = high + (adds - i[n]) /\ i[n] \in Nat /\ i[n] <= adds
      BY <1>0, <1>2, <1>4
    <2> QED
      BY <1>1, <2>1
  <1>7. Distinct(F \cup dead, q)
    <2> SUFFICES ASSUME NEW m \in F \cup dead, NEW n \in F \cup dead, q[m] = q[n]
                 PROVE  m = n
      BY DEF Distinct
    <2>1. CASE m \in F /\ n \in F
      BY <2>1, <1>1, <1>3 DEF Distinct
    <2>2. CASE m \in dead /\ n \in dead
      <3>1. i[m] = i[n]
        BY <1>0, <2>2, <1>6b
      <3> QED
        BY <1>0, <2>2, <3>1, <1>1 DEF Distinct
    <2>3. CASE m \in F /\ n \in dead
      BY <2>3, <1>6a
    <2>4. CASE m \in dead /\ n \in F
      BY <2>4, <1>6a
    <2> QED
      BY <2>1, <2>2, <2>3, <2>4
  <1>8. ASSUME NEW X \in SUBSET T
        PROVE  Foremost(X, Nil) = Highest(X, i)
    BY <1>1, <1>2, ForemostIs
  <1>9. \A n \in T : After(n) = {m \in T : i[m] < i[n]}
    BY <1>1, <1>2, AfterIs
  <1>10. ASSUME NEW X \in SUBSET T, X # {}, NEW none
         PROVE  Hindmost(X, none) \in X /\ \A m \in X : i[Hindmost(X, none)] <= i[m]
    BY <1>1, <1>2, <1>10, HindmostIs
  <1>11. ASSUME NEW n \in live
         PROVE  cells[n].next = Highest({m \in live : i[m] < i[n]}, i)
    <2>1. cells[n].next = Foremost(live \cap After(n), Nil)
      <3>1. cells[n] = [node[n] EXCEPT !.next = Foremost(live \cap After(n), Nil)]
        BY <1>0 DEF Unlinked
      <3>2. node[n] \in Cells
        BY <1>1, NodeFacts
      <3> QED
        BY <3>1, <3>2 DEF Cells
    <2>2. live \cap After(n) = {m \in live : i[m] < i[n]}
      BY <1>9
    <2> QED
      BY <2>1, <2>2, <1>8
  <1>12. ASSUME NEW n \in dead
         PROVE  cells[n].next = Hindmost({m \in dead : i[n] < i[m]}, tpfree)
    <2>1. cells[n].next = Hindmost({m \in dead : n \in After(m)}, tpfree)
      <3>1. cells[n] = [node[n] EXCEPT !.next = Hindmost({m \in dead : n \in After(m)}, tpfree)]
        BY <1>0 DEF Unlinked
      <3>2. node[n] \in Cells
        BY <1>0, <1>1, NodeFacts
      <3> QED
        BY <3>1, <3>2 DEF Cells
    <2>2. {m \in dead : n \in After(m)} = {m \in dead : i[n] < i[m]}
      BY <1>0, <1>9
    <2> QED
      BY <2>1, <2>2
  <1>13. \A n \in F : cells[n] = node[n]
    BY <1>0, <1>1 DEF Unlinked
  <1>14. Linked(live, Foremost(live, Nil), i, cells)
    BY <1>8, <1>11 DEF Linked
  <1>15. PICK S : S = F \cup dead
    OBVIOUS
  \* The free cells are below those that have been taken off.
  <1>16. ASSUME NEW X \in SUBSET F
         PROVE  Highest(X, q) = Highest(X, r)
    <2>1. \A n \in X : r[n] \in Nat /\ r[n] <= high /\ q[n] = r[n]
      BY <1>1, <1>3
    <2>2. Distinct(X, r)
      BY <1>1 DEF Distinct
    <2> QED
      BY <2>1, <2>2, HighestSame
  <1>17. ASSUME NEW X \in SUBSET S, NEW D \in SUBSET (X \cap dead), NEW none, D # {},
                \A x \in X : x \in F \/ x \in D
         PROVE  Highest(X, q) = Hindmost(D, none)
    <2>1. PICK h : h = Hindmost(D, none)
      OBVIOUS
    <2>2. h \in D /\ \A m \in D : i[h] <= i[m]
      BY <1>0, <1>10, <1>17, <2>1
    <2>3. \A x \in X : q[x] \in Nat /\ q[x] <= q[h]
      <3> SUFFICES ASSUME NEW x \in X
                   PROVE  q[x] <= q[h]
        BY <1>6, <1>15
      <3>1. CASE x \in F
        BY <3>1, <2>2, <1>6a
      <3>2. CASE x \in D
        <4>1. i[h] <= i[x] /\ h \in dead /\ x \in dead
          BY <3>2, <2>2
        <4> QED
          BY <1>0, <4>1, <1>6b
      <3> QED
        BY <1>17, <3>1, <3>2
    <2>4. Distinct(X, q)
      BY <1>7, <1>15 DEF Distinct
    <2> QED
      BY <2>1, <2>2, <2>3, <2>4, HighestIs
  <1>18. Hindmost(dead, tpfree) = Highest(S, q)
    <2>1. CASE dead = {}
      BY <2>1, <1>1, <1>15, <1>16 DEF Hindmost, Linked
    <2>2. CASE dead # {}
      BY <2>2, <1>15, <1>17
    <2> QED
      BY <2>1, <2>2
  <1>19. ASSUME NEW n \in S
         PROVE  cells[n].next = Highest({m \in S : q[m] < q[n]}, q)
    <2>1. CASE n \in F
      <3>1. {m \in S : q[m] < q[n]} = {m \in F : r[m] < r[n]}
        <4>1. \A m \in F : q[m] = r[m] /\ q[n] = r[n]
          BY <2>1, <1>3
        <4> QED
          BY <2>1, <4>1, <1>15, <1>6a
      <3> QED
        BY <2>1, <3>1, <1>1, <1>13, <1>16 DEF Linked
    <2>2. CASE n \in dead
      <3>1. \A m \in dead : (q[m] < q[n] => i[n] < i[m]) /\ (i[n] < i[m] => q[m] < q[n])
        BY <1>0, <2>2, <1>6b
      <3>2. \A m \in F : q[m] < q[n]
        BY <2>2, <1>6a
      <3>3. PICK X, D : X = {m \in S : q[m] < q[n]} /\ D = {m \in dead : i[n] < i[m]}
        OBVIOUS
      <3>4. D \subseteq X /\ D \subseteq dead /\ \A x \in X : x \in F \/ x \in D
        BY <1>15, <3>1, <3>3
      <3>5. cells[n].next = Hindmost(D, tpfree)
        BY <2>2, <3>3, <1>12
      <3>6. CASE D = {}
        <4>1. X = F
          BY <1>15, <3>2, <3>3, <3>4, <3>6
        <4>2. Hindmost(D, tpfree) = tpfree
          BY <3>6 DEF Hindmost
        <4> QED
          BY <3>3, <3>5, <4>1, <4>2, <1>1, <1>16 DEF Linked
      <3>7. CASE D # {}
        <4>1. X \in SUBSET S /\ D \in SUBSET (X \cap dead)
          BY <3>3, <3>4
        <4>2. Highest(X, q) = Hindmost(D, tpfree)
          BY <3>4, <3>7, <4>1, <1>17
        <4> QED
          BY <3>3, <3>5, <4>2
      <3> QED
        BY <3>6, <3>7
    <2> QED
      BY <1>15, <2>1, <2>2
  <1>20. Linked(S, Hindmost(dead, tpfree), q, cells)
    BY <1>18, <1>19 DEF Linked
  <1>21. Parted(live, dead, F, q, high + adds + 1)
    BY <1>0, <1>5, <1>6, <1>7, <1>14, <1>15, <1>20 DEF Parted
  <1> QED
    BY <1>0, <1>21

\* The first of the timers that are due soonest.
LEMMA EarliestIs ==
    ASSUME Inv, NEW T \in SUBSET Nodes, NEW F \in SUBSET Nodes, NEW r \in [Nodes -> Nat], NEW high \in Nat,
           Lists(T, F, r, high), NEW S \in SUBSET T
    PROVE  /\ S = {} => Earliest(S) = Nil
           /\ S # {} => Earliest(S) \in S /\ \A m \in S : node[Earliest(S)].wakeup <= node[m].wakeup
  <1>1. TypeOK /\ adds \in Nat /\ \A n \in Nodes : node[n].wakeup \in Nat
    BY NodeFacts DEF Inv
  <1>2. /\ \A n \in T : Ids(node)[n] \in Nat /\ Ids(node)[n] <= adds
        /\ Distinct(T, Ids(node)) /\ Linked(T, tptop, Ids(node), node)
    <2>1. \A n \in T : Ids(node)[n] \in Nat /\ Ids(node)[n] <= adds
      <3>1. \A n \in T : node[n].id \in Nat /\ node[n].id <= adds /\ Ids(node)[n] = node[n].id
        BY <1>1, ListsFacts
      <3> QED
        BY <3>1
    <2>2. Distinct(T, Ids(node)) /\ Linked(T, tptop, Ids(node), node)
      BY DEF Lists
    <2> QED
      BY <2>1, <2>2
  <1>3. PICK X : X = {n \in S : \A m \in S : node[n].wakeup <= node[m].wakeup}
    OBVIOUS
  <1>4. Earliest(S) = Highest(X, Ids(node))
    <2>1. X \in SUBSET T
      BY <1>3
    <2>2. Foremost(X, Nil) = Highest(X, Ids(node))
      BY <1>1, <1>2, <2>1, ForemostIs
    <2> QED
      BY <1>3, <2>2 DEF Earliest
  <1>5. CASE S = {}
    BY <1>3, <1>4, <1>5 DEF Highest
  <1>6. CASE S # {}
    <2>1. \E n \in S : \A m \in S : node[n].wakeup <= node[m].wakeup
      <3> DEFINE v == [n \in Nodes |-> node[n].wakeup]
      <3>1. \A n \in S : v[n] = node[n].wakeup
        OBVIOUS
      <3>2. \A n \in S : v[n] \in Nat
        BY <1>1, <3>1
      <3> HIDE DEF v
      <3>3. \E n \in S : \A m \in S : v[n] <= v[m]
        BY <1>6, <3>2, Lowest
      <3> QED
        BY <3>1, <3>3
    <2>2. X # {} /\ \A n \in X : Ids(node)[n] \in Nat /\ Ids(node)[n] <= adds
      BY <1>2, <1>3, <2>1
    <2>3. Highest(X, Ids(node)) \in X
      BY <1>1, <2>2, HighestIn
    <2> QED
      BY <1>3, <1>4, <1>6, <2>3
  <1> QED
    BY <1>5, <1>6

\* A timer with an interval is set again for the first time to come.
LEMMA NextWakeupIs ==
    ASSUME NEW n, node[n].wakeup \in Nat, node[n].incr \in Nat \ {0}, clock \in Nat, node[n].wakeup <= clock
    PROVE  /\ NextWakeup(n) \in Nat /\ NextWakeup(n) > clock
           /\ Moved(NextWakeup(n), node[n].incr, node[n].wakeup, clock)
  <1>1. PICK w, d, c : w = node[n].wakeup /\ d = node[n].incr /\ c = clock
    OBVIOUS
  <1>2. w \in Nat /\ d \in Nat \ {0} /\ c \in Nat /\ w <= c
    BY <1>1
  <1> DEFINE S == {k \in Nat : w + k * d > c}
  <1>3. c + 1 \in S
    <2>1. (c + 1) * d >= c + 1
      <3>1. (c + 1) * d = (c + 1) * (d - 1) + (c + 1)
        BY <1>2
      <3>2. d - 1 \in Nat /\ c + 1 \in Nat
        BY <1>2
      <3>3. (c + 1) * (d - 1) \in Nat
        BY <3>2
      <3> QED
        BY <1>2, <3>1, <3>3
    <2>2. (c + 1) * d \in Nat /\ c + 1 \in Nat
      BY <1>2
    <2> QED
      BY <1>2, <2>1, <2>2
  <1>4. PICK k \in S : \A j \in S : k <= j
    <2>1. S \subseteq Nat /\ S # {}
      BY <1>3
    <2> HIDE DEF S
    <2> QED
      BY <2>1, Smallest
  <1>5. k \in Nat /\ w + k * d > c /\ k <= c + 1 /\ k # 0
    <2>1. k \in Nat /\ w + k * d > c /\ k <= c + 1
      BY <1>3, <1>4
    <2>2. 0 * d = 0
      BY <1>2
    <2> QED
      BY <1>2, <2>1, <2>2
  <1>6. k - 1 \in Nat /\ k - 1 \notin S
    BY <1>4, <1>5
  <1>7. w + (k - 1) * d <= c
    <2>1. (k - 1) * d \in Nat
      BY <1>2, <1>6
    <2> QED
      BY <1>2, <1>6, <2>1
  <1>8. k \in 1 .. (c + 1)
    BY <1>2, <1>5
  <1>9. PICK j \in 1 .. (c + 1) : /\ NextWakeup(n) = w + j * d
                                  /\ w + j * d > c /\ w + (j - 1) * d <= c
    BY <1>1, <1>5, <1>7, <1>8 DEF NextWakeup
  <1>10. j * d \in Nat
    BY <1>2, <1>9
  <1>11. Moved(NextWakeup(n), d, w, c)
    BY <1>9 DEF Moved
  <1> QED
    BY <1>1, <1>2, <1>9, <1>10, <1>11

\* The timers that are still set stay on the list, in their order; the others come off it.
Relinked(T, live, dead, cells) ==
    /\ live = {n \in Nodes : Active(n)} /\ dead = T \ live /\ cells = Unlinked(live, dead)
    /\ tptop' = Foremost(live, Nil) /\ tpfree' = Hindmost(dead, tpfree)
    /\ \A n \in Nodes : node'[n].next = cells[n].next

\* The list as it is left, the oldest timer that is due and the next that will be.
Found(T, tp, min, again, when) ==
    /\ \E live \in SUBSET T : \E dead, cells : Relinked(T, live, dead, cells)
    /\ node' \in [Nodes -> Cells]
    /\ \A n \in Nodes : /\ node'[n].action = node[n].action /\ node'[n].incr = node[n].incr
                        /\ node'[n].id = node[n].id
                        /\ ~ (again /\ n = tp) => node'[n].wakeup = node[n].wakeup
    /\ tp = Nil => \A n \in Nodes : Active(n) => ~Expired(n)
    /\ tp # Nil => /\ Active(tp) /\ Expired(tp) /\ (again <=> node[tp].incr # 0)
                   /\ \A n \in Nodes : Active(n) => node[tp].wakeup <= node[n].wakeup
    /\ again => /\ tp # Nil /\ node'[tp].wakeup > clock
                /\ Moved(node'[tp].wakeup, node[tp].incr, node[tp].wakeup, clock)
    /\ tpmin' = min
    /\ min = Nil => \A n \in Nodes : Active(n) => ~ (node'[n].wakeup > clock)
    /\ min # Nil => /\ Active(min) /\ when = node'[min].wakeup /\ when > clock
                    /\ \A n \in Nodes : Active(n) /\ node'[n].wakeup > clock => when <= node'[n].wakeup
    /\ \/ /\ min # Nil /\ left = 0 /\ handler' = "sigalrm"
          /\ \/ alarm' = when /\ clock + left' = when
             \/ alarm' = alarm /\ 0 < alarm /\ alarm < when /\ clock + left' = alarm
       \/ /\ min # Nil /\ left # 0 /\ handler' = handler
          /\ \/ alarm' = when /\ clock + left' = when
             \/ alarm' = alarm /\ 0 < alarm /\ alarm < when /\ clock + left' = alarm
       \/ min = Nil /\ UNCHANGED <<handler, alarm, left>>
       \/ min # Nil /\ left # 0 /\ (tp = Nil \/ ~ (when < clock + left)) /\ UNCHANGED <<handler, alarm, left>>
    /\ left' \in Nat
    /\ stack' = <<Frame(IF tp = Nil THEN "break" ELSE "act", tp, "none",
                        IF tp = Nil THEN 0 ELSE node[tp].wakeup, 0)>> \o Tail(stack)

LEMMA ScanIs ==
    ASSUME Inv, Scan, NEW T \in SUBSET Nodes, NEW F \in SUBSET Nodes, NEW r \in [Nodes -> Nat], NEW high \in Nat,
           Lists(T, F, r, high)
    PROVE  \E tp, min \in Ptr : \E again \in BOOLEAN : \E when \in Nat :
               Found(T, tp, min, again, when)
  <1>1. At("scan") /\ TypeOK
    BY DEF Scan, Inv
  <1>2. /\ node \in [Nodes -> Cells] /\ clock \in Nat /\ left \in Nat /\ alarm \in Nat /\ (alarm # 0 => alarm > clock)
        /\ \A n \in Nodes : node[n].wakeup \in Nat /\ node[n].incr \in Nat /\ node[n].next \in Ptr
        /\ tpfree \in Ptr /\ Nil \notin Nodes /\ Nil \in Ptr /\ Nodes \subseteq Ptr
    BY <1>1, NodeFacts, Consts DEF Ptr
  <1>3. Listed(tptop) = T
    <2>1. /\ \A n \in T : Ids(node)[n] \in Nat /\ Ids(node)[n] <= adds
          /\ adds \in Nat
      <3>1. \A n \in T : node[n].id \in Nat /\ node[n].id <= adds /\ Ids(node)[n] = node[n].id
        BY <1>1, ListsFacts
      <3> QED
        BY <1>1, <3>1, NodeFacts
    <2>2. Distinct(T, Ids(node)) /\ Linked(T, tptop, Ids(node), node)
      BY DEF Lists
    <2> QED
      BY <2>1, <2>2, ListedIs
  <1>4. PICK live : live = {n \in T : Active(n)}
    OBVIOUS
  <1>5. live = {n \in Nodes : Active(n)} /\ live \in SUBSET T
    <2>1. ~AtTop({"link"})
      BY <1>1, AtIs
    <2>2. \A n \in Nodes : Active(n) => n \in T
      BY <2>1, ActiveListed
    <2> QED
      BY <1>4, <2>2
  <1>6. PICK dead, cells, due, later : /\ dead = T \ live /\ cells = Unlinked(live, dead)
                                       /\ due = {n \in live : Expired(n)} /\ later = {n \in live : ~Expired(n)}
    OBVIOUS
  <1>7. PICK tp, min0 : tp = Earliest(due) /\ min0 = Earliest(later)
    OBVIOUS
  <1>8. PICK again \in BOOLEAN : again = (tp # Nil /\ node[tp].incr > 0)
    OBVIOUS
  <1>9. PICK w : w = IF again THEN NextWakeup(tp) ELSE 0
    OBVIOUS
  <1>10. PICK min : min = IF again /\ (min0 = Nil \/ node[min0].wakeup > w) THEN tp ELSE min0
    OBVIOUS
  <1>11. PICK when0 : when0 = IF again /\ min = tp THEN w ELSE node[min].wakeup
    OBVIOUS
  <1>12. PICK arm, keep \in BOOLEAN : /\ arm = (min # Nil /\ (left = 0 \/ (tp # Nil /\ when0 < clock + left)))
                                      /\ keep = (Remaining > 0 /\ clock + Remaining < when0)
    OBVIOUS
  <1>13. /\ tptop' = Foremost(live, Nil)
         /\ tpfree' = Hindmost(dead, tpfree)
         /\ node' = IF again THEN [cells EXCEPT ![tp].wakeup = w] ELSE cells
         /\ tpmin' = min
         /\ handler' = IF arm /\ left = 0 THEN "sigalrm" ELSE handler
         /\ alarm' = IF arm /\ ~keep THEN when0 ELSE alarm
         /\ left' = IF arm THEN (IF keep THEN Remaining ELSE when0 - clock) ELSE left
         /\ stack' = <<Frame(IF tp = Nil THEN "break" ELSE "act", tp, "none",
                             IF tp = Nil THEN 0 ELSE node[tp].wakeup, 0)>> \o Tail(stack)
    BY <1>3, <1>4, <1>6, <1>7, <1>8, <1>9, <1>10, <1>11, <1>12 DEF Scan
  <1>14. due \in SUBSET T /\ later \in SUBSET T /\ Nil \notin due /\ Nil \notin later
         /\ due \subseteq Nodes /\ later \subseteq Nodes
    BY <1>2, <1>5, <1>6
  <1>15. /\ tp = Nil => due = {}
         /\ tp # Nil => tp \in due /\ \A n \in due : node[tp].wakeup <= node[n].wakeup
         /\ min0 = Nil => later = {}
         /\ min0 # Nil => min0 \in later /\ \A n \in later : node[min0].wakeup <= node[n].wakeup
    <2>1. /\ due = {} => tp = Nil
          /\ due # {} => tp \in due /\ \A n \in due : node[tp].wakeup <= node[n].wakeup
      BY <1>7, <1>14, EarliestIs
    <2>2. /\ later = {} => min0 = Nil
          /\ later # {} => min0 \in later /\ \A n \in later : node[min0].wakeup <= node[n].wakeup
      BY <1>7, <1>14, EarliestIs
    <2> QED
      BY <1>14, <2>1, <2>2
  <1>16. /\ \A n \in Nodes : Active(n) /\ Expired(n) <=> n \in due
         /\ \A n \in Nodes : Active(n) /\ ~Expired(n) <=> n \in later
         /\ \A n \in Nodes : Expired(n) <=> node[n].wakeup <= clock
    BY <1>5, <1>6 DEF Expired
  <1>17. tp \in Ptr /\ min0 \in Ptr /\ (tp # Nil => tp \in Nodes) /\ (min0 # Nil => min0 \in Nodes)
    BY <1>2, <1>14, <1>15
  <1>18. again => /\ w \in Nat /\ w > clock /\ Moved(w, node[tp].incr, node[tp].wakeup, clock)
    <2> SUFFICES ASSUME again
                 PROVE  w \in Nat /\ w > clock /\ Moved(w, node[tp].incr, node[tp].wakeup, clock)
      OBVIOUS
    <2>1. tp \in Nodes /\ node[tp].incr > 0 /\ w = NextWakeup(tp)
      BY <1>8, <1>9, <1>17
    <2>2. node[tp].incr \in Nat \ {0} /\ node[tp].wakeup \in Nat
      BY <1>2, <2>1
    <2>3. node[tp].wakeup <= clock
      BY <1>8, <1>15, <1>16, <2>1
    <2>4. /\ NextWakeup(tp) \in Nat /\ NextWakeup(tp) > clock
          /\ Moved(NextWakeup(tp), node[tp].incr, node[tp].wakeup, clock)
      BY <1>2, <2>2, <2>3, NextWakeupIs
    <2> QED
      BY <2>1, <2>4
  <1>19. /\ cells \in [Nodes -> Cells]
         /\ \A n \in Nodes : /\ cells[n].action = node[n].action /\ cells[n].incr = node[n].incr
                             /\ cells[n].id = node[n].id /\ cells[n].wakeup = node[n].wakeup
    <2>1. \A X \in SUBSET T : \A none \in Ptr : Foremost(X, Nil) \in Ptr /\ Hindmost(X, none) \in Ptr
      <3> SUFFICES ASSUME NEW X \in SUBSET T, NEW none \in Ptr
                   PROVE  Foremost(X, Nil) \in Ptr /\ Hindmost(X, none) \in Ptr
        OBVIOUS
      <3>1. CASE X = {}
        BY <1>2, <3>1 DEF Foremost, Hindmost
      <3>2. CASE X # {}
        <4>1. /\ \A n \in T : Ids(node)[n] \in Nat /\ Ids(node)[n] <= adds
              /\ adds \in Nat
          <5>1. \A n \in T : node[n].id \in Nat /\ node[n].id <= adds /\ Ids(node)[n] = node[n].id
            BY <1>1, ListsFacts
          <5> QED
            BY <1>1, <5>1, NodeFacts
        <4>2. Distinct(T, Ids(node)) /\ Linked(T, tptop, Ids(node), node)
          BY DEF Lists
        <4>3. Hindmost(X, none) \in X
          BY <3>2, <4>1, <4>2, HindmostIs
        <4>4. Foremost(X, Nil) = Highest(X, Ids(node))
          BY <4>1, <4>2, ForemostIs
        <4>5. \A n \in X : Ids(node)[n] \in Nat /\ Ids(node)[n] <= adds
          BY <4>1
        <4>6. Highest(X, Ids(node)) \in X
          BY <3>2, <4>1, <4>5, HighestIn
        <4> QED
          BY <1>2, <4>3, <4>4, <4>6
      <3> QED
        BY <3>1, <3>2
    <2>2. \A n \in Nodes : node[n] \in Cells
      BY <1>2
    <2>3. ASSUME NEW n \in Nodes, NEW c, c = cells[n]
          PROVE  /\ c \in Cells /\ c.action = node[n].action /\ c.incr = node[n].incr
                 /\ c.id = node[n].id /\ c.wakeup = node[n].wakeup
      <3>1. PICK x, y : /\ x = Foremost(live \cap After(n), Nil)
                        /\ y = Hindmost({m \in dead : n \in After(m)}, tpfree)
        OBVIOUS
      <3>2. x \in Ptr /\ y \in Ptr
        <4>1. live \cap After(n) \in SUBSET T /\ {m \in dead : n \in After(m)} \in SUBSET T
          BY <1>5, <1>6
        <4> QED
          BY <1>2, <2>1, <3>1, <4>1
      <3>3. \/ c = [node[n] EXCEPT !.next = x]
            \/ c = [node[n] EXCEPT !.next = y]
            \/ c = node[n]
        BY <1>6, <2>3, <3>1 DEF Unlinked
      <3> QED
        BY <2>2, <3>2, <3>3 DEF Cells
    <2>4. DOMAIN cells = Nodes /\ cells = [n \in Nodes |-> cells[n]]
      BY <1>6 DEF Unlinked
    <2> QED
      BY <2>3, <2>4
  <1>20. /\ node' \in [Nodes -> Cells]
         /\ \A n \in Nodes : /\ node'[n].action = node[n].action /\ node'[n].incr = node[n].incr
                             /\ node'[n].id = node[n].id /\ node'[n].next = cells[n].next
                             /\ ~ (again /\ n = tp) => node'[n].wakeup = node[n].wakeup
         /\ again => node'[tp].wakeup = w
    <2>1. CASE ~again
      BY <1>13, <1>19, <2>1
    <2>2. CASE again
      <3>1. tp \in Nodes /\ w \in Nat /\ node' = [cells EXCEPT ![tp].wakeup = w] /\ cells[tp] \in Cells
        BY <1>8, <1>13, <1>17, <1>18, <1>19, <2>2
      <3>2. PICK c : c = [cells[tp] EXCEPT !.wakeup = w]
        OBVIOUS
      <3>3. /\ c \in Cells /\ c.action = cells[tp].action /\ c.incr = cells[tp].incr
            /\ c.id = cells[tp].id /\ c.next = cells[tp].next /\ c.wakeup = w
        BY <3>1, <3>2 DEF Cells
      <3>4. node' = [cells EXCEPT ![tp] = c]
        BY <3>1, <3>2
      <3> QED
        BY <1>19, <2>2, <3>1, <3>3, <3>4
    <2> QED
      BY <2>1, <2>2
  <1>21. tp # Nil => \A n \in Nodes : Active(n) => node[tp].wakeup <= node[n].wakeup
    <2> SUFFICES ASSUME tp # Nil, NEW n \in Nodes, Active(n)
                 PROVE  node[tp].wakeup <= node[n].wakeup
      OBVIOUS
    <2>1. CASE n \in due
      BY <1>15, <2>1
    <2>2. CASE n \notin due
      <3>1. clock < node[n].wakeup
        BY <1>2, <1>16, <2>2
      <3>2. node[tp].wakeup <= clock /\ node[tp].wakeup \in Nat
        BY <1>2, <1>15, <1>16, <1>17
      <3> QED
        BY <1>2, <3>1, <3>2
    <2> QED
      BY <2>1, <2>2
  <1>22. /\ min = Nil => \A n \in Nodes : Active(n) => ~ (node'[n].wakeup > clock)
         /\ min # Nil => /\ min \in Nodes /\ Active(min) /\ when0 = node'[min].wakeup /\ when0 > clock /\ when0 \in Nat
                         /\ \A n \in Nodes : Active(n) /\ node'[n].wakeup > clock => when0 <= node'[n].wakeup
    <2>1. \A n \in Nodes : Active(n) /\ node'[n].wakeup > clock => n \in later \/ (again /\ n = tp)
      <3> SUFFICES ASSUME NEW n \in Nodes, Active(n), node'[n].wakeup > clock, ~ (again /\ n = tp)
                   PROVE  n \in later
        OBVIOUS
      <3>1. node[n].wakeup > clock
        BY <1>20
      <3> QED
        BY <1>2, <1>16, <3>1
    <2>2. tp # min0 \/ tp = Nil
      BY <1>15, <1>16, <1>17
    <2>3. \A n \in later : /\ n \in Nodes /\ n # tp /\ node'[n].wakeup = node[n].wakeup /\ node[n].wakeup > clock
                           /\ node[n].wakeup \in Nat /\ Active(n)
      <3> SUFFICES ASSUME NEW n \in later
                   PROVE  /\ n \in Nodes /\ n # tp /\ node[n].wakeup > clock
                          /\ node[n].wakeup \in Nat /\ Active(n)
        BY <1>20
      <3>1. n \in Nodes /\ Active(n) /\ ~Expired(n) /\ node[n].wakeup \in Nat
        BY <1>2, <1>14, <1>16
      <3>2. node[n].wakeup > clock
        BY <1>2, <3>1, <1>16
      <3>3. n # tp
        BY <1>2, <1>14, <1>15, <1>16, <3>1
      <3> QED
        BY <3>1, <3>2, <3>3
    <2>4. CASE again /\ (min0 = Nil \/ node[min0].wakeup > w)
      <3>1. min = tp /\ when0 = w /\ tp \in Nodes /\ tp # Nil /\ Active(tp) /\ node'[tp].wakeup = w /\ w \in Nat /\ w > clock
        BY <1>8, <1>10, <1>11, <1>15, <1>16, <1>17, <1>18, <1>20, <2>4
      <3>2. ASSUME NEW n \in later
            PROVE  w <= node[n].wakeup
        <4>1. min0 # Nil /\ node[min0].wakeup <= node[n].wakeup /\ min0 \in Nodes /\ n \in Nodes
          BY <1>15, <1>17, <2>3
        <4>2. node[min0].wakeup > w /\ node[min0].wakeup \in Nat /\ node[n].wakeup \in Nat
          BY <1>2, <2>4, <4>1
        <4> QED
          BY <3>1, <4>1, <4>2
      <3>3. w <= w
        BY <3>1
      <3> QED
        BY <2>1, <2>3, <3>1, <3>2, <3>3
    <2>5. CASE ~ (again /\ (min0 = Nil \/ node[min0].wakeup > w))
      <3>1. min = min0 /\ ~ (again /\ min = tp)
        BY <1>8, <1>10, <2>2, <2>5
      <3>2. when0 = node[min].wakeup
        BY <1>11, <3>1
      <3>3. CASE min = Nil
        <4>1. later = {} /\ ~again
          BY <1>15, <2>5, <3>1, <3>3
        <4> QED
          BY <2>1, <3>3, <4>1
      <3>4. CASE min # Nil
        <4>1. min \in later /\ \A n \in later : node[min].wakeup <= node[n].wakeup
          BY <1>15, <3>1, <3>4
        <4>2. /\ min \in Nodes /\ Active(min) /\ when0 = node'[min].wakeup /\ when0 > clock /\ when0 \in Nat
              /\ \A n \in later : when0 <= node'[n].wakeup
          BY <2>3, <3>2, <4>1
        <4>3. again => when0 <= node'[tp].wakeup
          <5> SUFFICES ASSUME again
                       PROVE  when0 <= w
            BY <1>20
          <5>1. ~ (node[min0].wakeup > w) /\ w \in Nat
            BY <1>18, <2>5
          <5> QED
            BY <3>1, <3>2, <4>2, <5>1
        <4> QED
          BY <2>1, <3>4, <4>2, <4>3
      <3> QED
        BY <3>3, <3>4
    <2> QED
      BY <2>4, <2>5
  <1>23. PICK when \in Nat : min # Nil => when = when0
    BY <1>22
  <1>24. /\ Remaining \in Nat /\ (Remaining > 0 => alarm > 0 /\ clock + Remaining = alarm)
    BY <1>2 DEF Remaining
  <1>25. arm => /\ min # Nil
                /\ \/ alarm' = when /\ clock + left' = when /\ left' \in Nat
                   \/ alarm' = alarm /\ 0 < alarm /\ alarm < when /\ clock + left' = alarm /\ left' \in Nat
    <2> SUFFICES ASSUME arm
                 PROVE  /\ min # Nil
                        /\ \/ alarm' = when /\ clock + left' = when /\ left' \in Nat
                           \/ alarm' = alarm /\ 0 < alarm /\ alarm < when /\ clock + left' = alarm /\ left' \in Nat
      OBVIOUS
    <2>1. min # Nil /\ when0 = when /\ when > clock
      BY <1>12, <1>22, <1>23
    <2>2. CASE keep
      <3>1. alarm' = alarm /\ left' = Remaining /\ Remaining > 0 /\ clock + Remaining < when
        BY <1>12, <1>13, <2>1, <2>2
      <3> QED
        BY <1>24, <2>1, <3>1
    <2>3. CASE ~keep
      <3>1. alarm' = when /\ left' = when - clock
        BY <1>13, <2>1, <2>3
      <3> QED
        BY <1>2, <1>23, <2>1, <3>1
    <2> QED
      BY <2>2, <2>3
  <1>26. ~arm => UNCHANGED <<handler, alarm, left>> /\ left' \in Nat
    BY <1>2, <1>13
  <1>27. /\ \/ /\ min # Nil /\ left = 0 /\ handler' = "sigalrm"
               /\ \/ alarm' = when /\ clock + left' = when
                  \/ alarm' = alarm /\ 0 < alarm /\ alarm < when /\ clock + left' = alarm
            \/ /\ min # Nil /\ left # 0 /\ handler' = handler
               /\ \/ alarm' = when /\ clock + left' = when
                  \/ alarm' = alarm /\ 0 < alarm /\ alarm < when /\ clock + left' = alarm
            \/ min = Nil /\ UNCHANGED <<handler, alarm, left>>
            \/ min # Nil /\ left # 0 /\ (tp = Nil \/ ~ (when < clock + left)) /\ UNCHANGED <<handler, alarm, left>>
         /\ left' \in Nat
    <2>1. CASE arm
      BY <1>13, <1>25, <2>1
    <2>2. CASE ~arm
      BY <1>12, <1>23, <1>26, <2>2
    <2> QED
      BY <2>1, <2>2
  <1>28. /\ tp = Nil => \A n \in Nodes : Active(n) => ~Expired(n)
         /\ tp # Nil => Active(tp) /\ Expired(tp) /\ (again <=> node[tp].incr # 0)
         /\ again => /\ tp # Nil /\ node'[tp].wakeup > clock
                     /\ Moved(node'[tp].wakeup, node[tp].incr, node[tp].wakeup, clock)
    <2>1. tp # Nil => Active(tp) /\ Expired(tp)
      BY <1>15, <1>16, <1>17
    <2>2. tp # Nil => (again <=> node[tp].incr # 0)
      <3>1. tp # Nil => (node[tp].incr > 0 <=> node[tp].incr # 0)
        BY <1>2, <1>17
      <3>2. again <=> tp # Nil /\ node[tp].incr > 0
        BY <1>8
      <3> QED
        BY <3>1, <3>2
    <2>3. again => tp # Nil
      BY <1>8
    <2> QED
      BY <1>15, <1>16, <1>18, <1>20, <2>1, <2>2, <2>3
  <1>29. min \in Ptr
    BY <1>2, <1>22
  <1>30. \E L \in SUBSET T : \E D, C : Relinked(T, L, D, C)
    <2>1. /\ live = {n \in Nodes : Active(n)} /\ dead = T \ live /\ cells = Unlinked(live, dead)
          /\ tptop' = Foremost(live, Nil) /\ tpfree' = Hindmost(dead, tpfree)
      BY <1>5, <1>6, <1>13
    <2>2. \A n \in Nodes : node'[n].next = cells[n].next
      BY <1>20
    <2>3. live \in SUBSET T
      BY <1>5
    <2>4. Relinked(T, live, dead, cells)
      BY <2>1, <2>2 DEF Relinked
    <2> QED
      BY <2>3, <2>4
  <1>31. /\ min = Nil => \A n \in Nodes : Active(n) => ~ (node'[n].wakeup > clock)
         /\ min # Nil => /\ Active(min) /\ when = node'[min].wakeup /\ when > clock
                         /\ \A n \in Nodes : Active(n) /\ node'[n].wakeup > clock => when <= node'[n].wakeup
    BY <1>22, <1>23
  <1> QED
    <2>1. stack' = <<Frame(IF tp = Nil THEN "break" ELSE "act", tp, "none",
                           IF tp = Nil THEN 0 ELSE node[tp].wakeup, 0)>> \o Tail(stack)
          /\ tpmin' = min
      BY <1>13
    <2>2. Found(T, tp, min, again, when)
      BY <1>20, <1>21, <1>27, <1>28, <1>30, <1>31, <2>1 DEF Found
    <2>3. tp \in Ptr /\ min \in Ptr
      BY <1>17, <1>29
    <2> QED
      BY <2>2, <2>3

LEMMA ScanKeeps ==
    ASSUME Inv, Scan
    PROVE  Inv'
  <1>1. At("scan") /\ UNCHANGED <<malloced, state, base, pending, timeout, clock, adds, fired, odd>>
    BY DEF Scan, rest
  <1>2. /\ stack # <<>> /\ Top.at = "scan" /\ Top \in Frames /\ Top \in Range(stack) /\ ~pending
        /\ \A S : AtTop(S) <=> "scan" \in S
    BY <1>1, AtIs
  <1>3. /\ adds \in Nat /\ TypeOK /\ clock \in Nat /\ left \in Nat /\ alarm \in Nat /\ (alarm # 0 => alarm > clock)
        /\ \A n \in Nodes : node[n].wakeup \in Nat /\ node[n].incr \in Nat
        /\ Nil \notin Nodes /\ MaxAdds \in Nat /\ handler \in {"sigalrm", base} /\ base \in {"dfl", "fault"}
    BY NodeFacts, Consts DEF Inv
  <1>4. PICK T \in SUBSET Nodes, F \in SUBSET Nodes, r \in [Nodes -> Nat], high \in Nat : Lists(T, F, r, high)
    BY DEF Inv, Sound
  <1>6. PICK tp \in Ptr, min \in Ptr, again \in BOOLEAN, when \in Nat : Found(T, tp, min, again, when)
    BY <1>4, ScanIs
  <1> USE DEF Found, Relinked
  <1>7. /\ tp # Nil => tp \in Nodes
        /\ min # Nil => min \in Nodes
        /\ \A n \in Nodes : /\ node'[n].wakeup \in Nat /\ (Active(n)' <=> Active(n))
                            /\ Expired(n) <=> node[n].wakeup <= clock
                            /\ Expired(n)' <=> node'[n].wakeup <= clock
    <2>1. \A n \in Nodes : node'[n] \in Cells
      BY <1>6
    <2> QED
      BY <1>1, <1>6, <2>1 DEF Ptr, Cells, Active, Expired
  <1>8. PICK f : f = Frame(IF tp = Nil THEN "break" ELSE "act", tp, "none", IF tp = Nil THEN 0 ELSE node[tp].wakeup, 0)
    OBVIOUS
  <1>9. /\ f.at = (IF tp = Nil THEN "break" ELSE "act") /\ f.tp = tp /\ f.kind = "none" /\ f.id = 0
        /\ tp # Nil => f.d = node[tp].wakeup
        /\ f \in Frames
    BY <1>3, <1>7, <1>8 DEF Frame, Frames, InAlarm
  <1>10. /\ Framed(stack, adds, base)' /\ stack' # <<>> /\ Top' = f /\ f \in Range(stack')
         /\ Range(stack') \subseteq Range(stack) \cup {f}
         /\ Range(stack) \subseteq Range(stack') \cup {Top}
    <2>1. stack' = <<f>> \o Rest(stack, 1)
      BY <1>2, <1>6, <1>8, TopForms
    <2>2. Fits(f, adds, base)
      BY <1>9 DEF Fits, InAdd, InUser
    <2>3. \A h \in Range(stack) : Over(Top, h) => Over(f, h)
      <3>1. Level(f) = 1 /\ Level(Top) = 1
        BY <1>2, <1>9 DEF Level, InAlarm
      <3> QED
        BY <1>2, <1>9, <3>1 DEF Over, InDel
    <2>4. f.at \notin InAdd
      BY <1>9 DEF InAdd
    <2> QED
      BY <1>1, <1>2, <1>3, <2>1, <2>2, <2>3, <2>4, SetTop
  <1>11. /\ AtTop(InAlarm)' /\ AtTop(InAlarm \cup InDel)' /\ ~AtTop({"ran"})' /\ ~AtTop({"link"})'
         /\ ~AtTop(Adding)' /\ ~AtTop({"end"})' /\ AtTop({"scan", "act", "break"})'
         /\ AtTop({"act"})' <=> tp # Nil
         /\ AtTop({"break"})' <=> tp = Nil
         /\ AtTop(InAlarm) /\ AtTop({"scan", "act", "break"}) /\ ~AtTop({"walk"}) /\ ~AtTop({"giveup"})
         /\ ~AtTop({"link"})
    BY <1>2, <1>9, <1>10 DEF AtTop, InAlarm, InDel, Adding, Filling
  <1>12. \A h \in Range(stack') : h = f \/ (h \in Range(stack) /\ h.at \notin {"scan", "act", "break", "link"})
    <2> SUFFICES ASSUME NEW h \in Range(stack'), h # f, h.at \in {"scan", "act", "break", "link"}
                 PROVE  FALSE
      BY <1>10
    <2>1. h \in Range(stack')
      OBVIOUS
    <2>2. PICK k \in 1 .. Len(stack') : stack'[k] = h
      <3>1. stack' \in Seq(Frames)
        BY <1>10 DEF Framed
      <3> QED
        BY <2>1, <3>1, RangeIs
    <2>3. k = 1
      <3>1. adds' \in Nat /\ Framed(stack', adds', base')
        BY <1>1, <1>3, <1>10
      <3> QED
        BY <2>2, <3>1, FrameFacts
    <2> QED
      BY <1>10, <2>2, <2>3 DEF Top
  \* What is known of the alarm.
  <1>13. left # 0 => /\ handler = "sigalrm" /\ alarm > 0 /\ alarm <= clock + left
                     /\ \E n \in Nodes : Active(n) /\ alarm <= node[n].wakeup
                     /\ \A n \in Nodes : Active(n) /\ ~Expired(n) => alarm <= node[n].wakeup
    BY <1>2, <1>11 DEF Inv, InHandler
  <1>14. min # Nil => handler' = "sigalrm"
    BY <1>6, <1>13
  <1>15. min # Nil => alarm' > 0 /\ alarm' <= when /\ alarm' > clock /\ alarm' \in Nat
    <2> SUFFICES ASSUME min # Nil
                 PROVE  alarm' > 0 /\ alarm' <= when /\ alarm' > clock /\ alarm' \in Nat
      OBVIOUS
    <2>1. when > clock
      BY <1>6
    <2>2. CASE alarm' = when
      BY <1>3, <1>6, <2>1, <2>2
    <2>3. CASE alarm' = alarm /\ 0 < alarm /\ alarm < when
      BY <1>3, <1>6, <2>3
    <2>4. CASE left # 0 /\ (tp = Nil \/ ~ (when < clock + left)) /\ alarm' = alarm
      <3>1. alarm > 0 /\ alarm <= clock + left
        BY <1>13, <2>4
      <3>2. tp = Nil => alarm <= when
        <4>1. tp = Nil => ~again /\ min \in Nodes /\ Active(min) /\ ~Expired(min)
          BY <1>6, <1>7
        <4>2. tp = Nil => node[min].wakeup = when
          BY <1>6, <1>7, <4>1
        <4> QED
          BY <1>13, <2>4, <4>1, <4>2
      <3>3. ~ (when < clock + left) => alarm <= when
        BY <1>3, <3>1
      <3> QED
        BY <1>3, <2>4, <3>1, <3>2, <3>3
    <2> QED
      BY <1>6, <2>2, <2>3, <2>4
  <1>16. min = Nil => alarm' = alarm /\ handler' = handler /\ left' = left
    BY <1>6
  \* With nothing to come the alarm is off.
  <1>17. (~Slow \/ NoCheck) /\ min = Nil => alarm = 0
    <2> SUFFICES ASSUME ~Slow \/ NoCheck, min = Nil, alarm # 0
                 PROVE  FALSE
      OBVIOUS
    <2>1. PICK n \in Nodes : Active(n) /\ alarm <= node[n].wakeup
      BY <1>3, <1>11 DEF Inv, InHandler
    <2>2. node[n].wakeup > clock
      BY <1>3, <2>1
    <2>3. node'[n].wakeup > clock
      BY <1>6, <2>2
    <2> QED
      BY <1>6, <2>1, <2>3
  <1>18. NoCheck' => NoCheck
    <2> SUFFICES ASSUME NEW h \in Range(stack), h.at = "check", NoCheck'
                 PROVE  FALSE
      BY DEF NoCheck
    <2>1. h \in Range(stack')
      BY <1>2, <1>10
    <2> QED
      BY <2>1 DEF NoCheck
  <1>19. alarm' # 0 => alarm' > clock /\ alarm' \in Nat
    BY <1>3, <1>15, <1>16
  <1>20. \A n \in Nodes : Active(n) /\ node'[n].wakeup > clock =>
             /\ min # Nil /\ node'[min].wakeup <= node'[n].wakeup
             /\ handler' = "sigalrm" /\ alarm' > 0 /\ alarm' <= node'[n].wakeup
    <2> SUFFICES ASSUME NEW n \in Nodes, Active(n), node'[n].wakeup > clock
                 PROVE  /\ min # Nil /\ node'[min].wakeup <= node'[n].wakeup
                        /\ handler' = "sigalrm" /\ alarm' > 0 /\ alarm' <= node'[n].wakeup
      OBVIOUS
    <2>1. min # Nil /\ when = node'[min].wakeup /\ when <= node'[n].wakeup
      BY <1>6
    <2>2. alarm' > 0 /\ alarm' <= when /\ alarm' \in Nat /\ handler' = "sigalrm"
      BY <1>14, <1>15, <2>1
    <2>3. alarm' <= node'[n].wakeup
      BY <1>7, <2>1, <2>2
    <2> QED
      BY <2>1, <2>2, <2>3
  <1>20a. PICK live \in SUBSET T : \E dead, cells :
            /\ live = {n \in Nodes : Active(n)} /\ dead = T \ live /\ cells = Unlinked(live, dead)
            /\ tptop' = Foremost(live, Nil) /\ tpfree' = Hindmost(dead, tpfree)
            /\ \A n \in Nodes : node'[n].next = cells[n].next
    BY <1>6
  <1>21. PICK dead, cells :
            /\ live = {n \in Nodes : Active(n)} /\ dead = T \ live /\ cells = Unlinked(live, dead)
            /\ tptop' = Foremost(live, Nil) /\ tpfree' = Hindmost(dead, tpfree)
            /\ \A n \in Nodes : node'[n].next = cells[n].next
    BY <1>20a
  <1>22. PICK i : i = Ids(node)
    OBVIOUS
  <1>23. PICK D, top : D = F \cup dead /\ top = high + adds + 1
    OBVIOUS
  <1>24. /\ T \cup F \subseteq 1 .. malloced /\ T \cap F = {} /\ Distinct(T, i) /\ \A n \in T : node[n].id \in 1 .. adds
         /\ \A g \in Range(stack) : Holds(g, T, F)
    BY <1>4, <1>22 DEF Lists
  <1>25. D \in SUBSET Nodes /\ live \in SUBSET Nodes /\ top \in Nat /\ live \cap D = {} /\ live \cup D \subseteq 1 .. malloced
         /\ live \cup D = T \cup F /\ F \subseteq D
    BY <1>3, <1>21, <1>23, <1>24
  <1>25a. PICK q : Parted(live, T \ live, F, q, high + adds + 1)
    BY <1>4, <1>21, ScanLists
  <1>26. /\ Linked(live, tptop', i, cells) /\ Linked(D, tpfree', q, cells)
         /\ q \in [Nodes -> Nat] /\ Distinct(D, q) /\ \A n \in D : q[n] < top
    BY <1>25a, <1>21, <1>22, <1>23 DEF Parted
  <1>27. Ids(node') = i
    BY <1>6, <1>22 DEF Ids
  <1>28. /\ Linked(live, tptop', Ids(node'), node') /\ Linked(D, tpfree', q, node')
         /\ Distinct(live, Ids(node'))
    <2>1. Linked(live, tptop', i, node') /\ Linked(D, tpfree', q, node')
      BY <1>21, <1>25, <1>26 DEF Linked
    <2>2. Distinct(live, i)
      BY <1>24 DEF Distinct
    <2> QED
      BY <1>27, <2>1, <2>2
  <1>29. \A h \in Range(stack') : Holds(h, live, D)'
    <2>1. Holds(f, live, D)'
      <3>1. tp # Nil => tp \in live
        BY <1>6, <1>7, <1>21
      <3> QED
        BY <1>9, <3>1 DEF Holds, Adding, Filling
    <2>2. ASSUME NEW h \in Range(stack), h.at \notin {"scan", "act", "break", "link"}
          PROVE  Holds(h, live, D)'
      <3>1. Holds(h, T, F)
        BY <1>24
      <3>2. h.at # "walk" \/ Lost'
        BY <1>1, <1>11 DEF Inv, AtWalk, Lost
      <3>3. \A n \in live : n \in T /\ node'[n].id = node[n].id
        BY <1>6
      <3> QED
        BY <1>1, <1>25, <2>2, <3>1, <3>2, <3>3 DEF Holds, Lost
    <2> QED
      BY <1>12, <2>1, <2>2
  <1>30. Lists(live, D, q, top)'
    <2>1. \A n \in Nodes : Active(n)' => n \in live \/ Linking(n)'
      BY <1>7, <1>21
    <2>2. tpmin' \in live \cup {Nil}
      BY <1>6, <1>7, <1>21
    <2>3. \A n \in live : node'[n].id \in 1 .. adds'
      BY <1>1, <1>6, <1>24
    <2>4. live \cup D \subseteq 1 .. malloced'
      BY <1>1, <1>25
    <2>5. \A h \in Range(stack') : h.at \notin {"top"} \cup InUser => Holds(h, live, D)'
      BY <1>29
    <2> QED
      BY <1>25, <1>26, <1>28, <2>1, <2>2, <2>3, <2>4, <2>5, ListsWith
  <1>31. Sound'
    BY <1>25, <1>26, <1>30 DEF Sound
  <1>32. TypeOK' /\ (odd \subseteq {"lost", "slow"})'
    <2>1. tptop' \in Ptr /\ tpfree' \in Ptr
      <3>1. \A n \in live : i[n] \in Nat /\ i[n] <= adds
        BY <1>3, <1>22, <1>24 DEF Ids
      <3>2. tptop' \in live \cup {Nil}
        BY <1>3, <1>25, <1>26, <3>1, LinkedIn
      <3>3. \A n \in D : q[n] \in Nat /\ q[n] <= top
        BY <1>25, <1>26
      <3>4. tpfree' \in D \cup {Nil}
        BY <1>25, <1>26, <3>3, LinkedIn
      <3> QED
        BY <1>25, <3>2, <3>4 DEF Ptr
    <2>2. left' \in Nat /\ alarm' \in Nat /\ (alarm' # 0 => alarm' > clock') /\ tpmin' \in Ptr
      BY <1>1, <1>3, <1>6, <1>15, <1>16, <1>19
    <2>3. handler' \in {"sigalrm", base}
      BY <1>3, <1>14, <1>16
    <2> QED
      BY <1>1, <1>3, <1>6, <2>1, <2>2, <2>3 DEF Inv, TypeOK, Cells
  <1>33. Bits'
    <2>1. state' = {"alrm"}
      BY <1>1, <1>11 DEF Inv, Bits
    <2> QED
      BY <1>11, <2>1 DEF Bits
  <1>34. Counted'
    <2>1. alarm' > 0 /\ handler' = "fault" => alarm > 0 /\ handler = "fault"
      BY <1>14, <1>16
    <2> QED
      BY <1>1, <1>3, <1>9, <1>10, <2>1, CountedKept DEF InAdd
  <1>35. Handles' /\ Intervals'
    <2>1. Handles'
      <3> SUFFICES ASSUME base = "dfl", NEW h \in Range(stack'), NEW n \in Nodes,
                          h.at \in {"end", "check", "give", "read"}, Active(n), node[n].id = h.id
                   PROVE  h.tp = n
        BY <1>1, <1>6, <1>7 DEF Handles
      <3>1. h \in Range(stack)
        BY <1>9, <1>10
      <3> QED
        BY <3>1 DEF Inv, Handles
    <2>2. Intervals'
      BY <1>6, <1>7 DEF Inv, Intervals
    <2> QED
      BY <2>1, <2>2
  <1>36. Given' /\ MinAlarm'
    <2>1. Given'
      BY <1>1, <1>2, <1>6, <1>14, <1>16, <1>17 DEF Given, Slow
    <2>2. MinAlarm'
      BY <1>1, <1>6, <1>15 DEF MinAlarm, Slow
    <2> QED
      BY <2>1, <2>2
  <1>37. InHandler'
    <2>1. ASSUME ~Slow' \/ NoCheck', alarm' > 0
          PROVE  \E n \in Nodes : Active(n)' /\ alarm' <= node'[n].wakeup
      <3>1. min # Nil
        BY <1>1, <1>3, <1>16, <1>17, <1>18, <2>1 DEF Slow
      <3> QED
        BY <1>6, <1>7, <1>15, <3>1
    <2>2. ASSUME left' # 0
          PROVE  handler' = "sigalrm"
      BY <1>13, <1>14, <1>16, <2>2
    <2>3. ASSUME left' # 0
          PROVE  alarm' > 0 /\ alarm' <= clock + left'
      <3>1. CASE min # Nil /\ clock + left' = when /\ alarm' = when
        BY <1>6, <1>15, <3>1
      <3>2. CASE min # Nil /\ clock + left' = alarm /\ alarm' = alarm
        BY <1>3, <1>15, <3>2
      <3>3. CASE left # 0 /\ UNCHANGED <<alarm, left>>
        BY <1>13, <3>3
      <3>4. CASE min = Nil /\ UNCHANGED <<alarm, left>>
        BY <1>13, <2>3, <3>4
      <3> QED
        BY <1>6, <3>1, <3>2, <3>3, <3>4
    <2>4. ASSUME left' # 0
          PROVE  \E n \in Nodes : Active(n)' /\ alarm' <= node'[n].wakeup
      <3>1. CASE min # Nil
        BY <1>6, <1>7, <1>15, <3>1
      <3>2. CASE min = Nil
        <4>1. left # 0
          BY <1>16, <2>4, <3>2
        <4>2. PICK n \in Nodes : Active(n) /\ alarm <= node[n].wakeup
          BY <1>13, <4>1
        <4>3. alarm > clock
          BY <1>3, <1>13, <4>1
        <4>4. node[n].wakeup > clock
          BY <1>3, <4>2, <4>3
        <4>5. node'[n].wakeup > clock
          BY <1>6, <4>4
        <4> QED
          BY <1>6, <3>2, <4>2, <4>5
      <3> QED
        BY <3>1, <3>2
    <2>5. ASSUME NEW n \in Nodes, Active(n)', ~Expired(n)'
          PROVE  alarm' <= node'[n].wakeup
      <3>1. node'[n].wakeup > clock
        BY <1>1, <1>3, <1>7, <2>5
      <3> QED
        BY <1>7, <1>20, <2>5, <3>1
    <2> QED
      BY <1>1, <2>1, <2>2, <2>3, <2>4, <2>5 DEF InHandler
  <1>38. \A n \in Nodes : Active(n)' /\ ~Expired(n)' => tpmin' # Nil /\ node'[tpmin'].wakeup <= node'[n].wakeup /\ Coming(n)'
    <2> SUFFICES ASSUME NEW n \in Nodes, Active(n)', ~Expired(n)'
                 PROVE  /\ tpmin' # Nil /\ node'[tpmin'].wakeup <= node'[n].wakeup
                        /\ handler' = "sigalrm" /\ alarm' > 0 /\ alarm' <= node'[n].wakeup
      BY DEF Coming
    <2>1. node'[n].wakeup > clock
      BY <1>1, <1>3, <1>7
    <2> QED
      BY <1>6, <1>7, <1>20, <2>1
  <1>39. handler' # "sigalrm" => tpmin' = Nil
    BY <1>6, <1>14
  <1>40. AtAct'
    <2> SUFFICES ASSUME tp # Nil
                 PROVE  AtAct'
      BY <1>11 DEF AtAct
    <2>1. tp \in Nodes /\ Active(tp) /\ Active(tp)' /\ f.tp = tp /\ f.d = node[tp].wakeup /\ node[tp].wakeup <= clock
      BY <1>6, <1>7, <1>9
    <2>2. ASSUME NEW n \in Nodes \ {tp}, Active(n)'
          PROVE  f.d <= node'[n].wakeup
      <3>1. node'[n].wakeup = node[n].wakeup
        BY <1>6
      <3> QED
        BY <1>6, <1>7, <2>1, <2>2, <3>1
    <2>3. node'[tp].incr = 0 => f.d = node'[tp].wakeup
      BY <1>6, <2>1
    <2>4. node'[tp].incr # 0 => Moved(node'[tp].wakeup, node'[tp].incr, f.d, clock')
      BY <1>1, <1>6, <2>1
    <2> QED
      BY <1>1, <1>10, <1>38, <1>39, <2>1, <2>2, <2>3, <2>4 DEF AtAct
  <1>41. AtBreak'
    <2> SUFFICES ASSUME tp = Nil
                 PROVE  AtBreak'
      BY <1>11 DEF AtBreak
    <2>1. \A n \in Nodes : Active(n)' => ~Expired(n)'
      <3> SUFFICES ASSUME NEW n \in Nodes, Active(n)'
                   PROVE  ~ (node'[n].wakeup <= clock)
        BY <1>1, <1>7
      <3> QED
        BY <1>6, <1>7
    <2>2. tpmin' = Nil => \A n \in Nodes : ~Active(n)'
      BY <1>38, <2>1
    <2>3. (~Slow' \/ NoCheck') /\ tpmin' = Nil => alarm' = 0
      BY <1>1, <1>6, <1>16, <1>17, <1>18 DEF Slow
    <2> QED
      BY <1>38, <1>39, <2>1, <2>2, <2>3 DEF AtBreak
  <1>42. AtLink' /\ Outside'
    BY <1>11 DEF AtLink, Outside
  <1>43. AtWalk'
    <2> SUFFICES ASSUME NEW h \in Range(stack), h.at \in InDel
                 PROVE  /\ h.at = "walk" => Lost
                        /\ h.at = "giveup" /\ ~Lost => tpmin' = Nil /\ \A n \in Nodes : ~Active(n)'
                        /\ h.at = "giveup" /\ base = "dfl" => Slow
      BY <1>1, <1>9, <1>12 DEF AtWalk, Lost, Slow, InDel
    <2>1. h.at = "walk" => Lost
      BY <1>11 DEF Inv, AtWalk
    <2>2. h.at = "giveup" /\ ~Lost => \A n \in Nodes : ~Active(n)
      BY DEF Inv, AtWalk
    <2>3. h.at = "giveup" /\ base = "dfl" => Slow
      BY <1>11 DEF Inv, AtWalk
    <2>4. min # Nil => \E n \in Nodes : Active(n)
      BY <1>6, <1>7
    <2> QED
      BY <1>6, <1>7, <2>1, <2>2, <2>3, <2>4
  <1> QED
    BY <1>10, <1>31, <1>32, <1>33, <1>34, <1>35, <1>36, <1>37, <1>40, <1>41, <1>42, <1>43 DEF Inv

----------------------------------------------------------------------------
(* The action of a timer                                                   *)

\* read -t jumps out of the innermost command that uses a timer: what is left are
\* the commands it was run by.
LEMMA JumpIs ==
    ASSUME Inv, stack # <<>>, Jump, adds' = adds, base' = base
    PROVE  /\ Framed(stack, adds, base)' /\ Range(stack') \subseteq Range(stack)
           /\ \A f \in Range(stack') : f.at \in {"read", "wait"}
           /\ stack' # <<>> => Top' \in Range(stack')
  <1>1. /\ stack \in Seq(Frames) /\ Len(stack) \in Nat /\ Len(stack) > 0 /\ Framed(stack, adds, base) /\ adds \in Nat
        /\ \A i \in 1 .. Len(stack) : stack[i] \in Frames /\ stack[i] \in Range(stack)
    <2>1. stack \in Seq(Frames) /\ Len(stack) \in Nat /\ Len(stack) > 0 /\ Framed(stack, adds, base) /\ adds \in Nat
      BY StackFacts
    <2>2. \A i \in 1 .. Len(stack) : stack[i] \in Range(stack)
      BY StackFacts
    <2> QED
      BY <2>1, <2>2
  <1>2. PICK own : own = {i \in 1 .. Len(stack) : ClientAt(i)}
    OBVIOUS
  <1>3. \E k \in 0 .. Len(stack) : /\ stack' = Rest(stack, k)
                                   /\ k = Len(stack) \/ (k \in 1 .. Len(stack) /\ ClientAt(k))
    <2>1. CASE own = {}
      <3>1. stack' = <<>>
        BY <1>2, <2>1 DEF Jump
      <3>2. Rest(stack, Len(stack)) = <<>>
        BY <1>1 DEF Rest
      <3> QED
        BY <1>1, <3>1, <3>2
    <2>2. CASE own # {}
      <3>1. own \subseteq Nat
        BY <1>1, <1>2
      <3>2. \E i \in own : \A j \in own : i <= j
        BY <2>2, <3>1, Smallest
      <3>3. PICK k : k = CHOOSE i \in own : \A j \in own : i <= j
        OBVIOUS
      <3>4. k \in own
        BY <3>2, <3>3
      <3>5. stack' = SubSeq(stack, k + 1, Len(stack))
        BY <1>2, <2>2, <3>3 DEF Jump
      <3> QED
        BY <1>1, <1>2, <3>4, <3>5 DEF Rest
    <2> QED
      BY <2>1, <2>2
  <1>4. PICK k \in 0 .. Len(stack) : /\ stack' = Rest(stack, k)
                                     /\ k = Len(stack) \/ (k \in 1 .. Len(stack) /\ ClientAt(k))
    BY <1>3
  <1>5. /\ Framed(stack, adds, base)' /\ Range(stack') \subseteq Range(stack)
        /\ stack' # <<>> => k < Len(stack) /\ Top' = stack[k + 1]
        /\ \A i \in k + 1 .. Len(stack) : stack[i] \in Range(stack')
    BY <1>4, NoNewTop
  <1>6. \A i \in k + 1 .. Len(stack) : stack[i].at \in {"read", "wait"}
    <2> SUFFICES ASSUME NEW i \in k + 1 .. Len(stack)
                 PROVE  stack[i].at \in {"read", "wait"}
      OBVIOUS
    <2>1. k \in 1 .. Len(stack) /\ ClientAt(k) /\ i \in 1 .. Len(stack) /\ k < i
      BY <1>1, <1>4
    <2>2. Over(stack[k], stack[i])
      BY <1>1, <2>1 DEF Framed
    <2>3. Level(stack[k]) = 3
      <3>1. stack[k].at \in InUser /\ stack[k] \in Frames
        BY <1>1, <2>1 DEF ClientAt, InUser
      <3> QED
        BY <3>1, FrameFields
    <2> QED
      BY <2>2, <2>3 DEF Over
  <1>7. \A f \in Range(stack') : \E i \in k + 1 .. Len(stack) : f = stack[i]
    <2> SUFFICES ASSUME NEW f \in Range(stack')
                 PROVE  \E i \in k + 1 .. Len(stack) : f = stack[i]
      OBVIOUS
    <2>1. /\ stack' \in Seq(Frames) /\ Len(stack') = Len(stack) - k
          /\ Shifted(stack, k, stack')
      BY <1>1, <1>4, Dropped
    <2>2. PICK j \in 1 .. Len(stack') : stack'[j] = f
      BY <2>1, RangeIs
    <2>3. j + k \in k + 1 .. Len(stack) /\ stack'[j] = stack[j + k]
      BY <1>1, <2>1, <2>2 DEF Shifted
    <2> QED
      BY <2>2, <2>3
  <1>8. \A f \in Range(stack') : f.at \in {"read", "wait"}
    BY <1>6, <1>7
  <1>9. stack' # <<>> => Top' \in Range(stack')
    <2>1. stack' # <<>> => k + 1 \in k + 1 .. Len(stack)
      BY <1>1, <1>5
    <2> QED
      BY <1>5, <2>1
  <1> QED
    BY <1>5, <1>8, <1>9

LEMMA ActKeeps ==
    ASSUME Inv, Act
    PROVE  Inv'
  <1>0. PICK n : n = Top.tp
    OBVIOUS
  <1>1. /\ At("act") /\ state' = state \ {"alrm"}
        /\ UNCHANGED <<malloced, tptop, tpmin, tpfree, left, base, handler, alarm, pending, clock, adds>>
        /\ UNCHANGED kernel
        /\ node' = IF node[n].incr = 0 THEN [node EXCEPT ![n].action = "none"] ELSE node
        /\ fired' = [fired EXCEPT ![node[n].id] = @ + 1]
        /\ timeout' = IF node[n].action \in Statics THEN [timeout EXCEPT ![node[n].action] = Nil] ELSE timeout
        /\ IF node[n].action = "read" THEN Jump ELSE GoTo("ran")
        /\ odd' = IF node[n].action = "read" /\ \E m \in Nodes \ {n} : Active(m) /\ Expired(m)
                  THEN odd \cup {"lost"} ELSE odd
    BY <1>0 DEF Act, kernel
  <1>2. /\ stack # <<>> /\ Top.at = "act" /\ Top \in Frames /\ Top \in Range(stack) /\ ~pending
        /\ \A S : AtTop(S) <=> "act" \in S
    BY <1>1, AtIs
  <1>3. AtTop(InAlarm) /\ AtTop({"act"}) /\ AtTop({"scan", "act", "break"}) /\ ~AtTop({"link"})
        /\ ~AtTop({"walk"}) /\ ~AtTop({"giveup"})
    BY <1>2 DEF InAlarm
  <1>4. /\ adds \in Nat /\ TypeOK /\ clock \in Nat /\ alarm \in Nat /\ (alarm # 0 => alarm > clock) /\ MaxAdds \in Nat
        /\ \A m \in Nodes : node[m].wakeup \in Nat /\ node[m].incr \in Nat
        /\ fired \in [1 .. MaxAdds -> Nat] /\ timeout \in [Statics -> Ptr] /\ Nil \notin Nodes /\ tpmin \in Ptr
        /\ adds \in 0 .. MaxAdds
    BY NodeFacts, Consts DEF Inv
  <1>5. PICK T \in SUBSET Nodes, F \in SUBSET Nodes, r \in [Nodes -> Nat], high \in Nat : Lists(T, F, r, high)
    BY DEF Inv, Sound
  <1>6. n \in T /\ n \in Nodes /\ node[n].id \in 1 .. adds /\ node[n].id \in 1 .. MaxAdds
    <2>1. Holds(Top, T, F)
      BY <1>2, <1>5 DEF Lists
    <2>2. n \in T
      BY <1>0, <1>2, <2>1 DEF Holds
    <2>3. node[n].id \in 1 .. adds
      BY <1>5, <2>2 DEF Lists
    <2> QED
      BY <1>4, <1>5, <2>2, <2>3
  <1>7. /\ Active(n) /\ Top.d <= clock /\ (node[n].incr = 0 => node[n].wakeup <= clock)
        /\ handler # "sigalrm" => tpmin = Nil
        /\ \A m \in Nodes : Active(m) /\ ~Expired(m) => tpmin # Nil /\ node[tpmin].wakeup <= node[m].wakeup
        /\ ~Lost => \A m \in Nodes \ {n} : Active(m) /\ ~Expired(m) => Coming(m)
    BY <1>0, <1>3 DEF Inv, AtAct
  <1>8. Fewer /\ \A m \in Nodes : Active(m) /\ (m # n \/ node[n].incr # 0) => Active(m)'
    <2>1. CASE node[n].incr # 0
      <3>1. node' = node
        BY <1>1, <2>1
      <3> QED
        BY <3>1, FewerSame DEF Active
    <2>2. CASE node[n].incr = 0
      <3>1. node \in [Nodes -> Cells]
        BY <1>4, NodeFacts
      <3>2. node' = [m \in Nodes |-> IF m \in {n} THEN [node[m] EXCEPT !.action = "none"] ELSE node[m]]
        BY <1>1, <1>6, <2>2, <3>1
      <3>3. Fewer
        BY <1>6, <3>2, FewerDeleted
      <3>4. \A m \in Nodes : m # n => node'[m] = node[m]
        BY <3>2
      <3> QED
        BY <2>2, <3>3, <3>4 DEF Active
    <2> QED
      BY <2>1, <2>2
  <1>9. state' = {}
    BY <1>1, <1>3 DEF Inv, Bits
  <1>10. (Lost => Lost') /\ (Slow <=> Slow') /\ odd' \subseteq {"lost", "slow"}
    BY <1>1 DEF Inv, Lost, Slow
  <1>11. TypeOK'
    <2>1. fired' \in [1 .. MaxAdds -> Nat]
      BY <1>1, <1>4, <1>6
    <2>2. timeout' \in [Statics -> Ptr]
      BY <1>1, <1>4 DEF Ptr
    <2>3. node' \in [Nodes -> Cells]
      BY <1>8 DEF Fewer
    <2> QED
      BY <1>1, <1>4, <1>9, <2>1, <2>2, <2>3 DEF TypeOK, Cells
  <1>12. \A i \in 1 .. MaxAdds : i # node[n].id => fired'[i] = fired[i]
    BY <1>1, <1>4, <1>6
  <1>13. malloced' <= adds' /\ \A i \in 1 .. MaxAdds : i > adds' => fired'[i] = 0
    BY <1>1, <1>4, <1>6, <1>12 DEF Inv, Counted
  <1>14. ASSUME NEW f \in Range(stack)
         PROVE  Numbered(f)'
    <2>1. Numbered(f)
      BY DEF Inv, Counted
    <2>2. f.at \in Adding => f.id = adds /\ fired[f.id] = 0 /\ node[n].id < adds /\ adds \in 1 .. MaxAdds
      <3>1. Holds(f, T, F)
        BY <1>5 DEF Lists
      <3>2. f.at \in Adding => node[n].id < adds
        BY <1>6, <3>1 DEF Holds
      <3> QED
        BY <1>4, <1>6, <2>1, <3>2 DEF Numbered
    <2>3. f.at \in Adding => fired'[f.id] = 0
      BY <1>4, <1>6, <1>12, <2>2
    <2> QED
      BY <1>1, <2>1, <2>3 DEF Numbered
  <1>15. Intervals' /\ Given' /\ MinAlarm'
    <2>1. Intervals'
      BY <1>8 DEF Inv, Intervals, Fewer
    <2>2. Given'
      BY <1>1, <1>10 DEF Inv, Given
    <2>3. MinAlarm'
      BY <1>1, <1>4, <1>8, <1>10 DEF Inv, MinAlarm, Fewer, Ptr
    <2> QED
      BY <2>1, <2>2, <2>3
  <1>16. \A m \in Nodes : ~Linking(m)
    BY <1>3 DEF Linking
  <1>17. CASE node[n].action # "read"
    <2>1. /\ Framed(stack, adds, base)' /\ stack' # <<>> /\ Top' \in Range(stack') /\ Top'.at = "ran"
          /\ Range(stack') \subseteq Range(stack) \cup {Top'}
          /\ Range(stack) \subseteq Range(stack') \cup {Top}
      <3>1. SameCode(Top.at, "ran") /\ "ran" \in InAlarm \cup InAdd \cup InDel \cup InUser /\ GoTo("ran")
        BY <1>1, <1>2, <1>17 DEF SameCode, InAlarm
      <3> QED
        BY <1>1, <1>2, <3>1, GoToIs
    <2>2. /\ AtTop(InAlarm)' /\ AtTop({"ran"})' /\ ~AtTop({"link"})' /\ ~AtTop(Adding)' /\ ~AtTop({"end"})'
          /\ ~AtTop({"act"})' /\ ~AtTop({"break"})' /\ AtTop(InAlarm \cup InDel)' /\ ~AtTop({"scan", "act", "break"})'
      BY <2>1 DEF AtTop, InAlarm, Adding, Filling
    <2>3. Bits'
      BY <1>9, <2>2 DEF Bits
    <2>4. Counted'
      <3>1. \A f \in Range(stack') : f.at = "ran" => Numbered(f)'
        BY DEF Numbered, Adding, Filling, InAdd
      <3> QED
        BY <1>13, <1>14, <2>1, <3>1 DEF Counted
    <2>5. Sound'
      <3>1. \A h \in Range(stack') : Harmless(h)
        BY <2>1 DEF Harmless
      <3> QED
        BY <1>1, <1>3, <1>4, <1>8, <1>10, <1>16, <3>1, SoundKept
    <2>6. Handles'
      <3>1. \A f \in Range(stack') : f \in Range(stack) \/ f.at \notin {"end", "check", "give", "read"}
        BY <2>1
      <3> QED
        BY <1>1, <1>8, <3>1, HandlesKept
    <2>7. InHandler'
      <3>1. ASSUME NEW m \in Nodes, Active(m), alarm > 0, alarm <= node[m].wakeup
            PROVE  Active(m)' /\ alarm' <= node'[m].wakeup
        <4>1. node[m].wakeup > clock
          BY <1>4, <3>1
        <4>2. m # n \/ node[n].incr # 0
          BY <1>4, <1>7, <4>1
        <4> QED
          BY <1>1, <1>8, <3>1, <4>2 DEF Fewer
      <3>2. NoCheck' => NoCheck
        BY <1>2, <2>1 DEF NoCheck
      <3>3. (~Slow \/ NoCheck) /\ alarm > 0 => \E m \in Nodes : Active(m)' /\ alarm' <= node'[m].wakeup
        BY <1>3, <3>1 DEF Inv, InHandler
      <3>4. left # 0 => /\ handler = "sigalrm" /\ alarm > 0 /\ alarm <= clock + left
                        /\ \E m \in Nodes : Active(m)' /\ alarm' <= node'[m].wakeup
                        /\ \A m \in Nodes : Active(m) /\ ~Expired(m) => alarm <= node[m].wakeup
        BY <1>2, <1>3, <3>1 DEF Inv, InHandler
      <3>5. \A m \in Nodes : Active(m)' /\ ~Expired(m)' => Active(m) /\ ~Expired(m) /\ node'[m].wakeup = node[m].wakeup
        BY <1>1, <1>8 DEF Fewer, Expired
      <3> QED
        BY <1>1, <1>10, <3>2, <3>3, <3>4, <3>5 DEF InHandler
    <2>8. AtAct' /\ AtBreak' /\ AtLink' /\ Outside'
      BY <2>2 DEF AtAct, AtBreak, AtLink, Outside
    <2>9. AtWalk'
      <3> SUFFICES ASSUME NEW f \in Range(stack), f.at \in InDel
                   PROVE  Lost /\ (f.at = "giveup" /\ base = "dfl" => Slow)
        BY <1>1, <1>10, <2>1 DEF AtWalk, InDel
      <3>1. f.at = "walk" => Lost
        BY <1>3 DEF Inv, AtWalk
      <3>2. f.at = "giveup" => Lost
        BY <1>6, <1>7 DEF Inv, AtWalk
      <3>3. f.at = "giveup" /\ base = "dfl" => Slow
        BY <1>3 DEF Inv, AtWalk
      <3> QED
        BY <3>1, <3>2, <3>3 DEF InDel
    <2> QED
      BY <1>10, <1>11, <1>15, <2>1, <2>3, <2>4, <2>5, <2>6, <2>7, <2>8, <2>9 DEF Inv
  <1>18. CASE node[n].action = "read"
    <2>1. /\ Framed(stack, adds, base)' /\ Range(stack') \subseteq Range(stack)
          /\ \A f \in Range(stack') : f.at \in {"read", "wait"}
          /\ stack' # <<>> => Top' \in Range(stack')
      BY <1>1, <1>2, <1>18, JumpIs
    <2>2. /\ ~AtTop(InAlarm)' /\ ~AtTop({"ran"})' /\ ~AtTop({"link"})' /\ ~AtTop(Adding)' /\ ~AtTop({"end"})'
          /\ ~AtTop({"act"})' /\ ~AtTop({"break"})' /\ ~AtTop({"scan", "act", "break"})'
      BY <2>1 DEF AtTop, InAlarm, Adding, Filling
    <2>3. Bits'
      BY <1>9, <2>2 DEF Bits
    <2>4. Counted'
      BY <1>13, <1>14, <2>1 DEF Counted
    <2>5. Sound'
      <3>1. \A h \in Range(stack') : Harmless(h)
        BY <2>1 DEF Harmless
      <3> QED
        BY <1>1, <1>3, <1>4, <1>8, <1>10, <1>16, <3>1, SoundKept
    <2>6. Handles'
      <3>1. \A f \in Range(stack') : f \in Range(stack)
        BY <2>1
      <3> QED
        BY <1>1, <1>8, <3>1, HandlesKept
    <2>7. InHandler' /\ AtAct' /\ AtBreak' /\ AtLink'
      BY <2>2 DEF InHandler, AtAct, AtBreak, AtLink
    <2>8. AtWalk'
      BY <2>1 DEF AtWalk
    \* Its own timer is over, and no other is due.
    <2>9. Outside'
      <3> SUFFICES ASSUME ~Lost'
                   PROVE  /\ handler' # "sigalrm" => tpmin' = Nil
                          /\ \A m \in Nodes : Active(m)' =>
                                /\ tpmin' # Nil /\ node'[tpmin'].wakeup <= node'[m].wakeup
                                /\ handler' = "sigalrm"
                                /\ alarm' > 0 /\ alarm' <= node'[m].wakeup
        BY DEF Outside
      <3>1. node[n].incr = 0
        BY <1>6, <1>7, <1>18 DEF Inv, Intervals
      <3>2. ~Lost /\ \A m \in Nodes \ {n} : Active(m) => ~Expired(m)
        BY <1>1, <1>10, <1>18 DEF Lost
      <3>3. ~Active(n)'
        <4>1. node \in [Nodes -> Cells]
          BY <1>4, NodeFacts
        <4>2. node'[n].action = "none"
          BY <1>1, <1>6, <3>1, <4>1 DEF Cells
        <4> QED
          BY <4>2 DEF Active
      <3>4. ASSUME NEW m \in Nodes, Active(m)'
            PROVE  /\ tpmin' # Nil /\ node'[tpmin'].wakeup <= node'[m].wakeup
                   /\ handler' = "sigalrm" /\ alarm' > 0 /\ alarm' <= node'[m].wakeup
        <4>1. m # n /\ Active(m) /\ ~Expired(m)
          BY <1>8, <3>2, <3>3, <3>4 DEF Fewer
        <4>2. tpmin # Nil /\ tpmin \in Nodes /\ node[tpmin].wakeup <= node[m].wakeup /\ Coming(m)
          BY <1>4, <1>7, <3>2, <4>1 DEF Ptr
        <4> QED
          BY <1>1, <1>2, <1>8, <4>2 DEF Fewer, Coming
      <3> QED
        BY <1>1, <1>7, <3>4
    <2> QED
      BY <1>10, <1>11, <1>15, <2>1, <2>3, <2>4, <2>5, <2>6, <2>7, <2>8, <2>9 DEF Inv
  <1> QED
    BY <1>17, <1>18

----------------------------------------------------------------------------
(* The invariant                                                           *)

LEMMA InitInv ==
    ASSUME Init
    PROVE  Inv
  <1>1. /\ MaxAdds \in Nat /\ MaxTime \in Nat /\ Inherited \in Nat /\ Nodes \subseteq Nat /\ Nil \notin Nodes
    BY Consts, ConstantsAssumption
  <1>2. /\ stack = <<>> /\ state = {} /\ odd = {} /\ adds = 0 /\ malloced = 0 /\ clock = 0 /\ left = 0 /\ pending = FALSE
        /\ tptop = Nil /\ tpmin = Nil /\ tpfree = Nil /\ base \in {"dfl", "fault"} /\ handler = base
        /\ base = "dfl" => alarm = 0
        /\ alarm \in {0, Inherited} /\ fired = [i \in 1 .. MaxAdds |-> 0] /\ timeout = [k \in Statics |-> Nil]
        /\ node = [n \in Nodes |-> [wakeup |-> 0, incr |-> 0, action |-> "none", next |-> Nil, id |-> 0]]
    BY DEF Init
  <1>3. \A n \in Nodes : ~Active(n)
    BY <1>2 DEF Active
  <1>4. \A S : ~AtTop(S)
    BY <1>2 DEF AtTop
  <1>5. Range(stack) = {}
    BY <1>2 DEF Range
  <1>6. TypeOK
    <2>1. node \in [Nodes -> [wakeup : Nat, incr : Nat, next : Ptr, id : 0..MaxAdds,
                              action : Clients \cup {"old", "none"}]]
      BY <1>1, <1>2 DEF Ptr
    <2>2. alarm \in Nat /\ (alarm # 0 => alarm > clock)
      <3>1. CASE alarm = 0
        BY <3>1
      <3>2. CASE alarm = Inherited
        BY <1>1, <1>2, <3>2
      <3> QED
        BY <1>2, <3>1, <3>2
    <2>3. state \subseteq {"add", "alrm", "defer"} /\ {tptop, tpmin, tpfree} \subseteq Ptr /\ malloced \in 0 .. MaxAdds
      BY <1>1, <1>2 DEF Ptr
    <2>4. timeout \in [Statics -> Ptr] /\ fired \in [1 .. MaxAdds -> Nat]
      BY <1>1, <1>2 DEF Ptr
    <2>5. clock \in 0 .. MaxTime /\ adds \in 0 .. MaxAdds /\ left \in Nat /\ pending \in BOOLEAN
      <3>1. MaxAdds \in Nat /\ MaxTime \in Nat
        BY <1>1
      <3>2. adds = 0 /\ clock = 0 /\ left = 0
        BY <1>2
      <3>3. pending \in BOOLEAN
        BY <1>2, Zenon
      <3> QED
        BY <3>1, <3>2, <3>3
    <2> QED
      BY <1>2, <2>1, <2>2, <2>3, <2>4, <2>5 DEF TypeOK
  <1>7. Framed(stack, adds, base)
    BY <1>2 DEF Framed
  <1>8. Bits /\ Counted
    BY <1>1, <1>2, <1>4, <1>5 DEF Bits, Counted
  <1>9. Sound
    <2>1. PICK r : r = [n \in Nodes |-> 0]
      OBVIOUS
    <2>2. r \in [Nodes -> Nat]
      BY <2>1
    <2>3. \A q, nd : Linked({}, Nil, q, nd) /\ Distinct({}, q)
      BY DEF Linked, Distinct, Highest
    <2>4. Lists({}, {}, r, 0)
      BY <1>2, <1>3, <1>5, <2>2, <2>3 DEF Lists
    <2> QED
      BY <2>2, <2>4 DEF Sound
  <1>10. Handles /\ AtWalk
    BY <1>5 DEF Handles, AtWalk
  <1>11. Intervals /\ Given /\ MinAlarm
    BY <1>2, <1>3 DEF Intervals, Given, MinAlarm
  <1>12. InHandler /\ AtAct /\ AtBreak /\ AtLink
    BY <1>4 DEF InHandler, AtAct, AtBreak, AtLink
  <1>13. Outside
    BY <1>2, <1>3 DEF Outside
  <1> QED
    BY <1>2, <1>6, <1>7, <1>8, <1>9, <1>10, <1>11, <1>12, <1>13 DEF Inv

\* Nothing happens.
LEMMA StutterKeeps ==
    ASSUME Inv, UNCHANGED vars
    PROVE  Inv'
  <1>1. UNCHANGED <<node, malloced, tptop, tpmin, tpfree, state, left, base, handler, alarm, pending, timeout,
                    stack, clock, adds, fired, odd>>
    BY DEF vars, lists, kernel
  <1>2. TypeOK' /\ (odd \subseteq {"lost", "slow"})' /\ Framed(stack, adds, base)'
    BY <1>1 DEF Inv, TypeOK
  <1>3. Bits' /\ Counted'
    BY <1>1 DEF Inv, Bits, Counted, AtTop, Numbered, Top
  <1>4. Sound'
    BY <1>1 DEF Inv, Sound, Lists, Holds, Linking, Active, AtTop, Top, Lost
  <1>5. Handles' /\ Intervals' /\ Given' /\ MinAlarm'
    BY <1>1 DEF Inv, Handles, Intervals, Given, MinAlarm, Active, Slow
  <1>6. InHandler' /\ AtAct' /\ AtBreak'
    BY <1>1 DEF Inv, InHandler, AtAct, AtBreak, NoCheck, AtTop, Active, Expired, Coming, Slow, Lost, Top
  <1>7. AtLink' /\ AtWalk' /\ Outside'
    BY <1>1 DEF Inv, AtLink, AtWalk, Outside, AtTop, Active, Linking, Slow, Lost, Top
  <1> QED
    BY <1>2, <1>3, <1>4, <1>5, <1>6, <1>7 DEF Inv

LEMMA NextKeeps ==
    ASSUME Inv, [Next]_vars
    PROVE  Inv'
  <1>1. CASE Tick
    BY <1>1, TickKeeps
  <1>2. CASE Sigalrm
    BY <1>2, SigalrmKeeps
  <1>3. CASE OtherAlarm
    BY <1>3, OtherAlarmKeeps
  <1>4. CASE HandlerStep
    BY <1>4, ScanKeeps, ActKeeps, RanKeeps, BreakKeeps DEF HandlerStep
  <1>5. CASE AddStep
    BY <1>5, TakeKeeps, PopKeeps, FillKeeps, LinkInKeeps, ReadTopKeeps, EndKeeps, CheckKeeps, GiveKeeps DEF AddStep
  <1>6. CASE DelStep
    BY <1>6, WalkKeeps, WalkEndKeeps, GiveUpKeeps DEF DelStep
  <1>7. CASE Using
    <2>1. ASSUME NEW kind \in Users, Start(kind)
          PROVE  Inv'
      BY <2>1, StartKeeps
    <2>2. CASE Assign \/ ReadEnds \/ WaitEnds \/ Resume \/ DeleteStatic
      BY <2>2, AssignKeeps, ReadEndsKeeps, WaitEndsKeeps, ResumeKeeps, DeleteStaticKeeps
    <2>3. CASE Abandon \/ ForkChild \/ Exec
      BY <2>3, AbandonKeeps, ForkChildKeeps, ExecKeeps
    <2> QED
      BY <1>7, <2>1, <2>2, <2>3 DEF Using
  <1>8. CASE UNCHANGED vars
    BY <1>8, StutterKeeps
  <1> QED
    BY <1>1, <1>2, <1>3, <1>4, <1>5, <1>6, <1>7, <1>8 DEF Next

\* Whatever the handler interrupts, the shell's frames, the two lists, the handles and the
\* alarm fit together.
THEOREM TimersInvariant == Spec => []Inv
  <1>1. Init => Inv
    BY InitInv
  <1>2. Inv /\ [Next]_vars => Inv'
    BY NextKeeps
  <1> QED
    BY <1>1, <1>2, PTL DEF Spec

\* The two lists have no cycle and no cell in common, and every timer that is set is on
\* the list or about to be linked, wherever sigalrm() interrupts and an action jumps.
THEOREM ListsAreSound == Spec => []ListsSound
  <1>1. Inv => ListsSound
    <2> SUFFICES ASSUME Inv
                 PROVE  ListsSound
      OBVIOUS
    <2>1. TypeOK /\ adds \in Nat
      BY NodeFacts DEF Inv
    <2>2. PICK T \in SUBSET Nodes, F \in SUBSET Nodes, r \in [Nodes -> Nat], high \in Nat : Lists(T, F, r, high)
      BY DEF Inv, Sound
    <2>3. \A n \in T : Ids(node)[n] \in Nat /\ Ids(node)[n] <= adds
      <3>1. \A n \in T : node[n].id \in Nat /\ node[n].id <= adds /\ Ids(node)[n] = node[n].id
        BY <2>1, <2>2, ListsFacts
      <3> QED
        BY <3>1
    <2>4. Distinct(T, Ids(node)) /\ Linked(T, tptop, Ids(node), node)
      BY <2>2 DEF Lists
    <2>5. \A n \in F : r[n] \in Nat /\ r[n] <= high
      BY <2>2 DEF Lists
    <2>6. Distinct(F, r) /\ Linked(F, tpfree, r, node) /\ T \cap F = {}
      BY <2>2 DEF Lists
    <2>7. Listed(tptop) = T /\ Listed(tpfree) = F
      BY <2>1, <2>3, <2>4, <2>5, <2>6, ListedIs
    <2>8. ASSUME NEW n \in T
          PROVE  n \notin After(n)
      <3>1. After(n) = {m \in T : Ids(node)[m] < Ids(node)[n]}
        BY <2>1, <2>3, <2>4, AfterIs
      <3> QED
        BY <2>3, <3>1
    <2>9. ASSUME NEW n \in F
          PROVE  n \notin After(n)
      <3>1. After(n) = {m \in F : r[m] < r[n]}
        <4>1. \A m \in F : r[m] \in Nat /\ r[m] <= high
          BY <2>5
        <4>2. Distinct(F, r) /\ Linked(F, tpfree, r, node)
          BY <2>6
        <4> QED
          BY <4>1, <4>2, AfterIs, SMTT(60)
      <3>2. r[n] \in Nat
        BY <2>5
      <3>3. ~(r[n] < r[n])
        BY <3>2
      <3> QED
        BY <3>1, <3>3
    <2>10. ASSUME NEW n \in Nodes, Active(n), n \notin T
           PROVE  \E i \in 1 .. Len(stack) : stack[i].at = "link" /\ stack[i].tp = n
      <3>1. stack # <<>> /\ Top.at = "link" /\ Top.tp = n
        BY <2>2, <2>10 DEF Lists, Linking, AtTop
      <3>2. 1 \in 1 .. Len(stack)
        BY <3>1, StackFacts
      <3> QED
        BY <3>1, <3>2 DEF Top
    <2> QED
      BY <2>1, <2>6, <2>7, <2>8, <2>9, <2>10 DEF ListsSound, Acyclic
  <1> QED
    BY <1>1, TimersInvariant, PTL

\* While a timer is set and none of the code of timers.c runs, an alarm is coming that is
\* not later than the timer, and sigalrm() will get it, but for the recorded timings.
THEOREM AlarmIsSet == Spec => []AlarmSet
  <1>1. Inv => AlarmSet
    <2> SUFFICES ASSUME Inv, ~Busy, "lost" \notin odd, NEW n \in Nodes, Active(n)
                 PROVE  /\ handler = "sigalrm"
                        /\ pending \/ (alarm > 0 /\ ("slow" \in odd \/ alarm <= node[n].wakeup))
      BY DEF AlarmSet
    <2>1. stack # <<>> => Top.at \in InUser
      <3>1. stack # <<>> => 1 \in 1 .. Len(stack)
        BY StackFacts
      <3> QED
        BY <3>1 DEF Busy, ClientAt, Top, InUser
    <2>2. ~AtTop(InAlarm \cup InDel) /\ ~AtTop(InAlarm) /\ ~Linking(n) /\ ~AtTop({"link", "end"}) /\ ~AtTop(Filling)
      BY <2>1 DEF AtTop, InAlarm, InDel, InUser, Linking, Filling
    <2>3. "defer" \notin state
      BY <2>2 DEF Inv, Bits
    <2> QED
      BY <2>2, <2>3 DEF Inv, Outside, Lost, Slow
  <1> QED
    BY <1>1, TimersInvariant, PTL

\* SIGALRM does not come when it would end the process, unless time passed while a timer
\* was being linked.
THEOREM ShellSurvives == Spec => []NeverKilled
  <1>1. Inv => NeverKilled
    BY NodeFacts DEF Inv, Given, Slow, NeverKilled
  <1> QED
    BY <1>1, TimersInvariant, PTL

\* As long as its timer is set, read -t holds the handle of that timer.
THEOREM ReadCanCancel == Spec => []CanCancel
  <1>1. Inv => CanCancel
    <2> SUFFICES ASSUME Inv, base = "dfl", NEW f \in Range(stack), f.at = "read",
                        NEW n \in Nodes, Active(n), node[n].id = f.id
                 PROVE  f.tp # Nil /\ node[f.tp].id = f.id
      BY DEF CanCancel
    <2>1. f.tp = n
      BY DEF Inv, Handles
    <2> QED
      BY <2>1, Consts
  <1> QED
    BY <1>1, TimersInvariant, PTL

----------------------------------------------------------------------------
(* The service of the timers                                               *)

\* When a timer is due: one whose action is about to be called stands for the time it
\* was set for.
TimerDue(n) == IF AtTop({"act"}) /\ Top.tp = n THEN Top.d ELSE node[n].wakeup

ArmedOf(nd, st) ==
    [i \in {nd[n].id : n \in {m \in Nodes : nd[m].action # "none"}} |->
        LET n == CHOOSE n \in Nodes : nd[n].action # "none" /\ nd[n].id = i
            called == {f \in Range(st) : f.at = "act" /\ f.tp = n}
        IN  [due  |-> IF called = {} THEN nd[n].wakeup ELSE (CHOOSE f \in called : TRUE).d,
             incr |-> nd[n].incr]]

LEMMA ArmedHere == ArmedNow = ArmedOf(node, stack)
  BY DEF ArmedNow, ArmedOf, Active

LEMMA ArmedNext == ArmedNow' = ArmedOf(node', stack')
  BY DEF ArmedNow, ArmedOf, Active

\* The timers that are set, under their numbers.
Numbers == {i \in 0 .. MaxAdds : \E n \in Nodes : Active(n) /\ node[n].id = i}

ArmedIs ==
    /\ ArmedNow = [i \in Numbers |-> ArmedNow[i]]
    /\ DOMAIN ArmedNow = Numbers
    /\ \A n \in Nodes : Active(n) =>
          /\ node[n].id \in Numbers
          /\ ArmedNow[node[n].id] = [due |-> TimerDue(n), incr |-> node[n].incr]

\* No two timers have the same number.
LEMMA Apart ==
    ASSUME Inv, NEW m \in Nodes, NEW n \in Nodes, Active(m), Active(n), node[m].id = node[n].id
    PROVE  m = n
  <1>1. PICK T \in SUBSET Nodes, F \in SUBSET Nodes, r \in [Nodes -> Nat], high \in Nat : Lists(T, F, r, high)
    BY DEF Inv, Sound
  <1>2. (m \in T \/ Linking(m)) /\ (n \in T \/ Linking(n))
    BY <1>1 DEF Lists
  <1>3. CASE m \in T /\ n \in T
    <2>1. Ids(node)[m] = Ids(node)[n]
      BY DEF Ids
    <2> QED
      BY <1>1, <1>3, <2>1 DEF Lists, Distinct
  <1>4. ASSUME NEW a \in T, NEW b \in Nodes, Linking(b)
        PROVE  node[a].id # node[b].id
    <2>1. stack # <<>> /\ Top.at = "link" /\ Top.tp = b
      BY <1>4 DEF Linking, AtTop
    <2>2. Top \in Range(stack)
      BY <2>1, StackFacts
    <2>3. Holds(Top, T, F) /\ Numbered(Top)
      BY <1>1, <2>2 DEF Lists, Inv, Counted
    <2>4. node[b].id = adds /\ node[a].id < adds
      BY <2>1, <2>3 DEF Holds, Numbered, Adding
    <2>5. adds \in Nat
      BY StackFacts
    <2> QED
      BY <2>4, <2>5
  <1>5. CASE Linking(m) /\ Linking(n)
    BY <1>5 DEF Linking
  <1> QED
    BY <1>2, <1>3, <1>4, <1>5

LEMMA ArmedNowIs ==
    ASSUME Inv
    PROVE  ArmedIs
  <1>1. \A n \in Nodes : node[n].id \in 0 .. MaxAdds
    BY NodeFacts DEF Inv
  <1>2. {node[n].id : n \in {m \in Nodes : Active(m)}} = Numbers
    BY <1>1 DEF Numbers
  <1>3. DOMAIN ArmedNow = Numbers /\ ArmedNow = [i \in Numbers |-> ArmedNow[i]]
    BY <1>2 DEF ArmedNow
  <1>4. ASSUME NEW n \in Nodes, Active(n)
        PROVE  /\ node[n].id \in Numbers
               /\ ArmedNow[node[n].id] = [due |-> TimerDue(n), incr |-> node[n].incr]
    <2>1. node[n].id \in Numbers
      BY <1>1, <1>4 DEF Numbers
    <2>2. \A m \in Nodes : Active(m) /\ node[m].id = node[n].id => m = n
      BY <1>4, Apart
    <2>3. (CHOOSE m \in Nodes : Active(m) /\ node[m].id = node[n].id) = n
      BY <1>4, <2>2
    <2>4. PICK called : called = {f \in Range(stack) : f.at = "act" /\ f.tp = n}
      OBVIOUS
    <2>5. ArmedNow[node[n].id] =
             [due  |-> IF called = {} THEN node[n].wakeup ELSE (CHOOSE f \in called : TRUE).d,
              incr |-> node[n].incr]
      BY <1>2, <2>1, <2>3, <2>4 DEF ArmedNow
    <2>6. (IF called = {} THEN node[n].wakeup ELSE (CHOOSE f \in called : TRUE).d) = TimerDue(n)
      <3>1. \A f \in called : f = Top /\ AtTop({"act"}) /\ Top.tp = n
        BY <2>4, StackFacts DEF AtTop
      <3>2. AtTop({"act"}) /\ Top.tp = n => Top \in called
        BY <2>4, StackFacts DEF AtTop
      <3>3. CASE called = {}
        BY <3>2, <3>3 DEF TimerDue
      <3>4. CASE called # {}
        <4>1. AtTop({"act"}) /\ Top.tp = n
          BY <3>1, <3>4
        <4>2. (CHOOSE f \in called : TRUE) = Top
          BY <3>1, <3>4
        <4> QED
          BY <3>4, <4>1, <4>2 DEF TimerDue
      <3> QED
        BY <3>3, <3>4
    <2> QED
      BY <2>1, <2>5, <2>6
  <1> QED
    BY <1>3, <1>4 DEF ArmedIs

LEMMA ArmedThen == Inv' => ArmedIs'
  <1>1. Inv => ArmedIs
    BY ArmedNowIs
  <1> QED
    BY <1>1, PTL

\* Where no timer is set, nor one changed, the service sees nothing but timers taken back.
LEMMA Taken ==
    ASSUME Inv, Inv', UNCHANGED <<fired, clock>>,
           \A n \in Nodes : Active(n)' => /\ Active(n) /\ node'[n].id = node[n].id
                                          /\ node'[n].incr = node[n].incr /\ TimerDue(n)' = TimerDue(n)
    PROVE  Service!Next
  <1>1. ArmedIs /\ ArmedIs'
    BY ArmedNowIs, ArmedThen
  <1>2. ASSUME NEW i \in DOMAIN ArmedNow'
        PROVE  i \in DOMAIN ArmedNow /\ ArmedNow'[i] = ArmedNow[i]
    <2>1. i \in Numbers'
      BY <1>1, <1>2 DEF ArmedIs
    <2>2. PICK n \in Nodes : Active(n)' /\ node'[n].id = i
      BY <2>1 DEF Numbers
    <2>3. ArmedNow'[i] = [due |-> TimerDue(n)', incr |-> node'[n].incr]
      BY <1>1, <2>2 DEF ArmedIs
    <2>4. Active(n) /\ node[n].id = i
      BY <2>2
    <2>5. i \in Numbers /\ ArmedNow[i] = [due |-> TimerDue(n), incr |-> node[n].incr]
      BY <1>1, <2>4 DEF ArmedIs
    <2>6. i \in DOMAIN ArmedNow
      BY <1>1, <2>5 DEF ArmedIs
    <2> QED
      BY <2>2, <2>3, <2>5, <2>6
  <1>3. Service!Cancel
    BY <1>2 DEF Service!Cancel
  <1> QED
    BY <1>3 DEF Service!Next

\* No action is about to be called where IN_SIGALRM is off.
CallsInAlarm == "alrm" \notin state => ~AtTop({"act"})

LEMMA NoCall ==
    ASSUME Inv
    PROVE  CallsInAlarm
  <1>1. AtTop({"act"}) => AtTop({"scan", "act", "break"})
    BY DEF AtTop
  <1> QED
    BY <1>1 DEF Inv, Bits, CallsInAlarm

LEMMA NoCallThen == Inv' => CallsInAlarm'
  <1>1. Inv => CallsInAlarm
    BY NoCall
  <1> QED
    BY <1>1, PTL

\* A step of the code outside of sigalrm() that sets no timer.
LEMMA Quiet ==
    ASSUME Inv, Inv', UNCHANGED <<fired, clock>>, "alrm" \notin state', ~AtTop({"act"}),
           \A n \in Nodes : Active(n)' => /\ Active(n) /\ node'[n].id = node[n].id
                                          /\ node'[n].incr = node[n].incr /\ node'[n].wakeup = node[n].wakeup
    PROVE  Service!Next
  <1>1. ~AtTop({"act"})'
    BY NoCallThen DEF CallsInAlarm
  <1>2. \A n : TimerDue(n) = node[n].wakeup
    BY DEF TimerDue
  <1>3. \A n : TimerDue(n)' = node'[n].wakeup
    BY <1>1 DEF TimerDue
  <1> QED
    BY <1>2, <1>3, Taken

LEMMA QuietSame ==
    ASSUME Inv, Inv', UNCHANGED <<node, fired, clock>>, "alrm" \notin state', ~AtTop({"act"})
    PROVE  Service!Next
  <1>1. \A n \in Nodes : Active(n)' => /\ Active(n) /\ node'[n].id = node[n].id
                                       /\ node'[n].incr = node[n].incr /\ node'[n].wakeup = node[n].wakeup
    BY DEF Active
  <1> QED
    BY <1>1, Quiet

\* ... that begins a call of sigalrm(), or ends one.
LEMMA ScansServe ==
    ASSUME Inv, Inv', UNCHANGED <<node, fired, clock>>, ~AtTop({"act"}), ~AtTop({"act"})'
    PROVE  Service!Next
  <1>1. \A n : TimerDue(n) = node[n].wakeup
    BY DEF TimerDue
  <1>2. \A n : TimerDue(n)' = node'[n].wakeup
    BY DEF TimerDue
  <1>3. \A n \in Nodes : Active(n)' => /\ Active(n) /\ node'[n].id = node[n].id
                                       /\ node'[n].incr = node[n].incr /\ TimerDue(n)' = TimerDue(n)
    BY <1>1, <1>2 DEF Active
  <1> QED
    BY <1>3, Taken

\* ... where a timer is deleted.
LEMMA QuietDeleted ==
    ASSUME Inv, Inv', UNCHANGED <<fired, clock>>, "alrm" \notin state', ~AtTop({"act"}),
           \A n \in Nodes : \/ node'[n] = node[n]
                            \/ node'[n] = [node[n] EXCEPT !.action = "none"]
    PROVE  Service!Next
  <1>1. \A n \in Nodes : node[n] \in Cells
    BY NodeFacts DEF Inv
  <1>2. ASSUME NEW n \in Nodes, Active(n)'
        PROVE  /\ Active(n) /\ node'[n].id = node[n].id
               /\ node'[n].incr = node[n].incr /\ node'[n].wakeup = node[n].wakeup
    <2>1. node'[n].action # "none"
      BY <1>2 DEF Active
    <2>2. node'[n] = node[n]
      BY <1>1, <2>1 DEF Cells
    <2> QED
      BY <2>1, <2>2 DEF Active
  <1> QED
    BY <1>2, Quiet

\* Where the running frame is one of a, IN_SIGALRM is off.
LEMMA OutsideAlarm ==
    ASSUME Inv, NEW a \in InAdd \cup InDel \cup InUser, At(a)
    PROVE  "alrm" \notin state /\ ~AtTop({"act"})
  <1>1. \A S : AtTop(S) <=> a \in S
    BY AtIs
  <1>2. a \notin InAlarm /\ a # "act"
    BY DEF InAdd, InDel, InUser, InAlarm
  <1>3. ~AtTop(InAlarm) /\ ~AtTop({"act"})
    BY <1>1, <1>2
  <1> QED
    BY <1>3 DEF Inv, Bits

LEMMA IdleNoAlarm ==
    ASSUME Inv, Idle
    PROVE  "alrm" \notin state /\ ~AtTop({"act"})
  <1>1. ~AtTop(InAlarm) /\ ~AtTop({"act"})
    BY DEF Idle, AtTop
  <1> QED
    BY <1>1 DEF Inv, Bits

LEMMA ReadingNoAlarm ==
    ASSUME Inv, Idle \/ Reading
    PROVE  "alrm" \notin state /\ ~AtTop({"act"})
  <1>1. Reading => At("read") \/ At("wait")
    BY DEF Reading
  <1>2. {"read", "wait"} \subseteq InAdd \cup InDel \cup InUser
    BY DEF InUser
  <1> QED
    BY <1>1, <1>2, IdleNoAlarm, OutsideAlarm

\* sh_timeradd() but for the step that sets the timer.
LEMMA AddServes ==
    ASSUME Inv, Inv', Take \/ Pop \/ LinkIn \/ ReadTop \/ End \/ Check \/ Give
    PROVE  Service!Next
  <1>1. InAdd \subseteq InAdd \cup InDel \cup InUser /\ {"take", "pop", "link", "top", "end", "check", "give"} \subseteq InAdd
    BY DEF InAdd
  <1>2. UNCHANGED <<node, fired, clock>>
    BY DEF Take, Pop, LinkIn, ReadTop, End, Check, Give, lists, rest
  <1>3. CASE Take \/ Pop \/ LinkIn \/ ReadTop \/ Check \/ Give
    <2>1. \E a \in {"take", "pop", "link", "top", "check", "give"} : At(a)
      BY <1>3 DEF Take, Pop, LinkIn, ReadTop, Check, Give
    <2>2. "alrm" \notin state /\ ~AtTop({"act"})
      BY <1>1, <2>1, OutsideAlarm
    <2>3. state' \subseteq state \cup {"defer"}
      BY <1>3 DEF Take, Pop, LinkIn, ReadTop, Check, Give
    <2> QED
      BY <1>2, <2>2, <2>3, QuietSame
  <1>4. CASE End
    <2>1. "alrm" \notin state /\ ~AtTop({"act"})
      <3>1. At("end")
        BY <1>4 DEF End
      <3> QED
        BY <1>1, <3>1, OutsideAlarm
    <2>2. CASE "defer" \notin state
      <3>1. state' = state \ {"add"}
        BY <1>4, <2>2 DEF End
      <3> QED
        BY <1>2, <2>1, <3>1, QuietSame
    <2>3. CASE "defer" \in state
      <3>1. PICK f, g : f = Frame("scan", Nil, "none", 0, 0) /\ stack' = <<f, g>> \o Tail(stack)
        BY <1>4, <2>3 DEF End
      <3>2. stack \in Seq(Frames) /\ stack # <<>>
        BY <1>4, StackFacts DEF End, At
      <3>3. stack'[1] = f /\ f.at = "scan"
        BY <3>1, <3>2 DEF Frame
      <3>4. ~AtTop({"act"})'
        BY <3>3 DEF AtTop, Top
      <3> QED
        BY <1>2, <2>1, <3>4, ScansServe
    <2> QED
      BY <2>2, <2>3
  <1> QED
    BY <1>3, <1>4

\* sh_timerdel(NULL).
LEMMA DelServes ==
    ASSUME Inv, Inv', DelStep
    PROVE  Service!Next
  <1>1. {"walk", "giveup"} \subseteq InAdd \cup InDel \cup InUser
    BY DEF InDel
  <1>2. UNCHANGED <<state, fired, clock>>
    BY DEF DelStep, Walk, WalkEnd, GiveUp, rest
  <1>3. \E a \in {"walk", "giveup"} : At(a)
    BY DEF DelStep, Walk, WalkEnd, GiveUp
  <1>4. "alrm" \notin state /\ ~AtTop({"act"})
    BY <1>1, <1>3, OutsideAlarm
  <1>5. CASE WalkEnd \/ GiveUp
    <2>1. UNCHANGED node
      BY <1>5 DEF WalkEnd, GiveUp, lists
    <2> QED
      BY <1>2, <1>4, <2>1, QuietSame
  <1>6. CASE Walk
    <2>1. node' = [node EXCEPT ![Top.tp].action = "none"]
      BY <1>6 DEF Walk, Delete
    <2>2. node \in [Nodes -> Cells]
      BY NodeFacts DEF Inv
    <2>3. \A n \in Nodes : \/ node'[n] = node[n]
                           \/ node'[n] = [node[n] EXCEPT !.action = "none"]
      BY <2>1, <2>2
    <2> QED
      BY <1>2, <1>4, <2>3, QuietDeleted
  <1> QED
    BY <1>5, <1>6 DEF DelStep

\* The users of timers.
LEMMA UsingServes ==
    ASSUME Inv, Inv', Using
    PROVE  Service!Next
  <1>1. {"assign", "read", "wait", "pause", "del"} \subseteq InAdd \cup InDel \cup InUser
    BY DEF InUser
  <1>2. node \in [Nodes -> Cells]
    BY NodeFacts DEF Inv
  <1>3. ASSUME NEW kind \in Users, Start(kind)
        PROVE  Service!Next
    <2>1. UNCHANGED <<state, node, fired, clock>> /\ (Idle \/ Reading)
      BY <1>3 DEF Start, MayStart, lists
    <2> QED
      BY <2>1, ReadingNoAlarm, QuietSame
  <1>4. CASE ForkChild \/ Exec
    <2>1. UNCHANGED <<state, node, fired, clock>> /\ (Idle \/ Reading)
      BY <1>4 DEF ForkChild, Exec, lists, rest
    <2> QED
      BY <2>1, ReadingNoAlarm, QuietSame
  <1>5. CASE Assign \/ WaitEnds \/ Resume \/ Abandon
    <2>1. UNCHANGED <<state, node, fired, clock>>
      BY <1>5 DEF Assign, WaitEnds, Resume, Abandon, lists, rest
    <2>2. \E a \in {"assign", "wait", "pause", "read"} : At(a)
      BY <1>5 DEF Assign, WaitEnds, Resume, Abandon
    <2>3. "alrm" \notin state /\ ~AtTop({"act"})
      BY <1>1, <2>2, OutsideAlarm
    <2> QED
      BY <2>1, <2>3, QuietSame
  <1>6. CASE ReadEnds
    <2>1. At("read") /\ UNCHANGED <<state, fired, clock>>
      BY <1>6 DEF ReadEnds
    <2>2. \A n \in Nodes : \/ node'[n] = node[n]
                           \/ node'[n] = [node[n] EXCEPT !.action = "none"]
      BY <1>6 DEF ReadEnds
    <2>3. "alrm" \notin state /\ ~AtTop({"act"})
      BY <1>1, <2>1, OutsideAlarm
    <2> QED
      BY <2>1, <2>2, <2>3, QuietDeleted
  <1>7. CASE DeleteStatic
    <2>1. At("del") /\ UNCHANGED <<state, fired, clock>>
      BY <1>7 DEF DeleteStatic
    <2>2. node' = node \/ \E h : node' = [node EXCEPT ![h].action = "none"]
      BY <1>7 DEF DeleteStatic, Delete
    <2>3. \A n \in Nodes : \/ node'[n] = node[n]
                           \/ node'[n] = [node[n] EXCEPT !.action = "none"]
      BY <1>2, <2>2
    <2>4. "alrm" \notin state /\ ~AtTop({"act"})
      BY <1>1, <2>1, OutsideAlarm
    <2> QED
      BY <2>1, <2>3, <2>4, QuietDeleted
  <1> QED
    BY <1>3, <1>4, <1>5, <1>6, <1>7 DEF Using

\* A signal that leaves the stack alone, or begins a call of sigalrm().
LEMMA SignalServes ==
    ASSUME Inv, Inv', Sigalrm \/ OtherAlarm
    PROVE  Service!Next
  <1>1. UNCHANGED <<node, fired, clock>>
    BY DEF Sigalrm, OtherAlarm, lists, rest
  <1>2. CASE UNCHANGED stack
    <2>1. \A n \in Nodes : Active(n)' => /\ Active(n) /\ node'[n].id = node[n].id
                                         /\ node'[n].incr = node[n].incr /\ TimerDue(n)' = TimerDue(n)
      BY <1>1, <1>2 DEF Active, TimerDue, AtTop, Top
    <2> QED
      BY <1>1, <2>1, Taken
  <1>3. CASE state = {} /\ Sigalrm
    <2>1. PICK f : f = Frame("scan", Nil, "none", 0, 0) /\ stack' = <<f>> \o stack
      BY <1>3 DEF Sigalrm, Push
    <2>2. stack \in Seq(Frames)
      BY StackFacts
    <2>3. stack'[1] = f /\ f.at = "scan"
      BY <2>1, <2>2 DEF Frame
    <2>4. ~AtTop({"act"})'
      BY <2>3 DEF AtTop, Top
    <2>5. ~AtTop({"act"})
      BY <1>3, NoCall DEF CallsInAlarm
    <2> QED
      BY <1>1, <2>4, <2>5, ScansServe
  <1>4. CASE ~ (state = {} /\ Sigalrm)
    BY <1>2, <1>4 DEF Sigalrm, OtherAlarm
  <1> QED
    BY <1>3, <1>4

\* sigalrm() after an action, and when no timer is due.
LEMMA RanBreakServes ==
    ASSUME Inv, Inv', Ran \/ Break
    PROVE  Service!Next
  <1>1. UNCHANGED <<node, fired, clock>>
    BY DEF Ran, Break, lists, rest
  <1>2. PICK a \in {"ran", "break"} : At(a) /\ (Ran => a = "ran")
    BY DEF Ran, Break
  <1>3. ~AtTop({"act"}) /\ stack # <<>> /\ stack \in Seq(Frames)
    BY <1>2, AtIs, StackFacts
  <1>4. CASE Break
    <2>1. "alrm" \notin state'
      BY <1>4 DEF Break
    <2> QED
      BY <1>1, <1>3, <2>1, QuietSame
  <1>5. CASE Ran
    <2>1. stack' = [stack EXCEPT ![1].at = "scan"]
      BY <1>5 DEF Ran, GoTo
    <2>2. 1 \in DOMAIN stack /\ stack[1] \in Frames
      BY <1>3
    <2>3. stack'[1].at = "scan"
      BY <2>1, <2>2 DEF Frames
    <2>4. ~AtTop({"act"})'
      BY <2>3 DEF AtTop, Top
    <2> QED
      BY <1>1, <1>3, <2>4, ScansServe
  <1> QED
    BY <1>4, <1>5

LEMMA TickServes ==
    ASSUME Tick
    PROVE  Service!Next
  <1>1. clock' = clock + 1 /\ UNCHANGED <<node, stack, fired>>
    BY DEF Tick, lists
  <1>2. ArmedNow' = ArmedNow
    BY <1>1, ArmedHere, ArmedNext
  <1> QED
    BY <1>1, <1>2 DEF Service!Next, Service!Tick

\* The step of sh_timeradd() that sets the timer.
LEMMA FillServes ==
    ASSUME Inv, Inv', Fill
    PROVE  Service!Next
  <1>0. PICK n, i : n = Top.tp /\ i = Top.id
    OBVIOUS
  <1>1. /\ At("fill") /\ state' = state \cup {"add"} /\ UNCHANGED <<fired, clock>>
        /\ node' = [node EXCEPT ![n] =
                      [wakeup |-> clock + Top.d, incr |-> IF Top.kind = "touch" THEN Top.d ELSE 0,
                       action |-> Top.kind, next |-> tptop, id |-> i]]
    BY <1>0 DEF Fill, rest
  <1>2. /\ Top.at = "fill" /\ Top \in Range(stack) /\ Fits(Top, adds, base) /\ Numbered(Top)
        /\ Top.d \in Nat /\ ~AtTop({"link"}) /\ ~AtTop({"act"})
    BY <1>1, AddFacts DEF InAdd
  <1>3. /\ node \in [Nodes -> Cells] /\ clock \in Nat /\ adds \in 0 .. MaxAdds /\ malloced \in 0 .. MaxAdds
        /\ MaxAdds \in Nat /\ \A m \in Nodes : node[m].id \in 0 .. MaxAdds
    BY NodeFacts, Consts DEF Inv
  <1>4. PICK T \in SUBSET Nodes, F \in SUBSET Nodes, r \in [Nodes -> Nat], high \in Nat : Lists(T, F, r, high)
    BY DEF Inv, Sound
  <1>5. n \in Nodes /\ n \notin T /\ \A m \in T : node[m].id < adds
    <2>1. Holds(Top, T, F)
      BY <1>2, <1>4 DEF Lists
    <2>2. n \in (1 .. malloced) \ (T \cup F) /\ \A m \in T : node[m].id < adds
      BY <1>0, <1>2, <2>1 DEF Holds, Adding, Filling
    <2>3. 1 .. malloced \subseteq Nodes
      BY <1>3 DEF Nodes
    <2> QED
      BY <2>2, <2>3
  <1>6. Top.kind # "none" /\ i = adds /\ i \in 0 .. MaxAdds /\ fired[i] = 0 /\ Top.d > 0
    BY <1>0, <1>2, <1>3 DEF Fits, Numbered, InAdd, Adding, Filling, Clients, Statics
  <1>7. \A m \in Nodes : Active(m) => m # n /\ node[m].id # i
    <2>1. \A m \in Nodes : Active(m) => m \in T
      BY <1>2, <1>4 DEF Lists, Linking
    <2> QED
      BY <1>3, <1>5, <1>6, <2>1
  <1>8. /\ \A m \in Nodes \ {n} : node'[m] = node[m]
        /\ node'[n].id = i /\ node'[n].action = Top.kind /\ node'[n].wakeup = clock + Top.d
    BY <1>1, <1>3, <1>5
  <1>9. ArmedIs /\ ArmedIs'
    BY ArmedNowIs, ArmedThen
  <1>10. "alrm" \notin state'
    <2>1. "alrm" \notin state
      BY <1>1, OutsideAlarm DEF InAdd
    <2> QED
      BY <1>1, <2>1
  <1>11. ~AtTop({"act"})'
    BY <1>10, NoCallThen DEF CallsInAlarm
  <1>12. /\ \A m : TimerDue(m) = node[m].wakeup
         /\ \A m : TimerDue(m)' = node'[m].wakeup
    BY <1>2, <1>11 DEF TimerDue
  <1>13. Active(n)' /\ \A m \in Nodes \ {n} : Active(m)' <=> Active(m)
    BY <1>6, <1>8 DEF Active
  <1>14. i \notin Numbers /\ Numbers' = Numbers \cup {i}
    <2>1. i \notin Numbers
      BY <1>7 DEF Numbers
    <2>2. ASSUME NEW j \in Numbers
          PROVE  j \in Numbers'
      <3>1. PICK m \in Nodes : Active(m) /\ node[m].id = j
        BY DEF Numbers
      <3>2. m # n /\ Active(m)' /\ node'[m].id = j
        BY <1>7, <1>8, <1>13, <3>1
      <3> QED
        BY <3>2 DEF Numbers
    <2>3. i \in Numbers'
      BY <1>5, <1>6, <1>8, <1>13 DEF Numbers
    <2>4. ASSUME NEW j \in Numbers'
          PROVE  j \in Numbers \cup {i}
      <3>1. PICK m \in Nodes : Active(m)' /\ node'[m].id = j
        BY DEF Numbers
      <3>2. CASE m = n
        BY <1>8, <3>1, <3>2
      <3>3. CASE m # n
        <4>1. Active(m) /\ node[m].id = j
          BY <1>8, <1>13, <3>1, <3>3
        <4> QED
          BY <4>1 DEF Numbers
      <3> QED
        BY <3>2, <3>3
    <2> QED
      BY <2>1, <2>2, <2>3, <2>4
  <1>15. DOMAIN ArmedNow = Numbers /\ DOMAIN ArmedNow' = Numbers'
    BY <1>9 DEF ArmedIs
  <1>16. ASSUME NEW j \in DOMAIN ArmedNow
         PROVE  ArmedNow'[j] = ArmedNow[j]
    <2>1. PICK m \in Nodes : Active(m) /\ node[m].id = j
      BY <1>15, <1>16 DEF Numbers
    <2>2. ArmedNow[j] = [due |-> TimerDue(m), incr |-> node[m].incr]
      BY <1>9, <2>1 DEF ArmedIs
    <2>3. m # n /\ Active(m)' /\ node'[m] = node[m]
      BY <1>7, <1>8, <1>13, <2>1
    <2>4. ArmedNow'[node'[m].id] = [due |-> TimerDue(m)', incr |-> node'[m].incr]
      BY <1>9, <2>3 DEF ArmedIs
    <2>5. TimerDue(m)' = TimerDue(m)
      BY <1>12, <2>3
    <2> QED
      BY <2>1, <2>2, <2>3, <2>4, <2>5
  <1>17. ArmedNow'[i].due > clock
    <2>1. ArmedNow'[node'[n].id] = [due |-> TimerDue(n)', incr |-> node'[n].incr]
      BY <1>5, <1>9, <1>13 DEF ArmedIs
    <2>2. ArmedNow'[i].due = clock + Top.d
      BY <1>8, <1>12, <2>1
    <2> QED
      BY <1>2, <1>3, <1>6, <2>2
  <1>18. Service!Arm
    <2>1. i \in DOMAIN ArmedNow' \ DOMAIN ArmedNow /\ DOMAIN ArmedNow' = DOMAIN ArmedNow \cup {i}
      BY <1>14, <1>15
    <2> QED
      BY <1>1, <1>6, <1>16, <1>17, <2>1 DEF Service!Arm
  <1> QED
    BY <1>18 DEF Service!Next

\* The search of the list: a timer that is set again stands for its old time until its
\* action has been called.
LEMMA ScanServes ==
    ASSUME Inv, Inv', Scan
    PROVE  Service!Next
  <1>1. PICK T \in SUBSET Nodes, F \in SUBSET Nodes, r \in [Nodes -> Nat], high \in Nat : Lists(T, F, r, high)
    BY DEF Inv, Sound
  <1>2. PICK tp \in Ptr, min \in Ptr, again \in BOOLEAN, when \in Nat : Found(T, tp, min, again, when)
    BY <1>1, ScanIs
  <1>3. At("scan") /\ UNCHANGED <<fired, clock>>
    BY DEF Scan, rest
  <1>4. ~AtTop({"act"}) /\ stack \in Seq(Frames)
    BY <1>3, AtIs, StackFacts
  <1>5. /\ \A n \in Nodes : /\ node'[n].action = node[n].action /\ node'[n].incr = node[n].incr
                            /\ node'[n].id = node[n].id
                            /\ ~ (again /\ n = tp) => node'[n].wakeup = node[n].wakeup
        /\ again => tp # Nil
    BY <1>2 DEF Found
  <1>6. PICK f : /\ f = Frame(IF tp = Nil THEN "break" ELSE "act", tp, "none",
                             IF tp = Nil THEN 0 ELSE node[tp].wakeup, 0)
                 /\ stack' = <<f>> \o Tail(stack)
    BY <1>2 DEF Found
  <1>7. /\ f.at = IF tp = Nil THEN "break" ELSE "act"
        /\ f.tp = tp /\ (tp # Nil => f.d = node[tp].wakeup)
    BY <1>6 DEF Frame
  <1>8. stack' # <<>> /\ Top' = f
    BY <1>4, <1>6 DEF Top
  <1>9. AtTop({"act"})' <=> tp # Nil
    BY <1>7, <1>8 DEF AtTop
  <1>10. ASSUME NEW n \in Nodes, Active(n)'
         PROVE  /\ Active(n) /\ node'[n].id = node[n].id
                /\ node'[n].incr = node[n].incr /\ TimerDue(n)' = TimerDue(n)
    <2>1. TimerDue(n) = node[n].wakeup
      BY <1>4 DEF TimerDue
    <2>2. CASE tp # Nil /\ n = tp
      <3>1. TimerDue(n)' = f.d
        BY <1>7, <1>8, <1>9, <2>2 DEF TimerDue
      <3> QED
        BY <1>5, <1>7, <1>10, <2>1, <2>2, <3>1 DEF Active
    <2>3. CASE tp = Nil \/ n # tp
      <3>1. TimerDue(n)' = node'[n].wakeup
        BY <1>7, <1>8, <1>9, <2>3 DEF TimerDue
      <3> QED
        BY <1>5, <1>10, <2>1, <2>3, <3>1 DEF Active
    <2> QED
      BY <2>2, <2>3
  <1> QED
    BY <1>3, <1>10, Taken

\* The call of an action: the timer goes off, and is over or has been set again.
LEMMA ActServes ==
    ASSUME Inv, Inv', Act
    PROVE  Service!Next
  <1>0. PICK n, i : n = Top.tp /\ i = node[n].id
    OBVIOUS
  <1>1. /\ At("act") /\ state' = state \ {"alrm"} /\ clock' = clock
        /\ node' = IF node[n].incr = 0 THEN [node EXCEPT ![n].action = "none"] ELSE node
        /\ fired' = [fired EXCEPT ![i] = @ + 1]
    BY <1>0 DEF Act, kernel
  <1>2. AtTop({"act"}) /\ Top \in Range(stack) /\ Top.at = "act"
    BY <1>1, AtIs
  <1>3. /\ node \in [Nodes -> Cells] /\ clock \in Nat /\ Nil \notin Nodes
        /\ \A m \in Nodes : node[m].wakeup \in Nat /\ node[m].incr \in Nat /\ node[m].id \in 0 .. MaxAdds
    BY NodeFacts, Consts DEF Inv
  <1>4. n \in Nodes /\ Top.d \in Nat
    <2>1. PICK T \in SUBSET Nodes, F \in SUBSET Nodes, r \in [Nodes -> Nat], high \in Nat : Lists(T, F, r, high)
      BY DEF Inv, Sound
    <2>2. Holds(Top, T, F)
      BY <1>2, <2>1 DEF Lists
    <2>3. n \in Nodes
      BY <1>0, <1>2, <2>2 DEF Holds
    <2> QED
      BY <1>2, <2>3, StackFacts, FrameFields
  <1>5. /\ Active(n) /\ Top.d <= clock
        /\ \A m \in Nodes \ {n} : Active(m) => Top.d <= node[m].wakeup
        /\ node[n].incr # 0 => Moved(node[n].wakeup, node[n].incr, Top.d, clock)
    BY <1>0, <1>2 DEF Inv, AtAct
  <1>6. ArmedIs /\ ArmedIs'
    BY ArmedNowIs, ArmedThen
  <1>7. "alrm" \notin state' /\ ~AtTop({"act"})'
    BY <1>1, NoCallThen DEF CallsInAlarm
  <1>8. /\ TimerDue(n) = Top.d
        /\ \A m \in Nodes \ {n} : TimerDue(m) = node[m].wakeup
        /\ \A m : TimerDue(m)' = node'[m].wakeup
    BY <1>0, <1>2, <1>7 DEF TimerDue
  <1>9. DOMAIN ArmedNow = Numbers /\ DOMAIN ArmedNow' = Numbers' /\ ArmedNow' = [j \in Numbers' |-> ArmedNow'[j]]
    BY <1>6 DEF ArmedIs
  <1>10. i \in Numbers /\ ArmedNow[i] = [due |-> Top.d, incr |-> node[n].incr]
    BY <1>0, <1>4, <1>5, <1>6, <1>8 DEF ArmedIs
  <1>11. ASSUME NEW j \in DOMAIN ArmedNow
         PROVE  Service!Due(i) <= Service!Due(j)
    <2>1. PICK m \in Nodes : Active(m) /\ node[m].id = j
      BY <1>9, <1>11 DEF Numbers
    <2>2. ArmedNow[j] = [due |-> TimerDue(m), incr |-> node[m].incr]
      BY <1>6, <2>1 DEF ArmedIs
    <2>3. Top.d <= TimerDue(m)
      BY <1>4, <1>5, <1>8, <2>1
    <2> QED
      BY <1>10, <2>2, <2>3 DEF Service!Due
  <1>12. ASSUME NEW m \in Nodes \ {n}, Active(m)
         PROVE  node[m].id # i
    BY <1>0, <1>4, <1>5, <1>12, Apart
  <1>13. CASE node[n].incr = 0
    <2>1. /\ node'[n].action = "none"
          /\ \A m \in Nodes \ {n} : node'[m] = node[m]
      BY <1>1, <1>3, <1>4, <1>13 DEF Cells
    <2>2. ~Active(n)' /\ \A m \in Nodes \ {n} : (Active(m)' <=> Active(m))
      BY <2>1 DEF Active
    <2>3. ASSUME NEW j \in Numbers'
          PROVE  j \in Numbers \ {i} /\ ArmedNow'[j] = ArmedNow[j]
      <3>1. PICK m \in Nodes : Active(m)' /\ node'[m].id = j
        BY DEF Numbers
      <3>2. m # n /\ Active(m) /\ node'[m] = node[m]
        BY <2>1, <2>2, <3>1
      <3>3. j # i
        BY <1>12, <3>1, <3>2
      <3>4. ArmedNow'[node'[m].id] = [due |-> TimerDue(m)', incr |-> node'[m].incr]
        BY <1>6, <3>1 DEF ArmedIs
      <3>5. node[m].id \in Numbers /\ ArmedNow[node[m].id] = [due |-> TimerDue(m), incr |-> node[m].incr]
        BY <1>6, <3>2 DEF ArmedIs
      <3>6. TimerDue(m)' = TimerDue(m)
        BY <1>8, <3>2
      <3> QED
        BY <3>1, <3>2, <3>3, <3>4, <3>5, <3>6
    <2>4. ASSUME NEW j \in Numbers \ {i}
          PROVE  j \in Numbers'
      <3>1. PICK m \in Nodes : Active(m) /\ node[m].id = j
        BY DEF Numbers
      <3>2. m # n /\ Active(m)' /\ node'[m] = node[m]
        BY <1>0, <2>1, <2>2, <3>1, <2>4
      <3> QED
        BY <3>1, <3>2 DEF Numbers
    <2>5. Numbers' = Numbers \ {i}
      BY <2>3, <2>4
    <2>6. ArmedNow' = [j \in DOMAIN ArmedNow \ {i} |-> ArmedNow[j]]
      BY <1>9, <2>3, <2>5
    <2>7. Service!Due(i) <= clock /\ ArmedNow[i].incr = 0
      BY <1>5, <1>10, <1>13 DEF Service!Due
    <2>8. Service!Expire(i)
      BY <1>1, <1>11, <2>6, <2>7 DEF Service!Expire
    <2> QED
      BY <1>9, <1>10, <2>8 DEF Service!Next
  <1>14. CASE node[n].incr # 0
    <2>1. node' = node /\ node[n].incr > 0
      BY <1>1, <1>3, <1>4, <1>14
    <2>2. PICK k \in 1 .. clock + 1 : /\ node[n].wakeup = Top.d + k * node[n].incr
                                      /\ Top.d + (k - 1) * node[n].incr <= clock
      BY <1>5, <1>14 DEF Moved
    <2>3. Numbers' = Numbers
      BY <2>1 DEF Numbers, Active
    <2>4. ArmedNow'[i] = [due |-> Top.d + k * node[n].incr, incr |-> node[n].incr]
      <3>1. Active(n)'
        BY <1>5, <2>1 DEF Active
      <3>2. ArmedNow'[node'[n].id] = [due |-> TimerDue(n)', incr |-> node'[n].incr]
        BY <1>4, <1>6, <3>1 DEF ArmedIs
      <3>3. TimerDue(n)' = Top.d + k * node[n].incr
        BY <1>8, <2>1, <2>2
      <3> QED
        BY <1>0, <2>1, <3>2, <3>3
    <2>5. ASSUME NEW j \in Numbers, j # i
          PROVE  ArmedNow'[j] = ArmedNow[j]
      <3>1. PICK m \in Nodes : Active(m) /\ node[m].id = j
        BY DEF Numbers
      <3>2. m # n /\ Active(m)' /\ node'[m] = node[m]
        BY <1>0, <2>1, <2>5, <3>1 DEF Active
      <3>3. ArmedNow'[node'[m].id] = [due |-> TimerDue(m)', incr |-> node'[m].incr]
        BY <1>6, <3>2 DEF ArmedIs
      <3>4. ArmedNow[node[m].id] = [due |-> TimerDue(m), incr |-> node[m].incr]
        BY <1>6, <3>1 DEF ArmedIs
      <3>5. TimerDue(m)' = TimerDue(m)
        BY <1>8, <3>2
      <3> QED
        BY <3>1, <3>2, <3>3, <3>4, <3>5
    <2>6. ArmedNow' = [ArmedNow EXCEPT ![i].due = @ + k * node[n].incr]
      <3>1. PICK a : a = ArmedNow
        OBVIOUS
      <3>2. a = [j \in Numbers |-> a[j]] /\ DOMAIN a = Numbers
        BY <1>6, <3>1 DEF ArmedIs
      <3>3. [a[i] EXCEPT !.due = @ + k * node[n].incr] = ArmedNow'[i]
        BY <1>10, <2>4, <3>1
      <3>4. ArmedNow' = [a EXCEPT ![i] = ArmedNow'[i]]
        BY <1>9, <1>10, <2>3, <2>5, <3>1, <3>2
      <3>5. [a EXCEPT ![i].due = @ + k * node[n].incr] = [a EXCEPT ![i] = [a[i] EXCEPT !.due = @ + k * node[n].incr]]
        OBVIOUS
      <3> QED
        BY <3>1, <3>3, <3>4, <3>5
    <2>7. Service!Due(i) + (k - 1) * ArmedNow[i].incr <= clock /\ ArmedNow[i].incr = node[n].incr
      BY <1>10, <2>2 DEF Service!Due
    <2>8. Service!Due(i) <= clock /\ ArmedNow[i].incr > 0
      BY <1>5, <1>10, <2>1 DEF Service!Due
    <2>9. \E x \in 1 .. clock + 1 :
             /\ Service!Due(i) + (x - 1) * ArmedNow[i].incr <= clock
             /\ ArmedNow' = [ArmedNow EXCEPT ![i].due = @ + x * ArmedNow[i].incr]
      BY <2>6, <2>7
    <2>10. Service!Expire(i)
      BY <1>1, <1>11, <2>8, <2>9 DEF Service!Expire
    <2> QED
      BY <1>9, <1>10, <2>10 DEF Service!Next
  <1> QED
    BY <1>13, <1>14

LEMMA StepServes ==
    ASSUME Inv, Inv', [Next]_vars
    PROVE  [Service!Next]_<<ArmedNow, fired, clock>>
  <1>1. CASE Tick \/ Sigalrm \/ OtherAlarm
    BY <1>1, TickServes, SignalServes
  <1>2. CASE HandlerStep
    BY <1>2, ScanServes, ActServes, RanBreakServes DEF HandlerStep
  <1>3. CASE AddStep
    BY <1>3, AddServes, FillServes DEF AddStep
  <1>4. CASE DelStep \/ Using
    BY <1>4, DelServes, UsingServes
  <1>5. CASE UNCHANGED vars
    <2>1. UNCHANGED <<node, stack, fired, clock>>
      BY <1>5 DEF vars, lists
    <2>2. ArmedNow' = ArmedNow
      BY <2>1, ArmedHere, ArmedNext
    <2> QED
      BY <2>1, <2>2
  <1> QED
    BY <1>1, <1>2, <1>3, <1>4, <1>5 DEF Next

LEMMA InitServes ==
    ASSUME Init
    PROVE  Service!Init
  <1>1. \A n \in Nodes : ~Active(n)
    BY DEF Init, Active
  <1>2. Numbers = {}
    BY <1>1 DEF Numbers
  <1>3. ArmedIs
    BY InitInv, ArmedNowIs
  <1>4. DOMAIN ArmedNow = {}
    BY <1>2, <1>3 DEF ArmedIs
  <1> QED
    BY <1>4 DEF Init, Service!Init

\* Whatever sigalrm() interrupts, the two lists and the alarm serve those that set timers:
\* no timer goes off early, or after one that is due later, or twice for one setting, and
\* none that has been taken back.
THEOREM TimersServe == Spec => RefinesService
  <1>1. Init => Service!Init
    BY InitServes
  <1>2. Inv /\ Inv' /\ [Next]_vars => [Service!Next]_<<ArmedNow, fired, clock>>
    BY StepServes
  <1> QED
    BY <1>1, <1>2, TimersInvariant, PTL DEF Spec, RefinesService, Service!Spec
=============================================================================
