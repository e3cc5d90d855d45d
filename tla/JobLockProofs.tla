--------------------------- MODULE JobLockProofs ---------------------------
(***************************************************************************)
(* Theorems about the critical-region protocol of JobLock, for any number  *)
(* of children, any depth of nesting and any width of the lock counter.    *)
(*                                                                         *)
(* The safety theorems assume that no command of a CHLD trap fails: that   *)
(* path breaks the protocol.                                               *)
(***************************************************************************)
EXTENDS JobLock, SequenceTheorems, TLAPS

\* A well-formed stack: a frame adds its own region to those below it.
StackOK(s) ==
    /\ \A i \in 1 .. Len(s) :
          /\ s[i].at # "exit"
          /\ i = Len(s) => s[i].held = IF s[i].at \in Holding THEN 1 ELSE 0
          /\ i < Len(s) =>
               s[i].held = s[i + 1].held + IF s[i].at \in Holding THEN 1 ELSE 0
    /\ \A i, j \in 1 .. Len(s) : i <= j => s[j].held <= s[i].held

----------------------------------------------------------------------------
(* Stacks.                                                                 *)

\* Pushing one frame: length and elements.
LEMMA PushElements ==
    ASSUME NEW x \in Frame, NEW s \in Seq(Frame)
    PROVE  /\ <<x>> \o s \in Seq(Frame)
           /\ <<x>> \o s # <<>>
           /\ Len(<<x>> \o s) = Len(s) + 1
           /\ (<<x>> \o s)[1] = x
           /\ Head(<<x>> \o s) = x
           /\ \A i \in 1 .. Len(s) : (<<x>> \o s)[i + 1] = s[i]
           /\ \A i \in 2 .. Len(s) + 1 : (<<x>> \o s)[i] = s[i - 1]
  <1>1. <<x>> \in Seq(Frame) /\ Len(<<x>>) = 1 /\ <<x>>[1] = x
    OBVIOUS
  <1> DEFINE t == <<x>> \o s
  <1>2. t \in Seq(Frame) /\ Len(t) = 1 + Len(s)
    BY <1>1, ConcatProperties
  <1>3. \A i \in 1 .. 1 + Len(s) : t[i] = IF i <= 1 THEN <<x>>[i] ELSE s[i - 1]
    BY <1>1, ConcatProperties
  <1>4. Len(s) \in Nat
    OBVIOUS
  <1>5. t[1] = x
    BY <1>1, <1>3, <1>4
  <1>6. t # <<>> /\ Head(t) = t[1]
    BY <1>2, <1>4
  <1> HIDE DEF t
  <1>7. \A i \in 1 .. Len(s) : t[i + 1] = s[i]
    BY <1>3, <1>4
  <1>8. \A i \in 2 .. Len(s) + 1 : t[i] = s[i - 1]
    BY <1>3, <1>4
  <1> QED
    BY <1>2, <1>4, <1>5, <1>6, <1>7, <1>8 DEF t

\* The elements of a stack are frames.
LEMMA FrameHeld ==
    ASSUME NEW s \in Seq(Frame), NEW i \in 1 .. Len(s)
    PROVE  s[i].held \in Nat
  <1>1. s[i] \in Frame
    OBVIOUS
  <1> QED
    BY <1>1 DEF Frame

\* The regions held on a stack of frames are a natural number.
LEMMA HeldOnType ==
    ASSUME NEW s \in Seq(Frame)
    PROVE  HeldOn(s) \in Nat
  <1>1. CASE s = <<>>
    BY <1>1 DEF HeldOn
  <1>2. CASE s # <<>>
    <2>1. Head(s) \in Frame
      BY <1>2
    <2> QED
      BY <1>2, <2>1 DEF HeldOn, Frame
  <1> QED
    BY <1>1, <1>2

\* Call pushes a frame that counts one region more if its code holds one.
LEMMA CallStack ==
    ASSUME NEW s \in Seq(Frame), NEW p \in Points, NEW n \in BOOLEAN
    PROVE  /\ Call(p, n, s) \in Seq(Frame)
           /\ Call(p, n, s) # <<>>
           /\ Head(Call(p, n, s)).at = p
           /\ HeldOn(Call(p, n, s)) = HeldOn(s) + IF p \in Holding THEN 1 ELSE 0
           /\ StackOK(s) /\ p # "exit" => StackOK(Call(p, n, s))
  <1> DEFINE x == [at |-> p, held |-> HeldOn(s) + IF p \in Holding THEN 1 ELSE 0,
                   note |-> n]
             t == <<x>> \o s
  <1>1. HeldOn(s) \in Nat
    BY HeldOnType
  <1>2. x \in Frame
    BY <1>1 DEF Frame
  <1>3. /\ t \in Seq(Frame) /\ t # <<>> /\ Len(t) = Len(s) + 1
        /\ t[1] = x /\ Head(t) = x
        /\ \A i \in 1 .. Len(s) : t[i + 1] = s[i]
        /\ \A i \in 2 .. Len(s) + 1 : t[i] = s[i - 1]
    BY <1>2, PushElements
  <1>4. Call(p, n, s) = t
    BY DEF Call
  <1>5. x.at = p /\ x.held = HeldOn(s) + IF p \in Holding THEN 1 ELSE 0
    OBVIOUS
  <1> HIDE DEF t, x
  <1>6. ASSUME StackOK(s), p # "exit"
        PROVE  StackOK(t)
    <2>1. Len(s) \in Nat
      OBVIOUS
    <2>2. \A i \in 1 .. Len(s) : s[i].held \in Nat
      BY FrameHeld
    <2>3. Len(s) > 0 => HeldOn(s) = s[1].held
      BY <2>1 DEF HeldOn
    <2>4. Len(s) = 0 => HeldOn(s) = 0
      BY <2>1 DEF HeldOn
    <2>5. ASSUME NEW i \in 1 .. Len(t)
          PROVE  /\ t[i].at # "exit"
                 /\ i = Len(t) => t[i].held = IF t[i].at \in Holding THEN 1 ELSE 0
                 /\ i < Len(t) =>
                      t[i].held = t[i + 1].held + IF t[i].at \in Holding THEN 1 ELSE 0
      <3>1. CASE i = 1
        BY <3>1, <1>1, <1>3, <1>5, <1>6, <2>1, <2>3, <2>4
      <3>2. CASE i > 1
        <4>1. i - 1 \in 1 .. Len(s) /\ t[i] = s[i - 1]
          BY <3>2, <1>3, <2>1
        <4>2. i < Len(t) => t[i + 1] = s[i] /\ i - 1 < Len(s)
          BY <3>2, <1>3, <2>1
        <4> QED
          BY <4>1, <4>2, <1>3, <1>6, <2>1 DEF StackOK
      <3> QED
        BY <3>1, <3>2, <1>3, <2>1
    <2>6. ASSUME NEW i \in 1 .. Len(t), NEW j \in 1 .. Len(t), i <= j
          PROVE  t[j].held <= t[i].held
      <3>1. CASE i = 1 /\ j = 1
        BY <3>1, <1>1, <1>3, <1>5
      <3>2. CASE i = 1 /\ j > 1
        <4>1. j - 1 \in 1 .. Len(s) /\ t[j] = s[j - 1] /\ Len(s) > 0
          BY <3>2, <1>3, <2>1
        <4>2. s[j - 1].held <= s[1].held
          BY <4>1, <1>6, <2>1 DEF StackOK
        <4> QED
          BY <3>2, <4>1, <4>2, <2>2, <2>3, <1>3, <1>5
      <3>3. CASE i > 1
        <4>1. i - 1 \in 1 .. Len(s) /\ t[i] = s[i - 1]
          BY <3>3, <1>3, <2>1
        <4>2. j - 1 \in 1 .. Len(s) /\ t[j] = s[j - 1]
          BY <3>3, <2>6, <1>3, <2>1
        <4> QED
          BY <4>1, <4>2, <2>6, <1>6 DEF StackOK
      <3> QED
        BY <3>1, <3>2, <3>3, <1>3, <2>1
    <2> QED
      BY <2>5, <2>6 DEF StackOK
  <1>7. HeldOn(t) = HeldOn(s) + IF p \in Holding THEN 1 ELSE 0
    BY <1>3, <1>5 DEF HeldOn
  <1> QED
    BY <1>3, <1>4, <1>5, <1>6, <1>7

\* Returning from the top frame leaves the regions of the rest.
LEMMA TailStack ==
    ASSUME NEW s \in Seq(Frame), s # <<>>
    PROVE  /\ Tail(s) \in Seq(Frame)
           /\ StackOK(s) =>
                /\ StackOK(Tail(s))
                /\ HeldOn(s) =
                     HeldOn(Tail(s)) + IF Head(s).at \in Holding THEN 1 ELSE 0
  <1> DEFINE t == Tail(s)
  <1>1. Len(s) \in Nat /\ Len(s) > 0
    OBVIOUS
  <1>2. /\ t \in Seq(Frame) /\ Len(t) = Len(s) - 1
        /\ \A i \in 1 .. Len(s) - 1 : t[i] = s[i + 1]
        /\ Head(s) = s[1]
    BY <1>1
  <1> HIDE DEF t
  <1>3. ASSUME StackOK(s)
        PROVE  StackOK(t)
    <2>1. ASSUME NEW i \in 1 .. Len(t)
          PROVE  /\ t[i].at # "exit"
                 /\ i = Len(t) => t[i].held = IF t[i].at \in Holding THEN 1 ELSE 0
                 /\ i < Len(t) =>
                      t[i].held = t[i + 1].held + IF t[i].at \in Holding THEN 1 ELSE 0
      <3>1. i + 1 \in 1 .. Len(s) /\ t[i] = s[i + 1]
        BY <1>1, <1>2
      <3>2. i < Len(t) => t[i + 1] = s[i + 1 + 1] /\ i + 1 < Len(s)
        BY <1>1, <1>2
      <3>3. i = Len(t) => i + 1 = Len(s)
        BY <1>1, <1>2
      <3> QED
        BY <3>1, <3>2, <3>3, <1>3 DEF StackOK
    <2>2. ASSUME NEW i \in 1 .. Len(t), NEW j \in 1 .. Len(t), i <= j
          PROVE  t[j].held <= t[i].held
      <3>1. i + 1 \in 1 .. Len(s) /\ j + 1 \in 1 .. Len(s) /\ i + 1 <= j + 1
        BY <1>1, <1>2, <2>2
      <3>2. t[i] = s[i + 1] /\ t[j] = s[j + 1]
        BY <1>1, <1>2
      <3> QED
        BY <3>1, <3>2, <1>3 DEF StackOK
    <2> QED
      BY <2>1, <2>2 DEF StackOK
  <1>4. ASSUME StackOK(s)
        PROVE  HeldOn(s) = HeldOn(t) + IF Head(s).at \in Holding THEN 1 ELSE 0
    <2>1. CASE Len(s) = 1
      <3>1. t = <<>>
        BY <2>1, <1>2
      <3> QED
        BY <2>1, <3>1, <1>1, <1>2, <1>4 DEF StackOK, HeldOn
    <2>2. CASE Len(s) > 1
      <3>1. t # <<>> /\ Head(t) = t[1] /\ t[1] = s[2]
        BY <2>2, <1>1, <1>2
      <3>2. s[1].held = s[2].held + IF s[1].at \in Holding THEN 1 ELSE 0
        <4>1. 1 \in 1 .. Len(s) /\ 1 < Len(s) /\ 1 + 1 = 2
          BY <2>2, <1>1
        <4> QED
          BY <4>1, <1>4 DEF StackOK
      <3> QED
        BY <3>1, <3>2, <1>2 DEF HeldOn
    <2> QED
      BY <2>1, <2>2, <1>1
  <1> QED
    BY <1>2, <1>3, <1>4 DEF t

\* A longjmp lands on a part of the stack that holds no more regions.
LEMMA LandingStack ==
    ASSUME NEW s \in Seq(Frame), NEW t \in Landings(s)
    PROVE  /\ t \in Seq(Frame)
           /\ StackOK(s) => StackOK(t) /\ HeldOn(t) <= HeldOn(s)
  <1>1. Len(s) \in Nat /\ HeldOn(s) \in Nat
    BY HeldOnType
  <1>2. PICK k \in 0 .. Len(s) : t = SubSeq(s, k + 1, Len(s))
    BY DEF Landings
  <1>3. /\ t \in Seq(Frame) /\ Len(t) = Len(s) - k
        /\ \A i \in 1 .. Len(s) - k : t[i] = s[i + k]
    BY <1>1, <1>2
  <1>4. ASSUME StackOK(s)
        PROVE  StackOK(t)
    <2>1. ASSUME NEW i \in 1 .. Len(t)
          PROVE  /\ t[i].at # "exit"
                 /\ i = Len(t) => t[i].held = IF t[i].at \in Holding THEN 1 ELSE 0
                 /\ i < Len(t) =>
                      t[i].held = t[i + 1].held + IF t[i].at \in Holding THEN 1 ELSE 0
      <3>1. i + k \in 1 .. Len(s) /\ t[i] = s[i + k]
        BY <1>1, <1>3
      <3>2. i < Len(t) => t[i + 1] = s[i + k + 1] /\ i + k < Len(s)
        BY <1>1, <1>3
      <3>3. i = Len(t) => i + k = Len(s)
        BY <1>1, <1>3
      <3> QED
        BY <3>1, <3>2, <3>3, <1>4 DEF StackOK
    <2>2. ASSUME NEW i \in 1 .. Len(t), NEW j \in 1 .. Len(t), i <= j
          PROVE  t[j].held <= t[i].held
      <3>1. i + k \in 1 .. Len(s) /\ j + k \in 1 .. Len(s) /\ i + k <= j + k
        BY <1>1, <1>3, <2>2
      <3>2. t[i] = s[i + k] /\ t[j] = s[j + k]
        BY <1>1, <1>3
      <3> QED
        BY <3>1, <3>2, <1>4 DEF StackOK
    <2> QED
      BY <2>1, <2>2 DEF StackOK
  <1>5. ASSUME StackOK(s)
        PROVE  HeldOn(t) <= HeldOn(s)
    <2>1. CASE t = <<>>
      BY <2>1, <1>1 DEF HeldOn
    <2>2. CASE t # <<>>
      <3>1. Len(t) > 0 /\ Head(t) = t[1] /\ t[1] = s[1 + k]
        BY <2>2, <1>1, <1>3
      <3>2. s # <<>> /\ Head(s) = s[1] /\ 1 + k \in 1 .. Len(s) /\ 1 \in 1 .. Len(s)
        BY <3>1, <1>1, <1>3
      <3>3. s[1 + k].held <= s[1].held
        BY <3>2, <1>1, <1>5 DEF StackOK
      <3> QED
        BY <2>2, <3>1, <3>2, <3>3 DEF HeldOn
    <2> QED
      BY <2>1, <2>2
  <1> QED
    BY <1>3, <1>4, <1>5

----------------------------------------------------------------------------
(* Type correctness, on every path.                                        *)

\* The lock counter stays an unsigned integer whatever is added to it.
LEMMA CounterType ==
    ASSUME NEW x \in Int
    PROVE  x % CounterMod \in 0 .. CounterMod - 1
  BY MaxHeldAssumption, CounterAssumption

\* The test of job_unlock() leaves a stack of frames.
LEMMA UnlockTestType ==
    ASSUME NEW after \in Seq(Frame), UnlockTest(after), savesig \in BOOLEAN
    PROVE  pc' \in Seq(Frame) /\ savesig' \in BOOLEAN
  <1>1. Call("reap", FALSE, after) \in Seq(Frame)
    BY CallStack DEF Points
  <1> QED
    BY <1>1 DEF UnlockTest

\* Every step of the shell, of the handler and of the kernel keeps the types.
LEMMA TypeStep ==
    ASSUME TypeOK, [Next]_vars
    PROVE  TypeOK'
  <1> USE DEF TypeOK
  <1>1. ASSUME NEW p \in Points, NEW n \in BOOLEAN, Enter(p, n)
        PROVE  in_critical' \in 0 .. CounterMod - 1 /\ pc' \in Seq(Frame)
    BY <1>1, CallStack, CounterType DEF Enter
  <1>2. ASSUME pc # <<>>, Leave
        PROVE  pc' \in Seq(Frame) /\ savesig' \in BOOLEAN
    <2>1. Tail(pc) \in Seq(Frame)
      BY <1>2, TailStack
    <2>2. Call("unlock", FALSE, Tail(pc)) \in Seq(Frame)
      BY <2>1, CallStack DEF Points, Holding
    <2> QED
      BY <1>2, <2>2, UnlockTestType DEF Leave
  <1>3. ASSUME NEW landing \in Landings(pc), Jump(landing)
        PROVE  pc' \in Seq(Frame) /\ savesig' \in BOOLEAN
    <2>1. landing \in Seq(Frame)
      BY LandingStack
    <2>2. Call(IF HeldOn(landing) = Held THEN "exit" ELSE "unlock", FALSE, landing)
             \in Seq(Frame)
      BY <2>1, CallStack DEF Points, Holding
    <2> QED
      BY <1>3, <2>1, <2>2, UnlockTestType DEF Jump
  <1>4. CASE UNCHANGED vars
    BY <1>4 DEF vars
  <1>5. ASSUME NEW c \in Children, Exit(c)
        PROVE  TypeOK'
    BY <1>5 DEF Exit, sigs
  <1>6. CASE Deliver
    BY <1>6 DEF Deliver, sigs
  <1>7. CASE Waitsafe
    BY <1>7 DEF Waitsafe, kernel
  <1>8. ASSUME NEW c \in Children, Collect(c)
        PROVE  TypeOK'
    BY <1>8 DEF Collect
  <1>9. CASE HandlerReturn
    BY <1>9 DEF HandlerReturn, kernel, sigs
  <1>10. CASE Lock
    BY <1>10, <1>1 DEF Lock, kernel, sigs, Points, Holding
  <1>11. CASE PipeBegin
    BY <1>11, <1>1 DEF PipeBegin, kernel, sigs, Points, Holding
  <1>12. CASE ForkBegin
    BY <1>12, <1>1 DEF ForkBegin, kernel, sigs, Points, Holding
  <1>13. CASE ForkRetry
    BY <1>13, <1>1 DEF ForkRetry, kernel, sigs, Points, Holding
  <1>14. CASE ChkTrap
    BY <1>14, <1>1 DEF ChkTrap, kernel, Points, Holding
  <1>15. CASE Unlock
    BY <1>15, <1>2 DEF Unlock, Top, kernel
  <1>16. CASE ForkEnd
    BY <1>16, <1>2 DEF ForkEnd, Top, kernel
  <1>17. CASE TrapEnd
    <2>1. pc # <<>> /\ Head(pc) \in Frame
      BY <1>17 DEF TrapEnd, Top
    <2>2. Head(pc).note \in BOOLEAN
      BY <2>1 DEF Frame
    <2> QED
      BY <1>17, <1>2, <2>1, <2>2 DEF TrapEnd, kernel
  <1>18. CASE UnlockDec
    <2>1. pc # <<>>
      BY <1>18 DEF UnlockDec, Top
    <2>2. in_critical - 1 \in Int
      BY MaxHeldAssumption, CounterAssumption
    <2> QED
      BY <1>18, <2>1, <2>2, TailStack, CounterType DEF UnlockDec, kernel, sigs
  <1>19. ASSUME NEW c \in Children, Fork(c)
         PROVE  TypeOK'
    BY <1>19 DEF Fork, sigs
  <1>20. ASSUME NEW c \in Children, Post(c)
         PROVE  TypeOK'
    BY <1>20 DEF Post, kernel, sigs
  <1>21. CASE ReapCall
    <2>1. Call(IF savesig THEN "reap" ELSE "block", FALSE, pc) \in Seq(Frame)
      BY CallStack DEF Points
    <2> QED
      BY <1>21, <2>1 DEF ReapCall, kernel
  <1>22. ASSUME NEW c \in Children, ReapTrap(c)
         PROVE  TypeOK'
    <2>1. Tail(pc) \in Seq(Frame)
      BY <1>22, TailStack DEF ReapTrap, Top
    <2>2. Call("reap0", FALSE, Tail(pc)) \in Seq(Frame)
      BY <2>1, CallStack DEF Points
    <2>3. Call("trap", trapnote, Call("reap0", FALSE, Tail(pc))) \in Seq(Frame)
      BY <2>2, CallStack DEF Points, Holding
    <2>4. in_critical + 1 \in Int
      BY MaxHeldAssumption, CounterAssumption
    <2> QED
      BY <1>22, <2>3, <2>4, CounterType DEF ReapTrap
  <1>23. CASE ReapReturn
    <2>1. pc # <<>>
      BY <1>23 DEF ReapReturn, Top
    <2> QED
      BY <1>23, <2>1, TailStack DEF ReapReturn, kernel, sigs
  <1>24. ASSUME NEW c \in Children, TrapRun(c)
         PROVE  TypeOK'
    BY <1>24 DEF TrapRun, kernel, sigs
  <1>25. CASE ShExit
    BY <1>25, <1>3 DEF ShExit, kernel
  <1>26. ASSUME NEW lost \in SUBSET Children, ReapExit(lost)
         PROVE  TypeOK'
    BY <1>26, <1>3 DEF ReapExit, Lost
  <1>27. ASSUME NEW lost \in SUBSET Children, HandlerExit(lost)
         PROVE  TypeOK'
    <2>1. pc' \in Seq(Frame)
      BY <1>27, LandingStack DEF HandlerExit
    <2> QED
      BY <1>27, <2>1 DEF HandlerExit, Lost, sigs
  <1>28. CASE Handler
    BY <1>28, <1>6, <1>7, <1>8, <1>9, <1>27 DEF Handler, HandlerReap
  <1>29. CASE Main
    BY <1>29, <1>8, <1>10, <1>11, <1>12, <1>13, <1>14, <1>15, <1>16, <1>17, <1>18,
       <1>19, <1>20, <1>21, <1>22, <1>23, <1>24, <1>25, <1>26 DEF Main, ReapNote
  <1> QED
    BY <1>4, <1>5, <1>28, <1>29 DEF Next

\* The initial state is well-typed.
LEMMA InitType ==
    ASSUME Init
    PROVE  TypeOK
  <1>1. 0 \in 0 .. CounterMod - 1
    BY MaxHeldAssumption, CounterAssumption
  <1>2. <<>> \in Seq(Frame)
    OBVIOUS
  <1> QED
    BY <1>1, <1>2 DEF Init, TypeOK

\* The state of the shell and of its job lock always has its types: on every
\* path, the rare ones included, job.in_critical stays an unsigned integer.
THEOREM TypeCorrect == Spec => []TypeOK
  <1>1. Init => TypeOK
    BY InitType
  <1>2. TypeOK /\ [Next]_vars => TypeOK'
    BY TypeStep
  <1> QED
    BY <1>1, <1>2, PTL DEF Spec

----------------------------------------------------------------------------
(* The protocol, on every path but the failing CHLD trap.                  *)

\* A child that is not in the job table exists only under job_fork()'s lock.
ForkLocked ==
    \A c \in Children :
        child[c] # "unborn" /\ entry[c] = "none" =>
            child[c] # "gone" /\ pc # <<>> /\ Head(pc).at = "fork"

\* The counter is at least the number of open regions; an exit out of
\* several regions may leak counts, but too few to wrap the counter.
Counted ==
    /\ Held <= MaxHeld
    /\ Held <= in_critical /\ in_critical <= Held + MaxHeld
    /\ "nested" \notin Rare => in_critical = Held

\* The inductive invariant.
IInv ==
    /\ TypeOK
    /\ StackOK(pc)
    /\ Counted
    /\ NoReapInRegion
    /\ ForkLocked

\* One more region: the counter does not wrap.
LEMMA EnterStep ==
    ASSUME IInv, NEW p \in Holding, NEW n \in BOOLEAN, Held < MaxHeld, Enter(p, n)
    PROVE  /\ StackOK(pc') /\ Counted' /\ Held' = Held + 1
           /\ pc' # <<>> /\ Head(pc').at = p
  <1>1. p \in Points /\ p # "exit" /\ pc \in Seq(Frame)
    BY DEF Points, Holding, IInv, TypeOK
  <1>2. /\ StackOK(pc') /\ pc' # <<>> /\ Head(pc').at = p
        /\ HeldOn(pc') = HeldOn(pc) + 1
    BY <1>1, CallStack DEF IInv, Enter
  <1>3. in_critical \in Nat /\ Held \in Nat
    BY <1>1, HeldOnType, CounterAssumption DEF IInv, TypeOK, Held
  <1>4. in_critical + 1 \in 0 .. CounterMod - 1
    BY <1>3, MaxHeldAssumption, CounterAssumption DEF IInv, Counted
  <1>5. in_critical' = in_critical + 1
    BY <1>3, <1>4, CounterAssumption DEF Enter
  <1> QED
    BY <1>2, <1>3, <1>5, MaxHeldAssumption DEF IInv, Counted, Held

\* The test of job_unlock() opens and closes no region.
LEMMA UnlockTestStep ==
    ASSUME NEW after \in Seq(Frame), StackOK(after), UnlockTest(after)
    PROVE  StackOK(pc') /\ HeldOn(pc') = HeldOn(after)
  <1> DEFINE p == "reap"
             t == Call(p, FALSE, after)
  <1>1. HeldOn(after) \in Nat
    BY HeldOnType
  <1>2. p \in Points /\ p \notin Holding /\ p # "exit"
    BY DEF Points, Holding
  <1>3. pc' = t \/ pc' = after
    BY DEF UnlockTest
  <1> HIDE DEF p
  <1>4. StackOK(t) /\ HeldOn(t) = HeldOn(after) + 0
    BY <1>2, CallStack
  <1> HIDE DEF t
  <1>5. HeldOn(t) = HeldOn(after)
    BY <1>1, <1>4
  <1> QED
    BY <1>3, <1>4, <1>5

\* Leaving the region at the top of the stack, up to the decrement.
LEMMA LeaveStep ==
    ASSUME IInv, Leave, pc # <<>>, Head(pc).at \in Holding, UNCHANGED in_critical
    PROVE  StackOK(pc') /\ Counted' /\ Held' = Held
  <1>1. pc \in Seq(Frame) /\ StackOK(pc)
    BY DEF IInv, TypeOK
  <1>2. /\ Tail(pc) \in Seq(Frame) /\ StackOK(Tail(pc))
        /\ HeldOn(pc) = HeldOn(Tail(pc)) + 1
    BY <1>1, TailStack
  <1> DEFINE after == Call("unlock", FALSE, Tail(pc))
  <1>3. /\ after \in Seq(Frame) /\ StackOK(after)
        /\ HeldOn(after) = HeldOn(Tail(pc)) + 1
    BY <1>2, CallStack DEF Points, Holding
  <1> HIDE DEF after
  <1>4. StackOK(pc') /\ HeldOn(pc') = HeldOn(after)
    BY <1>3, UnlockTestStep DEF Leave, after
  <1> QED
    BY <1>2, <1>3, <1>4 DEF IInv, Counted, Held

\* The jump of sh_exit() leaves a region that it has unlocked.
LEMMA JumpStep ==
    ASSUME IInv, "trap" \notin Rare, NEW landing \in Landings(pc),
           MayJump(landing), Jump(landing), UNCHANGED in_critical
    PROVE  StackOK(pc') /\ Counted'
  <1>1. pc \in Seq(Frame) /\ StackOK(pc)
    BY DEF IInv, TypeOK
  <1>2. landing \in Seq(Frame) /\ StackOK(landing) /\ HeldOn(landing) <= Held
    BY <1>1, LandingStack DEF Held
  <1>3. HeldOn(landing) \in Nat /\ Held \in Nat /\ in_critical \in Nat
    BY <1>1, <1>2, HeldOnType, CounterAssumption DEF Held, IInv, TypeOK
  <1>4. HeldOn(landing) # Held
    BY DEF MayJump
  <1>5. HeldOn(landing) < Held /\ in_critical > 0
    BY <1>2, <1>3, <1>4 DEF IInv, Counted
  <1> DEFINE after == Call("unlock", FALSE, landing)
  <1>6. /\ after \in Seq(Frame) /\ StackOK(after)
        /\ HeldOn(after) = HeldOn(landing) + 1
    BY <1>2, CallStack DEF Points, Holding
  <1>7. UnlockTest(after)
    BY <1>4, <1>5 DEF Jump
  <1> HIDE DEF after
  <1>8. StackOK(pc') /\ HeldOn(pc') = HeldOn(landing) + 1
    BY <1>6, <1>7, UnlockTestStep
  <1>9. Held' = HeldOn(landing) + 1
    BY <1>8 DEF Held
  <1>10. HeldOn(landing) + 1 < Held => in_critical = Held /\ "nested" \in Rare
    BY DEF MayJump
  <1> QED
    BY <1>3, <1>5, <1>8, <1>9, <1>10, MaxHeldAssumption DEF IInv, Counted

\* While the shell is not at the top of a fork, every child is posted.
LEMMA PostedUnlessFork ==
    ASSUME ForkLocked, pc = <<>> \/ Head(pc).at # "fork"
    PROVE  AllPosted
  BY DEF ForkLocked, AllPosted, Posted

\* If every child is posted, ForkLocked holds.
LEMMA AllPostedForkLocked ==
    ASSUME AllPosted'
    PROVE  ForkLocked'
  BY DEF ForkLocked, AllPosted, Posted

\* While the handler reaps, every child is posted.
LEMMA HandlerPosted ==
    ASSUME IInv, handler = "reap"
    PROVE  AllPosted
  <1>1. pc \in Seq(Frame) /\ StackOK(pc) /\ Held = 0 /\ ForkLocked
    BY DEF IInv, TypeOK, NoReapInRegion
  <1>2. ASSUME pc # <<>>
        PROVE  Head(pc).at # "fork"
    <2>1. /\ Tail(pc) \in Seq(Frame)
          /\ HeldOn(pc) = HeldOn(Tail(pc)) + IF Head(pc).at \in Holding THEN 1 ELSE 0
      BY <1>1, <1>2, TailStack
    <2>2. HeldOn(Tail(pc)) \in Nat
      BY <2>1, HeldOnType
    <2>3. Head(pc).at \notin Holding
      BY <1>1, <2>1, <2>2 DEF Held
    <2> QED
      BY <2>3 DEF Holding
  <1> QED
    BY <1>1, <1>2, PostedUnlessFork

\* Every step but those of the failing trap preserves the invariant.
LEMMA InvStep ==
    ASSUME IInv, [Next]_vars, "trap" \notin Rare
    PROVE  IInv'
  <1>1. TypeOK'
    BY TypeStep DEF IInv
  <1>2. /\ pc \in Seq(Frame) /\ StackOK(pc) /\ Counted /\ NoReapInRegion /\ ForkLocked
        /\ Held \in Nat /\ in_critical \in Nat
    BY HeldOnType, CounterAssumption DEF IInv, TypeOK, Held
  <1>3. ASSUME UNCHANGED <<pc, in_critical>>
        PROVE  StackOK(pc') /\ Counted' /\ Held' = Held
    BY <1>3, <1>2 DEF Counted, Held
  <1>4. CASE UNCHANGED vars
    BY <1>4, <1>1, <1>2, <1>3
    DEF vars, IInv, NoReapInRegion, ForkLocked
  <1>5. ASSUME NEW c \in Children, Exit(c)
        PROVE  IInv'
    <2>1. StackOK(pc') /\ Counted' /\ NoReapInRegion'
      BY <1>5, <1>2, <1>3 DEF Exit, NoReapInRegion
    <2>2. ForkLocked'
      BY <1>5, <1>2 DEF Exit, ForkLocked, IInv, TypeOK
    <2> QED
      BY <1>1, <2>1, <2>2 DEF IInv
  <1>6. CASE Deliver
    <2>1. StackOK(pc') /\ Counted' /\ NoReapInRegion'
      BY <1>6, <1>2, <1>3 DEF Deliver, NoReapInRegion
    <2>2. ForkLocked'
      BY <1>6, <1>2 DEF Deliver, ForkLocked
    <2> QED
      BY <1>1, <2>1, <2>2 DEF IInv
  <1>7. CASE Waitsafe
    <2>1. StackOK(pc') /\ Counted' /\ Held' = Held
      BY <1>7, <1>2, <1>3 DEF Waitsafe
    <2>2. NoReapInRegion'
      BY <1>7, <1>2, <2>1 DEF Waitsafe, NoReapInRegion, Counted
    <2>3. ForkLocked'
      BY <1>7, <1>2 DEF Waitsafe, kernel, ForkLocked
    <2> QED
      BY <1>1, <2>1, <2>2, <2>3 DEF IInv
  <1>8. ASSUME NEW c \in Children, Collect(c), AllPosted
        PROVE  IInv'
    <2>1. StackOK(pc') /\ Counted' /\ NoReapInRegion'
      BY <1>8, <1>2, <1>3 DEF Collect, NoReapInRegion
    <2>2. AllPosted'
      BY <1>8 DEF Collect, AllPosted, Posted, Zombies, IInv, TypeOK
    <2> QED
      BY <1>1, <2>1, <2>2, AllPostedForkLocked DEF IInv
  <1>9. handler = "reap" => AllPosted
    BY HandlerPosted
  <1>10. CASE HandlerReturn
    <2>1. StackOK(pc') /\ Counted' /\ NoReapInRegion'
      BY <1>10, <1>2, <1>3 DEF HandlerReturn, NoReapInRegion
    <2>2. ForkLocked'
      BY <1>10, <1>2 DEF HandlerReturn, kernel, ForkLocked
    <2> QED
      BY <1>1, <2>1, <2>2 DEF IInv
  <1>11. ASSUME AllPosted, UNCHANGED <<child, entry>>
         PROVE  ForkLocked'
    BY <1>11 DEF AllPosted, ForkLocked, Posted
  <1>12. ASSUME handler = "off", UNCHANGED handler
         PROVE  NoReapInRegion'
    BY <1>12 DEF NoReapInRegion
  <1>13. ASSUME Idle \/ Top(Points \ {"fork"})
         PROVE  AllPosted /\ handler = "off"
    BY <1>13, <1>2, PostedUnlessFork DEF Idle, Top
  <1>14. CASE Lock \/ PipeBegin \/ ForkBegin
    <2>1. /\ Held + 1 < MaxHeld /\ UNCHANGED <<child, entry, handler>>
          /\ \E p \in Holding : Enter(p, FALSE)
      BY <1>14 DEF Lock, PipeBegin, ForkBegin, kernel, Holding
    <2>2. AllPosted /\ handler = "off"
      BY <1>14, <1>13
      DEF Lock, PipeBegin, ForkBegin, AtFork, AtCommand, Top, Idle, Points, Holding
    <2>3. Held < MaxHeld
      BY <2>1, <1>2, MaxHeldAssumption
    <2> QED
      BY <2>1, <2>2, <2>3, <1>1, <1>11, <1>12, EnterStep DEF IInv
  <1>15. CASE ForkRetry
    <2>0. Held + 1 < MaxHeld /\ Enter("region", FALSE) /\ UNCHANGED <<child, entry, handler>>
      BY <1>15 DEF ForkRetry, kernel
    <2>1. Held < MaxHeld
      BY <2>0, <1>2, MaxHeldAssumption
    <2>2. AllPosted /\ handler = "off"
      BY <1>15 DEF ForkRetry, Top
    <2>3. StackOK(pc') /\ Counted'
      BY <2>0, <2>1, EnterStep DEF Holding
    <2> QED
      BY <2>0, <2>2, <2>3, <1>1, <1>11, <1>12 DEF IInv
  <1>16. CASE ChkTrap
    <2>1. AllPosted /\ handler = "off" /\ UNCHANGED <<child, entry, handler>>
      BY <1>16, <1>13
      DEF ChkTrap, AtFork, AtCommand, Top, Idle, Points, Holding, kernel
    <2>2. StackOK(pc') /\ Counted'
      <3>1. CASE sigtrap
        BY <3>1, <1>16, EnterStep DEF ChkTrap, Holding
      <3>2. CASE ~sigtrap
        BY <3>2, <1>16, <1>3 DEF ChkTrap
      <3> QED
        BY <3>1, <3>2
    <2> QED
      BY <2>1, <2>2, <1>1, <1>11, <1>12 DEF IInv
  <1>17. CASE Unlock \/ ForkEnd \/ TrapEnd
    <2>1. /\ pc # <<>> /\ Head(pc).at \in Holding /\ Leave
          /\ handler = "off" /\ UNCHANGED <<child, entry, handler, in_critical>>
      BY <1>17 DEF Unlock, ForkEnd, TrapEnd, Top, Holding, kernel
    <2>2. AllPosted
      BY <1>17, <1>13 DEF Unlock, ForkEnd, TrapEnd, Top, Points, Holding
    <2>3. StackOK(pc') /\ Counted'
      BY <2>1, LeaveStep
    <2> QED
      BY <2>1, <2>2, <2>3, <1>1, <1>11, <1>12 DEF IInv
  <1>18. CASE UnlockDec
    <2>1. /\ pc # <<>> /\ Head(pc).at \in {"unlock", "exit"} /\ handler = "off"
          /\ in_critical' = (in_critical - 1) % CounterMod /\ pc' = Tail(pc)
          /\ UNCHANGED <<child, entry, handler>>
      BY <1>18 DEF UnlockDec, Top, kernel
    <2>2. Head(pc).at = "unlock"
      <3>1. Len(pc) \in Nat /\ 1 \in 1 .. Len(pc) /\ Head(pc) = pc[1]
        BY <2>1, <1>2
      <3> QED
        BY <3>1, <2>1, <1>2 DEF StackOK
    <2>3. AllPosted
      BY <2>2, <1>2, PostedUnlessFork
    <2>4. /\ StackOK(pc') /\ HeldOn(pc) = HeldOn(pc') + 1 /\ pc' \in Seq(Frame)
      BY <2>1, <2>2, <1>2, TailStack DEF Holding
    <2>5. HeldOn(pc') \in Nat /\ Held = HeldOn(pc') + 1 /\ Held' = HeldOn(pc')
      BY <2>4, HeldOnType DEF Held
    <2>6. in_critical - 1 \in 0 .. CounterMod - 1
      BY <2>5, <1>2, CounterAssumption DEF Counted, IInv, TypeOK
    <2>7. in_critical' = in_critical - 1
      BY <2>1, <2>6, <1>2, CounterAssumption
    <2>8. Counted'
      BY <2>5, <2>7, <1>2, MaxHeldAssumption DEF Counted
    <2> QED
      BY <2>1, <2>3, <2>4, <2>8, <1>1, <1>11, <1>12 DEF IInv
  <1>19. ASSUME NEW c \in Children, Fork(c)
         PROVE  IInv'
    <2>1. StackOK(pc') /\ Counted' /\ NoReapInRegion'
      BY <1>19, <1>2, <1>3, <1>12 DEF Fork, Top
    <2>2. ForkLocked'
      BY <1>19 DEF Fork, Top, ForkLocked, AllPosted, Posted, IInv, TypeOK
    <2> QED
      BY <1>1, <2>1, <2>2 DEF IInv
  <1>20. ASSUME NEW c \in Children, Post(c)
         PROVE  IInv'
    <2>1. StackOK(pc') /\ Counted' /\ NoReapInRegion'
      BY <1>20, <1>2, <1>3, <1>12 DEF Post, Top
    <2>2. ForkLocked'
      BY <1>20, <1>2 DEF Post, kernel, ForkLocked, IInv, TypeOK
    <2> QED
      BY <1>1, <2>1, <2>2 DEF IInv
  <1>21. CASE ReapCall
    <2>1. AllPosted /\ handler = "off" /\ UNCHANGED <<child, entry, handler, in_critical>>
      BY <1>21, <1>13 DEF ReapCall, Top, Points, Holding, kernel
    <2> DEFINE p == IF savesig THEN "reap" ELSE "block"
    <2>2. p \in Points /\ p \notin Holding /\ p # "exit" /\ FALSE \in BOOLEAN
      BY DEF Points, Holding
    <2>3. pc' = Call(p, FALSE, pc)
      BY <1>21 DEF ReapCall
    <2> HIDE DEF p
    <2>4. StackOK(pc') /\ HeldOn(pc') = HeldOn(pc) + 0
      BY <2>2, <2>3, <1>2, CallStack
    <2>5. Counted'
      BY <2>1, <2>4, <1>2 DEF Counted, Held
    <2> QED
      BY <2>1, <2>4, <2>5, <1>1, <1>11, <1>12 DEF IInv
  <1>22. ASSUME NEW c \in Children, ReapTrap(c)
         PROVE  IInv'
    <2>1. /\ pc # <<>> /\ Head(pc).at \in {"reap0", "block"} /\ handler = "off"
          /\ UNCHANGED handler /\ Held < MaxHeld
          /\ in_critical' = (in_critical + 1) % CounterMod
          /\ pc' = Call("trap", trapnote, Call("reap0", FALSE, Tail(pc)))
      BY <1>22 DEF ReapTrap, Top
    <2>2. AllPosted
      BY <2>1, <1>2, PostedUnlessFork
    <2>3. AllPosted'
      BY <1>22, <2>2 DEF ReapTrap, AllPosted, Posted, Zombies, IInv, TypeOK
    <2>4. /\ Tail(pc) \in Seq(Frame) /\ StackOK(Tail(pc)) /\ HeldOn(pc) = HeldOn(Tail(pc)) + 0
      BY <2>1, <1>2, TailStack DEF Holding
    <2> DEFINE t == Call("reap0", FALSE, Tail(pc))
    <2>5. "reap0" \in Points /\ "reap0" \notin Holding /\ "reap0" # "exit" /\ FALSE \in BOOLEAN
      BY DEF Points, Holding
    <2>6. t \in Seq(Frame) /\ StackOK(t) /\ HeldOn(t) = HeldOn(Tail(pc)) + 0
      BY <2>4, <2>5, CallStack
    <2> HIDE DEF t
    <2>7. "trap" \in Points /\ "trap" \in Holding /\ "trap" # "exit" /\ trapnote \in BOOLEAN
      BY DEF Points, Holding, IInv, TypeOK
    <2>8. StackOK(pc') /\ HeldOn(pc') = HeldOn(t) + 1
      BY <2>1, <2>6, <2>7, CallStack DEF t
    <2>9. HeldOn(Tail(pc)) \in Nat /\ Held' = Held + 1
      BY <2>4, <2>6, <2>8, HeldOnType DEF Held
    <2>10. in_critical + 1 \in 0 .. CounterMod - 1
      BY <2>1, <1>2, MaxHeldAssumption, CounterAssumption DEF Counted
    <2>11. in_critical' = in_critical + 1
      BY <2>1, <2>10, <1>2, CounterAssumption
    <2>12. Counted'
      BY <2>1, <2>9, <2>11, <1>2, MaxHeldAssumption DEF Counted
    <2> QED
      BY <2>1, <2>3, <2>8, <2>12, <1>1, <1>12, AllPostedForkLocked DEF IInv
  <1>23. CASE ReapReturn
    <2>1. /\ pc # <<>> /\ Head(pc).at \in {"reap", "reap0", "block"} /\ handler = "off"
          /\ pc' = Tail(pc) /\ UNCHANGED <<child, entry, handler, in_critical>>
      BY <1>23 DEF ReapReturn, Top, kernel
    <2>2. AllPosted
      BY <2>1, <1>2, PostedUnlessFork
    <2>3. /\ pc' \in Seq(Frame) /\ StackOK(pc') /\ HeldOn(pc) = HeldOn(pc') + 0
      BY <2>1, <1>2, TailStack DEF Holding
    <2>4. Held' = Held
      BY <2>3, HeldOnType DEF Held
    <2> QED
      BY <2>1, <2>2, <2>3, <2>4, <1>1, <1>2, <1>11, <1>12 DEF IInv, Counted
  <1>24. ASSUME NEW c \in Children, TrapRun(c)
         PROVE  IInv'
    <2>1. StackOK(pc') /\ Counted' /\ NoReapInRegion'
      BY <1>24, <1>2, <1>3, <1>12 DEF TrapRun, Top
    <2>2. AllPosted
      BY <1>24, <1>2, PostedUnlessFork DEF TrapRun, Top
    <2>3. AllPosted'
      BY <1>24, <2>2 DEF TrapRun, kernel, AllPosted, Posted, IInv, TypeOK
    <2> QED
      BY <1>1, <2>1, <2>3, AllPostedForkLocked DEF IInv
  <1>25. CASE ShExit
    <2>1. AllPosted
      BY <1>25, <1>13 DEF ShExit, Top, Points, Holding
    <2>2. /\ StackOK(pc') /\ Counted' /\ handler = "off"
          /\ UNCHANGED <<child, entry, handler>>
      BY <1>25, JumpStep DEF ShExit, Top, kernel
    <2> QED
      BY <2>1, <2>2, <1>1, <1>11, <1>12 DEF IInv
  <1>26. ASSUME NEW lost \in SUBSET Children, ReapExit(lost)
         PROVE  IInv'
    <2>1. AllPosted
      BY <1>26, <1>2, PostedUnlessFork DEF ReapExit, Top
    <2>2. StackOK(pc') /\ Counted' /\ handler = "off" /\ UNCHANGED handler
      BY <1>26, JumpStep DEF ReapExit, Top
    <2>3. AllPosted'
      BY <1>26, <2>1 DEF ReapExit, Lost, Zombies, AllPosted, Posted
    <2> QED
      BY <2>2, <2>3, <1>1, <1>12, AllPostedForkLocked DEF IInv
  <1>27. ASSUME NEW lost \in SUBSET Children, HandlerExit(lost)
         PROVE  IInv'
    <2>1. AllPosted /\ Held = 0
      BY <1>27, <1>2, <1>9 DEF HandlerExit, NoReapInRegion
    <2>2. pc' \in Seq(Frame) /\ StackOK(pc') /\ HeldOn(pc') <= Held
      BY <1>27, <1>2, LandingStack DEF HandlerExit, Held
    <2>3. Held' = Held /\ UNCHANGED in_critical
      BY <1>27, <2>1, <2>2, HeldOnType DEF Held, HandlerExit
    <2>4. Counted' /\ NoReapInRegion'
      BY <2>3, <1>2, <1>27 DEF Counted, NoReapInRegion, HandlerExit
    <2>5. AllPosted'
      BY <1>27, <2>1 DEF HandlerExit, Lost, Zombies, AllPosted, Posted
    <2> QED
      BY <2>2, <2>4, <2>5, <1>1, AllPostedForkLocked DEF IInv
  <1>28. CASE Handler
    BY <1>28, <1>6, <1>7, <1>8, <1>9, <1>10, <1>27 DEF Handler, HandlerReap
  <1>29. ASSUME NEW c \in Children, ReapNote(c)
         PROVE  IInv'
    BY <1>29, <1>2, <1>8, PostedUnlessFork DEF ReapNote, Top
  <1>30. CASE Main
    BY <1>30, <1>14, <1>15, <1>16, <1>17, <1>18, <1>19, <1>20, <1>21, <1>22, <1>23,
       <1>24, <1>25, <1>26, <1>29 DEF Main
  <1> QED
    BY <1>4, <1>5, <1>28, <1>30 DEF Next

\* The inductive invariant holds initially.
LEMMA InvInit ==
    ASSUME Init
    PROVE  IInv
  <1>1. TypeOK
    BY InitType
  <1>2. Held = 0 /\ StackOK(pc)
    BY DEF Init, Held, HeldOn, StackOK
  <1> QED
    BY <1>1, <1>2, MaxHeldAssumption
    DEF Init, IInv, Counted, NoReapInRegion, ForkLocked

\* The inductive invariant is one.
LEMMA Invariance ==
    ASSUME "trap" \notin Rare
    PROVE  Spec => []IInv
  <1>1. Init => IInv
    BY InvInit
  <1>2. IInv /\ [Next]_vars => IInv'
    BY InvStep
  <1> QED
    BY <1>1, <1>2, PTL DEF Spec

\* The handler never runs job_reap() on a table that the interrupted code is
\* changing, whatever is interrupted or fails outside of a CHLD trap.
THEOREM MutualExclusion ==
    ASSUME "trap" \notin Rare
    PROVE  Spec => []NoReapInRegion
  <1>1. IInv => NoReapInRegion
    BY DEF IInv
  <1> QED
    BY <1>1, Invariance, PTL

\* The lock counter never falls below the number of open regions, and equals
\* it when no error exit leaves several regions at once.
THEOREM LockCount ==
    ASSUME "trap" \notin Rare
    PROVE  Spec => [](NeverUndercounted /\ ("nested" \notin Rare => Balanced))
  <1>1. IInv => NeverUndercounted /\ ("nested" \notin Rare => Balanced)
    <2>1. ASSUME IInv
          PROVE  NeverUndercounted /\ ("nested" \notin Rare => Balanced)
      <3>1. Held \in Nat /\ in_critical \in Nat
        BY <2>1, HeldOnType, CounterAssumption DEF IInv, TypeOK, Held
      <3> QED
        BY <2>1, <3>1 DEF IInv, Counted, NeverUndercounted, Balanced
    <2> QED
      BY <2>1
  <1> QED
    BY <1>1, Invariance, PTL

\* No child is reaped between fork() and job_post().
THEOREM ReapAfterPost ==
    ASSUME "trap" \notin Rare
    PROVE  Spec => []ReapedIsPosted
  <1>1. IInv => ReapedIsPosted
    BY DEF IInv, ForkLocked, ReapedIsPosted, Posted
  <1> QED
    BY <1>1, Invariance, PTL
----------------------------------------------------------------------------
(* No child that has ended is forgotten.                                   *)

\* The waitpid() loops of job_reap().
Loops == {"reap", "reap0", "block"}

\* The code is at one of the points A, at some depth of the stack s.
Inside(s, A) == \E i \in 1 .. Len(s) : s[i].at \in A

\* What may lie above a frame: nothing above a first waitpid() loop, above
\* the loop that goes on only the trap it runs or that trap's job_unlock(),
\* and above the decrement of a job_unlock() only the job_reap() it calls.
Above(s) ==
    \A i \in 2 .. Len(s) :
        /\ s[i].at \notin {"reap", "block"}
        /\ s[i].at = "reap0" => s[i - 1].at \in {"trap", "unlock"}
        /\ s[i].at = "unlock" => s[i - 1].at = "reap"

\* The three parts of NothingForgotten.
Noticed ==
    Zombies # {} => sigpend \/ handler # "off" \/ savesig \/ Inside(pc, Loops)
Recorded ==
    \A c \in Children : child[c] = "gone" => entry[c] \in {"done", "trapped"}
Due ==
    Todo # {} => (sigtrap /\ trapnote) \/ Inside(pc, {"trap"})

\* The invariant: a noted CHLD trap also makes the next sh_chktrap() look.
Remembered ==
    /\ Above(pc)
    /\ sigtrap => trapnote
    /\ Noticed /\ Recorded /\ Due

\* A step of the stack that loses neither a running trap nor what will look
\* for zombies.
Carried ==
    /\ Above(pc')
    /\ Inside(pc, {"trap"}) => Inside(pc', {"trap"})
    /\ savesig \/ Inside(pc, Loops) => savesig' \/ Inside(pc', Loops)

\* Entering a point adds it to those the code is at.
LEMMA CallInside ==
    ASSUME NEW s \in Seq(Frame), NEW p \in Points, NEW n \in BOOLEAN, NEW A
    PROVE  Inside(Call(p, n, s), A) <=> p \in A \/ Inside(s, A)
  <1> DEFINE x == [at |-> p, held |-> HeldOn(s) + IF p \in Holding THEN 1 ELSE 0,
                   note |-> n]
             t == <<x>> \o s
  <1>1. x \in Frame
    <2>1. HeldOn(s) \in Nat
      BY HeldOnType
    <2> QED
      BY <2>1 DEF Frame
  <1>2. /\ Len(t) = Len(s) + 1 /\ t[1] = x
        /\ \A i \in 1 .. Len(s) : t[i + 1] = s[i]
        /\ \A i \in 2 .. Len(s) + 1 : t[i] = s[i - 1]
    BY <1>1, PushElements
  <1>3. Call(p, n, s) = t /\ x.at = p /\ Len(s) \in Nat
    BY DEF Call
  <1> HIDE DEF t, x
  <1>4. ASSUME Inside(t, A)
        PROVE  p \in A \/ Inside(s, A)
    <2>1. PICK i \in 1 .. Len(t) : t[i].at \in A
      BY <1>4 DEF Inside
    <2>2. CASE i = 1
      BY <2>1, <2>2, <1>2, <1>3
    <2>3. CASE i # 1
      <3>1. i - 1 \in 1 .. Len(s) /\ t[i] = s[i - 1]
        BY <2>3, <1>2, <1>3
      <3> QED
        BY <3>1, <2>1 DEF Inside
    <2> QED
      BY <2>2, <2>3
  <1>5. ASSUME p \in A
        PROVE  Inside(t, A)
    <2>1. 1 \in 1 .. Len(t) /\ t[1].at \in A
      BY <1>5, <1>2, <1>3
    <2> QED
      BY <2>1 DEF Inside
  <1>6. ASSUME Inside(s, A)
        PROVE  Inside(t, A)
    <2>1. PICK i \in 1 .. Len(s) : s[i].at \in A
      BY <1>6 DEF Inside
    <2>2. i + 1 \in 1 .. Len(t) /\ t[i + 1] = s[i]
      BY <1>2, <1>3
    <2> QED
      BY <2>1, <2>2 DEF Inside
  <1> QED
    BY <1>3, <1>4, <1>5, <1>6

\* A point may be entered above a stack that allows it.
LEMMA CallAbove ==
    ASSUME NEW s \in Seq(Frame), NEW p \in Points, NEW n \in BOOLEAN, Above(s),
           s # <<>> => /\ Head(s).at \notin {"reap", "block"}
                       /\ Head(s).at = "reap0" => p \in {"trap", "unlock"}
                       /\ Head(s).at = "unlock" => p = "reap"
    PROVE  Above(Call(p, n, s))
  <1> DEFINE x == [at |-> p, held |-> HeldOn(s) + IF p \in Holding THEN 1 ELSE 0,
                   note |-> n]
             t == <<x>> \o s
  <1>1. x \in Frame
    <2>1. HeldOn(s) \in Nat
      BY HeldOnType
    <2> QED
      BY <2>1 DEF Frame
  <1>2. /\ Len(t) = Len(s) + 1 /\ t[1] = x
        /\ \A i \in 1 .. Len(s) : t[i + 1] = s[i]
        /\ \A i \in 2 .. Len(s) + 1 : t[i] = s[i - 1]
    BY <1>1, PushElements
  <1>3. Call(p, n, s) = t /\ x.at = p /\ Len(s) \in Nat
    BY DEF Call
  <1> HIDE DEF t, x
  <1>4. ASSUME NEW i \in 2 .. Len(t)
        PROVE  /\ t[i].at \notin {"reap", "block"}
               /\ t[i].at = "reap0" => t[i - 1].at \in {"trap", "unlock"}
               /\ t[i].at = "unlock" => t[i - 1].at = "reap"
    <2>1. CASE i = 2
      <3>1. s # <<>> /\ Head(s) = s[1] /\ t[i] = s[1] /\ t[i - 1] = x
        BY <2>1, <1>2, <1>3
      <3> QED
        BY <3>1, <1>3
    <2>2. CASE i # 2
      <3>1. /\ i - 1 \in 2 .. Len(s) /\ t[i] = s[i - 1]
            /\ t[i - 1] = s[(i - 1) - 1]
        BY <2>2, <1>2, <1>3
      <3> QED
        BY <3>1 DEF Above
    <2> QED
      BY <2>1, <2>2
  <1> QED
    BY <1>3, <1>4 DEF Above

\* Returning from the top frame leaves the points below it.
LEMMA TailInside ==
    ASSUME NEW s \in Seq(Frame), s # <<>>, NEW A
    PROVE  Inside(s, A) <=> Head(s).at \in A \/ Inside(Tail(s), A)
  <1> DEFINE t == Tail(s)
  <1>1. Len(s) \in Nat /\ Len(s) > 0
    OBVIOUS
  <1>2. /\ Len(t) = Len(s) - 1 /\ Head(s) = s[1]
        /\ \A i \in 1 .. Len(s) - 1 : t[i] = s[i + 1]
    BY <1>1
  <1> HIDE DEF t
  <1>3. ASSUME Inside(s, A)
        PROVE  s[1].at \in A \/ Inside(t, A)
    <2>1. PICK i \in 1 .. Len(s) : s[i].at \in A
      BY <1>3 DEF Inside
    <2>2. CASE i = 1
      BY <2>1, <2>2
    <2>3. CASE i # 1
      <3>1. i - 1 \in 1 .. Len(t) /\ t[i - 1] = s[i]
        BY <2>3, <1>1, <1>2
      <3> QED
        BY <3>1, <2>1 DEF Inside
    <2> QED
      BY <2>2, <2>3
  <1>4. ASSUME s[1].at \in A
        PROVE  Inside(s, A)
    <2>1. 1 \in 1 .. Len(s)
      BY <1>1
    <2> QED
      BY <2>1, <1>4 DEF Inside
  <1>5. ASSUME Inside(t, A)
        PROVE  Inside(s, A)
    <2>1. PICK i \in 1 .. Len(t) : t[i].at \in A
      BY <1>5 DEF Inside
    <2>2. i + 1 \in 1 .. Len(s) /\ t[i] = s[i + 1]
      BY <1>1, <1>2
    <2> QED
      BY <2>1, <2>2 DEF Inside
  <1> QED
    BY <1>2, <1>3, <1>4, <1>5 DEF t

\* ... in the same order, and the frame that gets to the top was allowed
\* where it was.
LEMMA TailAbove ==
    ASSUME NEW s \in Seq(Frame), s # <<>>, Above(s)
    PROVE  /\ Above(Tail(s))
           /\ Tail(s) # <<>> =>
                LET a == Head(Tail(s)).at IN
                /\ a \notin {"reap", "block"}
                /\ a = "reap0" => Head(s).at \in {"trap", "unlock"}
                /\ a = "unlock" => Head(s).at = "reap"
  <1> DEFINE t == Tail(s)
  <1>1. Len(s) \in Nat /\ Len(s) > 0 /\ t \in Seq(Frame)
    OBVIOUS
  <1>2. /\ Len(t) = Len(s) - 1 /\ Head(s) = s[1]
        /\ \A i \in 1 .. Len(s) - 1 : t[i] = s[i + 1]
    BY <1>1
  <1> HIDE DEF t
  <1>3. ASSUME NEW i \in 2 .. Len(t)
        PROVE  /\ t[i].at \notin {"reap", "block"}
               /\ t[i].at = "reap0" => t[i - 1].at \in {"trap", "unlock"}
               /\ t[i].at = "unlock" => t[i - 1].at = "reap"
    <2>1. i + 1 \in 2 .. Len(s) /\ t[i] = s[i + 1] /\ t[i - 1] = s[(i + 1) - 1]
      BY <1>1, <1>2
    <2> QED
      BY <2>1 DEF Above
  <1>4. ASSUME t # <<>>
        PROVE  /\ Head(t).at \notin {"reap", "block"}
               /\ Head(t).at = "reap0" => Head(s).at \in {"trap", "unlock"}
               /\ Head(t).at = "unlock" => Head(s).at = "reap"
    <2>1. Len(t) > 0 /\ Head(t) = t[1]
      BY <1>1, <1>4
    <2>2. 2 \in 2 .. Len(s) /\ Head(t) = s[2] /\ s[1] = s[2 - 1]
      BY <2>1, <1>1, <1>2
    <2> QED
      BY <2>2, <1>2 DEF Above
  <1>5. Above(t)
    BY <1>3 DEF Above
  <1> QED
    BY <1>4, <1>5 DEF t

\* A longjmp lands at top level or in a trap; it leaves no trap, and from
\* code that is in no loop it leaves no loop either.
LEMMA LandingInside ==
    ASSUME NEW s \in Seq(Frame), NEW t \in Landings(s), Above(s)
    PROVE  /\ Above(t)
           /\ t # <<>> => Head(t).at = "trap"
           /\ Inside(s, {"trap"}) => Inside(t, {"trap"})
           /\ s # <<>> /\ Head(s).at \in {"region", "pipe", "fork"}
                /\ Inside(s, Loops) => Inside(t, Loops)
  <1>1. Len(s) \in Nat
    OBVIOUS
  <1>2. PICK k \in 0 .. Len(s) :
           /\ t = SubSeq(s, k + 1, Len(s))
           /\ k < Len(s) => s[k + 1].at = "trap"
           /\ \A j \in 1 .. k : s[j].at # "trap"
    BY DEF Landings
  <1>3. /\ t \in Seq(Frame) /\ Len(t) = Len(s) - k
        /\ \A i \in 1 .. Len(s) - k : t[i] = s[i + k]
    BY <1>1, <1>2
  <1>4. ASSUME NEW i \in 2 .. Len(t)
        PROVE  /\ t[i].at \notin {"reap", "block"}
               /\ t[i].at = "reap0" => t[i - 1].at \in {"trap", "unlock"}
               /\ t[i].at = "unlock" => t[i - 1].at = "reap"
    <2>1. i \in 1 .. Len(s) - k /\ i - 1 \in 1 .. Len(s) - k /\ i + k \in 2 .. Len(s)
      BY <1>1, <1>3
    <2>2. t[i] = s[i + k] /\ t[i - 1] = s[(i - 1) + k]
      BY <2>1, <1>3
    <2>3. t[i - 1] = s[(i + k) - 1]
      <3>1. (i - 1) + k = (i + k) - 1
        BY <1>1
      <3> QED
        BY <2>2, <3>1
    <2> QED
      BY <2>1, <2>2, <2>3 DEF Above
  <1>5. ASSUME t # <<>>
        PROVE  Head(t).at = "trap"
    <2>1. Len(t) > 0 /\ Head(t) = t[1] /\ k < Len(s) /\ t[1] = s[k + 1]
      BY <1>1, <1>3, <1>5
    <2> QED
      BY <2>1, <1>2
  <1>6. ASSUME NEW A, NEW i \in 1 .. Len(s), i > k, s[i].at \in A
        PROVE  Inside(t, A)
    <2>1. i - k \in 1 .. Len(t) /\ t[i - k] = s[i]
      BY <1>1, <1>3, <1>6
    <2> QED
      BY <2>1, <1>6 DEF Inside
  <1>7. ASSUME Inside(s, {"trap"})
        PROVE  Inside(t, {"trap"})
    <2>1. PICK i \in 1 .. Len(s) : s[i].at \in {"trap"}
      BY <1>7 DEF Inside
    <2>2. i > k
      BY <2>1, <1>1, <1>2
    <2> QED
      BY <2>1, <2>2, <1>6
  <1>8. ASSUME s # <<>>, Head(s).at \in {"region", "pipe", "fork"}, Inside(s, Loops)
        PROVE  Inside(t, Loops)
    <2>1. PICK i \in 1 .. Len(s) : s[i].at \in Loops
      BY <1>8 DEF Inside
    <2>2. Head(s) = s[1]
      BY <1>8
    <2>3. s[1].at \in {"region", "pipe", "fork"}
      BY <2>2, <1>8
    <2>4. i # 1
      BY <2>1, <2>3 DEF Loops
    <2>5. i \in 2 .. Len(s)
      BY <2>4, <1>1
    <2>6. s[i - 1].at \in {"trap", "unlock"}
      BY <2>1, <2>5 DEF Above, Loops
    <2>7. s[i - 1].at # "unlock"
      <3>1. SUFFICES ASSUME s[i - 1].at = "unlock"
                     PROVE  FALSE
        OBVIOUS
      <3>2. i - 1 # 1
        BY <3>1, <2>3
      <3>3. i - 1 \in 2 .. Len(s)
        BY <3>2, <2>5, <1>1
      <3>4. s[(i - 1) - 1].at = "reap"
        BY <3>1, <3>3 DEF Above
      <3>5. (i - 1) - 1 # 1
        BY <3>4, <2>3
      <3>6. (i - 1) - 1 \in 2 .. Len(s)
        BY <3>3, <3>5, <1>1
      <3> QED
        BY <3>4, <3>6 DEF Above
    <2>8. i - 1 > k
      <3>1. i - 1 \in 1 .. Len(s)
        BY <2>5, <1>1
      <3> QED
        BY <3>1, <2>6, <2>7, <1>1, <1>2
    <2>9. i > k
      BY <2>5, <2>8
    <2> QED
      BY <2>1, <2>9, <1>6
  <1>9. Above(t)
    BY <1>4 DEF Above
  <1> QED
    BY <1>5, <1>7, <1>8, <1>9

\* A step that leaves the stack alone.
LEMMA SameCarried ==
    ASSUME Above(pc), UNCHANGED <<pc, savesig>>
    PROVE  Carried
  BY DEF Carried

\* The shell's own code calls from no waitpid() loop and no job_unlock().
LEMMA EnterCarried ==
    ASSUME pc \in Seq(Frame), Above(pc), UNCHANGED savesig,
           NEW p \in Points, NEW n \in BOOLEAN, pc' = Call(p, n, pc),
           pc # <<>> => Head(pc).at \in {"region", "pipe", "fork", "trap"}
    PROVE  Carried /\ Inside(pc', {p})
  <1>1. Above(pc')
    BY CallAbove
  <1>2. \A A : Inside(pc', A) <=> p \in A \/ Inside(pc, A)
    BY CallInside
  <1> QED
    BY <1>1, <1>2 DEF Carried

\* The test of job_unlock() reaps if it forgets the deferred signal.
LEMMA UnlockTestCarried ==
    ASSUME NEW after \in Seq(Frame), Above(after), UnlockTest(after),
           after # <<>>, Head(after).at \in {"unlock", "exit"}
    PROVE  /\ Above(pc')
           /\ Inside(after, {"trap"}) => Inside(pc', {"trap"})
           /\ savesig \/ Inside(after, Loops) => savesig' \/ Inside(pc', Loops)
  <1>1. CASE pc' = after /\ UNCHANGED savesig
    BY <1>1
  <1>2. CASE pc' = Call("reap", FALSE, after)
    <2>1. "reap" \in Points /\ "reap" \in Loops
      BY DEF Points, Loops
    <2>2. Above(pc')
      BY <1>2, <2>1, CallAbove
    <2>3. \A A : Inside(pc', A) <=> "reap" \in A \/ Inside(after, A)
      BY <1>2, <2>1, CallInside
    <2> QED
      BY <2>1, <2>2, <2>3
  <1> QED
    BY <1>1, <1>2 DEF UnlockTest

\* Leaving a region, up to the decrement.  Only from the end of a job_chldtrap()
\* may a waitpid() loop be what the code returns to.
LEMMA LeaveCarried ==
    ASSUME pc \in Seq(Frame), Above(pc), Leave, pc # <<>>,
           Head(pc).at \in {"region", "pipe", "fork", "trap"}
    PROVE  /\ Above(pc')
           /\ Head(pc).at # "trap" /\ Inside(pc, {"trap"}) => Inside(pc', {"trap"})
           /\ savesig \/ Inside(pc, Loops) => savesig' \/ Inside(pc', Loops)
  <1> DEFINE t == Tail(pc)
             after == Call("unlock", FALSE, t)
  <1>1. "unlock" \in Points /\ "unlock" \notin Loops
    BY DEF Points, Holding, Loops
  <1>2. t \in Seq(Frame)
    BY TailStack
  <1>3. /\ Above(t)
        /\ t # <<>> => /\ Head(t).at \notin {"reap", "block"}
                       /\ Head(t).at = "unlock" => Head(pc).at = "reap"
    BY TailAbove
  <1>4. \A A : Inside(pc, A) <=> Head(pc).at \in A \/ Inside(t, A)
    BY TailInside
  <1> HIDE DEF t
  <1>5. Above(after)
    BY <1>1, <1>2, <1>3, CallAbove
  <1>6. /\ after \in Seq(Frame) /\ after # <<>> /\ Head(after).at = "unlock"
    BY <1>1, <1>2, CallStack
  <1>7. \A A : Inside(after, A) <=> "unlock" \in A \/ Inside(t, A)
    BY <1>1, <1>2, CallInside
  <1>8. UnlockTest(after)
    BY DEF Leave, t
  <1> HIDE DEF after
  <1>9. /\ Above(pc')
        /\ Inside(after, {"trap"}) => Inside(pc', {"trap"})
        /\ savesig \/ Inside(after, Loops) => savesig' \/ Inside(pc', Loops)
    BY <1>5, <1>6, <1>8, UnlockTestCarried
  <1>10. Head(pc).at \notin Loops
    BY DEF Loops
  <1> QED
    BY <1>4, <1>7, <1>9, <1>10

\* The jump of sh_exit() out of a region.
LEMMA JumpCarried ==
    ASSUME pc \in Seq(Frame), Above(pc), pc # <<>>,
           Head(pc).at \in {"region", "pipe", "fork"},
           NEW landing \in Landings(pc), Jump(landing)
    PROVE  Carried
  <1>1. landing \in Seq(Frame)
    BY LandingStack
  <1>2. /\ Above(landing)
        /\ landing # <<>> => Head(landing).at = "trap"
        /\ Inside(pc, {"trap"}) => Inside(landing, {"trap"})
        /\ Inside(pc, Loops) => Inside(landing, Loops)
    BY LandingInside
  <1>3. CASE in_critical > 0
    <2> DEFINE p == IF HeldOn(landing) = Held THEN "exit" ELSE "unlock"
               after == Call(p, FALSE, landing)
    <2>1. p \in Points /\ p \in {"unlock", "exit"}
      BY DEF Points, Holding
    <2>2. UnlockTest(after)
      BY <1>3 DEF Jump
    <2> HIDE DEF p
    <2>3. Above(after)
      BY <1>1, <1>2, <2>1, CallAbove
    <2>4. after \in Seq(Frame) /\ after # <<>> /\ Head(after).at = p
      BY <1>1, <2>1, CallStack
    <2>5. \A A : Inside(after, A) <=> p \in A \/ Inside(landing, A)
      BY <1>1, <2>1, CallInside
    <2> HIDE DEF after
    <2>6. /\ Above(pc')
          /\ Inside(after, {"trap"}) => Inside(pc', {"trap"})
          /\ savesig \/ Inside(after, Loops) => savesig' \/ Inside(pc', Loops)
      BY <2>1, <2>2, <2>3, <2>4, UnlockTestCarried
    <2> QED
      BY <1>2, <2>5, <2>6 DEF Carried
  <1>4. CASE ~(in_critical > 0)
    <2>1. pc' = landing /\ UNCHANGED savesig
      BY <1>4 DEF Jump
    <2> QED
      BY <1>2, <2>1 DEF Carried
  <1> QED
    BY <1>3, <1>4

\* Nothing is forgotten by a step that moves only the stack.
LEMMA CarriedStep ==
    ASSUME Remembered, Carried, handler = "off",
           UNCHANGED <<child, entry, sigpend, handler, sigtrap, trapnote>>
    PROVE  Remembered'
  <1>1. Zombies' = Zombies /\ Todo' = Todo
    BY DEF Zombies, Todo
  <1>2. Noticed'
    BY <1>1 DEF Remembered, Noticed, Carried
  <1>3. Due'
    BY <1>1 DEF Remembered, Due, Carried
  <1>4. Recorded'
    BY DEF Remembered, Recorded
  <1> QED
    BY <1>2, <1>3, <1>4 DEF Remembered, Carried

\* One round of a waitpid(WNOHANG) loop, while every child is posted.
LEMMA CollectRemembered ==
    ASSUME TypeOK, Remembered, AllPosted, NEW c \in Children, Collect(c)
    PROVE  Remembered'
  <1>1. c \in Posted /\ child[c] = "zombie"
    BY DEF Collect, Zombies, AllPosted
  <1>2. /\ child' = [child EXCEPT ![c] = "gone"]
        /\ entry' = [entry EXCEPT ![c] = "done"]
        /\ sigtrap' = TRUE /\ trapnote' = TRUE
        /\ UNCHANGED <<sigpend, handler, savesig, pc>>
    BY <1>1 DEF Collect
  <1>3. child \in [Children -> {"unborn", "run", "zombie", "gone"}]
        /\ entry \in [Children -> {"none", "bg", "done", "trapped"}]
    BY DEF TypeOK
  <1>4. Zombies' \subseteq Zombies
    BY <1>2, <1>3 DEF Zombies
  <1>5. Noticed'
    BY <1>2, <1>4 DEF Remembered, Noticed
  <1>6. Recorded'
    BY <1>2, <1>3 DEF Remembered, Recorded
  <1>7. Due'
    BY <1>2 DEF Due
  <1> QED
    BY <1>2, <1>5, <1>6, <1>7 DEF Remembered

\* The longjmp of a command that a trap runs lands in that trap.
LEMMA LandingOfTrap ==
    ASSUME NEW s \in Seq(Frame), s # <<>>, Head(s).at = "trap", NEW t \in Landings(s)
    PROVE  t = s
  <1>1. PICK k \in 0 .. Len(s) :
           /\ t = SubSeq(s, k + 1, Len(s))
           /\ \A j \in 1 .. k : s[j].at # "trap"
    BY DEF Landings
  <1>2. Len(s) \in Nat /\ s[1].at = "trap"
    OBVIOUS
  <1>3. k = 0
    BY <1>1, <1>2
  <1>4. t = SubSeq(s, 1, Len(s))
    BY <1>1, <1>3
  <1> QED
    BY <1>4

\* Every step but those of the failing trap and of another signal's interrupt
\* remembers each child that has ended.
LEMMA RememberedStep ==
    ASSUME IInv, Remembered, [Next]_vars, "trap" \notin Rare, "sigset" \notin Rare
    PROVE  Remembered'
  <1>1. /\ pc \in Seq(Frame) /\ StackOK(pc) /\ TypeOK
        /\ Held \in Nat /\ in_critical \in Nat /\ Held <= in_critical
    BY HeldOnType, CounterAssumption DEF IInv, Counted, TypeOK, Held
  <1>2. /\ child \in [Children -> {"unborn", "run", "zombie", "gone"}]
        /\ entry \in [Children -> {"none", "bg", "done", "trapped"}]
        /\ savesig \in BOOLEAN /\ trapnote \in BOOLEAN /\ sigtrap \in BOOLEAN
    BY <1>1 DEF TypeOK
  <1>3. /\ Above(pc) /\ (sigtrap => trapnote) /\ Noticed /\ Recorded /\ Due
    BY DEF Remembered
  <1>4. CASE UNCHANGED vars
    BY <1>4, <1>3 DEF vars, Remembered, Noticed, Recorded, Due, Zombies, Todo
  <1>5. ASSUME NEW c \in Children, Exit(c)
        PROVE  Remembered'
    <2>1. /\ child[c] = "run" /\ child' = [child EXCEPT ![c] = "zombie"] /\ sigpend'
          /\ UNCHANGED <<entry, pc, sigtrap, trapnote>>
      BY <1>5 DEF Exit, sigs
    <2>2. Noticed'
      BY <2>1 DEF Noticed
    <2>3. Recorded'
      BY <2>1, <1>2, <1>3 DEF Recorded
    <2>4. Due'
      BY <2>1, <1>3 DEF Due, Todo
    <2> QED
      BY <2>1, <2>2, <2>3, <2>4, <1>3 DEF Remembered
  <1>6. CASE Deliver
    <2>1. handler' = "entry" /\ UNCHANGED <<child, entry, pc, sigtrap, trapnote>>
      BY <1>6 DEF Deliver, sigs
    <2>2. Noticed'
      BY <2>1 DEF Noticed
    <2> QED
      BY <2>1, <2>2, <1>3 DEF Remembered, Recorded, Due, Todo
  <1>7. CASE Waitsafe
    <2>1. /\ handler' = "reap" \/ savesig' = TRUE
          /\ UNCHANGED <<child, entry, pc, sigtrap, trapnote>>
      BY <1>7 DEF Waitsafe, kernel
    <2>2. Noticed'
      BY <2>1 DEF Noticed
    <2> QED
      BY <2>1, <2>2, <1>3 DEF Remembered, Recorded, Due, Todo
  <1>8. CASE HandlerReturn
    <2>1. Zombies = {} /\ UNCHANGED <<child, entry, pc, sigtrap, trapnote>>
      BY <1>8 DEF HandlerReturn, kernel, sigs
    <2>2. Noticed'
      BY <2>1 DEF Noticed, Zombies
    <2> QED
      BY <2>1, <2>2, <1>3 DEF Remembered, Recorded, Due, Todo
  <1>9. ASSUME NEW c \in Children, HandlerReap(c)
        PROVE  Remembered'
    BY <1>9, <1>1, HandlerPosted, CollectRemembered DEF HandlerReap
  <1>10. ASSUME NEW c \in Children, ReapNote(c)
         PROVE  Remembered'
    <2>1. AllPosted
      BY <1>10, PostedUnlessFork DEF ReapNote, Top, IInv
    <2> QED
      BY <1>10, <2>1, <1>1, CollectRemembered DEF ReapNote
  <1>11. CASE Lock \/ PipeBegin \/ ForkBegin \/ ForkRetry
    <2>1. /\ handler = "off"
          /\ UNCHANGED <<child, entry, sigpend, handler, sigtrap, trapnote, savesig>>
          /\ pc # <<>> => Head(pc).at \in {"region", "pipe", "fork", "trap"}
      BY <1>11
      DEF Lock, PipeBegin, ForkBegin, ForkRetry, AtFork, AtCommand, Top, Idle, kernel, sigs
    <2>2. \E p \in {"region", "pipe", "fork"} : pc' = Call(p, FALSE, pc)
      BY <1>11 DEF Lock, PipeBegin, ForkBegin, ForkRetry, Enter
    <2>3. PICK p \in {"region", "pipe", "fork"} : pc' = Call(p, FALSE, pc)
      BY <2>2
    <2>4. p \in Points
      BY DEF Points, Holding
    <2>5. Carried
      BY <2>1, <2>3, <2>4, <1>1, <1>3, EnterCarried
    <2> QED
      BY <2>1, <2>5, CarriedStep
  <1>12. CASE Unlock \/ ForkEnd
    <2>1. /\ handler = "off" /\ Leave
          /\ UNCHANGED <<child, entry, sigpend, handler, sigtrap, trapnote>>
          /\ pc # <<>> /\ Head(pc).at \in {"region", "pipe", "fork"}
      BY <1>12 DEF Unlock, ForkEnd, Top, kernel
    <2>2. Carried
      BY <2>1, <1>1, <1>3, LeaveCarried DEF Carried
    <2> QED
      BY <2>1, <2>2, CarriedStep
  <1>13. CASE UnlockDec
    <2>1. /\ handler = "off" /\ pc' = Tail(pc)
          /\ UNCHANGED <<child, entry, sigpend, handler, sigtrap, trapnote, savesig>>
          /\ pc # <<>> /\ Head(pc).at \in {"unlock", "exit"}
      BY <1>13 DEF UnlockDec, Top, kernel, sigs
    <2>2. Above(pc')
      BY <2>1, <1>1, <1>3, TailAbove
    <2>3. \A A : Inside(pc, A) <=> Head(pc).at \in A \/ Inside(pc', A)
      BY <2>1, <1>1, TailInside
    <2>4. Head(pc).at \notin Loops /\ Head(pc).at # "trap"
      BY <2>1 DEF Loops
    <2>5. Carried
      BY <2>1, <2>2, <2>3, <2>4 DEF Carried
    <2> QED
      BY <2>1, <2>5, CarriedStep
  <1>14. ASSUME NEW c \in Children, Fork(c)
         PROVE  Remembered'
    <2>1. /\ child[c] = "unborn" /\ child' = [child EXCEPT ![c] = "run"]
          /\ UNCHANGED <<sigpend, handler, savesig, sigtrap, trapnote, entry, pc>>
      BY <1>14 DEF Fork, sigs
    <2>2. Zombies' \subseteq Zombies
      BY <2>1, <1>2 DEF Zombies
    <2>3. Noticed'
      BY <2>1, <2>2, <1>3 DEF Noticed
    <2>4. Recorded'
      BY <2>1, <1>2, <1>3 DEF Recorded
    <2>5. Due'
      BY <2>1, <1>3 DEF Due, Todo
    <2> QED
      BY <2>1, <2>3, <2>4, <2>5, <1>3 DEF Remembered
  <1>15. ASSUME NEW c \in Children, Post(c)
         PROVE  Remembered'
    <2>1. /\ entry[c] = "none" /\ entry' = [entry EXCEPT ![c] = "bg"]
          /\ UNCHANGED <<child, sigpend, handler, savesig, sigtrap, trapnote, pc>>
      BY <1>15 DEF Post, Posted, kernel, sigs
    <2>2. child[c] # "gone"
      BY <2>1, <1>3 DEF Recorded
    <2>3. Noticed'
      BY <2>1, <1>3 DEF Noticed, Zombies
    <2>4. Recorded'
      BY <2>1, <2>2, <1>2, <1>3 DEF Recorded
    <2>5. Todo' \subseteq Todo
      BY <2>1, <1>2 DEF Todo
    <2>6. Due'
      BY <2>1, <2>5, <1>3 DEF Due
    <2> QED
      BY <2>1, <2>3, <2>4, <2>6, <1>3 DEF Remembered
  <1>16. CASE ReapCall
    <2> DEFINE p == IF savesig THEN "reap" ELSE "block"
    <2>1. /\ handler = "off" /\ pc' = Call(p, FALSE, pc)
          /\ UNCHANGED <<child, entry, sigpend, handler, sigtrap, trapnote>>
          /\ pc # <<>> /\ Head(pc).at = "region"
      BY <1>16 DEF ReapCall, Top, kernel
    <2>2. p \in Points /\ p \in Loops
      BY DEF Points, Loops
    <2> HIDE DEF p
    <2>3. Above(pc')
      BY <2>1, <2>2, <1>1, <1>3, CallAbove
    <2>4. \A A : Inside(pc', A) <=> p \in A \/ Inside(pc, A)
      BY <2>1, <2>2, <1>1, CallInside
    <2>5. Carried
      BY <2>2, <2>3, <2>4 DEF Carried
    <2> QED
      BY <2>1, <2>5, CarriedStep
  <1>17. ASSUME NEW c \in Children, ReapTrap(c)
         PROVE  Remembered'
    <2> DEFINE t == Call("reap0", FALSE, Tail(pc))
    <2>1. /\ child' = [child EXCEPT ![c] = "gone"]
          /\ entry' = [entry EXCEPT ![c] = "done"]
          /\ pc' = Call("trap", trapnote, t) /\ sigtrap' = FALSE
          /\ pc # <<>> /\ Head(pc).at \in {"reap0", "block"}
      BY <1>17 DEF ReapTrap, Top
    <2>2. "reap0" \in Points /\ "trap" \in Points /\ "reap0" \in Loops
      BY DEF Points, Holding, Loops
    <2>3. Tail(pc) \in Seq(Frame)
      BY <2>1, <1>1, TailStack
    <2>4. /\ Above(Tail(pc))
          /\ Tail(pc) # <<>> => /\ Head(Tail(pc)).at \notin {"reap", "block"}
                                /\ Head(Tail(pc)).at = "reap0" => Head(pc).at \in {"trap", "unlock"}
                                /\ Head(Tail(pc)).at = "unlock" => Head(pc).at = "reap"
      BY <2>1, <1>1, <1>3, TailAbove
    <2>5. Above(t)
      BY <2>1, <2>2, <2>3, <2>4, CallAbove
    <2>6. t \in Seq(Frame) /\ Head(t).at = "reap0"
      BY <2>2, <2>3, CallStack
    <2>7. \A A : Inside(t, A) <=> "reap0" \in A \/ Inside(Tail(pc), A)
      BY <2>2, <2>3, CallInside
    <2> HIDE DEF t
    <2>8. Above(pc')
      BY <2>1, <2>2, <2>5, <2>6, <1>2, CallAbove
    <2>9. \A A : Inside(pc', A) <=> "trap" \in A \/ Inside(t, A)
      BY <2>1, <2>2, <2>6, <1>2, CallInside
    <2>10. Noticed' /\ Due'
      BY <2>2, <2>7, <2>9 DEF Noticed, Due
    <2>11. Recorded'
      BY <2>1, <1>2, <1>3 DEF Recorded
    <2> QED
      BY <2>1, <2>8, <2>10, <2>11 DEF Remembered
  <1>18. CASE ReapReturn
    <2>1. /\ Zombies = {} /\ pc' = Tail(pc)
          /\ UNCHANGED <<child, entry, sigtrap, trapnote>>
          /\ pc # <<>> /\ Head(pc).at \in {"reap", "reap0", "block"}
      BY <1>18 DEF ReapReturn, Top, kernel, sigs
    <2>2. Above(pc')
      BY <2>1, <1>1, <1>3, TailAbove
    <2>3. \A A : Inside(pc, A) <=> Head(pc).at \in A \/ Inside(pc', A)
      BY <2>1, <1>1, TailInside
    <2>4. Noticed'
      BY <2>1 DEF Noticed, Zombies
    <2>5. Due'
      BY <2>1, <2>3, <1>3 DEF Due, Todo
    <2> QED
      BY <2>1, <2>2, <2>4, <2>5, <1>3 DEF Remembered, Recorded
  <1>19. CASE ChkTrap
    <2>1. /\ handler = "off" /\ trapnote /\ trapnote' = FALSE
          /\ UNCHANGED <<child, entry, sigpend, handler, savesig>>
          /\ pc # <<>> => Head(pc).at \in {"region", "pipe", "fork", "trap"}
      BY <1>19 DEF ChkTrap, AtFork, AtCommand, Top, Idle, kernel
    <2>2. /\ sigtrap' = FALSE
          /\ \/ sigtrap /\ pc' = Call("trap", FALSE, pc)
             \/ ~sigtrap /\ pc' = pc
      BY <1>19, <1>2 DEF ChkTrap, Enter
    <2>3. Carried /\ (sigtrap => Inside(pc', {"trap"}))
      <3>1. CASE sigtrap
        <4>1. "trap" \in Points /\ pc' = Call("trap", FALSE, pc)
          BY <3>1, <2>2 DEF Points, Holding
        <4> QED
          BY <4>1, <2>1, <1>1, <1>3, EnterCarried
      <3>2. CASE ~sigtrap
        BY <3>2, <2>1, <2>2, <1>3, SameCarried
      <3> QED
        BY <3>1, <3>2
    <2>4. Zombies' = Zombies /\ Todo' = Todo
      BY <2>1 DEF Zombies, Todo
    <2>5. Noticed'
      BY <2>1, <2>3, <2>4, <1>3 DEF Noticed, Carried
    <2>6. Due'
      BY <2>3, <2>4, <1>3 DEF Due, Carried
    <2> QED
      BY <2>1, <2>2, <2>3, <2>5, <2>6, <1>3 DEF Remembered, Recorded, Carried
  <1>20. ASSUME NEW c \in Children, TrapRun(c)
         PROVE  Remembered'
    <2>1. /\ c \in Todo /\ entry' = [entry EXCEPT ![c] = "trapped"]
          /\ UNCHANGED <<child, sigpend, handler, savesig, sigtrap, trapnote, pc>>
      BY <1>20 DEF TrapRun, kernel, sigs
    <2>2. Noticed'
      BY <2>1, <1>3 DEF Noticed, Zombies
    <2>3. Recorded'
      BY <2>1, <1>2, <1>3 DEF Recorded
    <2>4. Todo' \subseteq Todo
      BY <2>1, <1>2 DEF Todo
    <2>5. Due'
      BY <2>1, <2>4, <1>3 DEF Due
    <2> QED
      BY <2>1, <2>2, <2>3, <2>5, <1>3 DEF Remembered
  <1>21. CASE TrapEnd
    <2>1. /\ handler = "off" /\ Leave /\ NotesChecked /\ (Todo = {} \/ sigtrap)
          /\ UNCHANGED <<child, entry, sigpend, handler, sigtrap, in_critical>>
          /\ pc # <<>> /\ Head(pc).at = "trap"
      BY <1>21 DEF TrapEnd, Top, kernel
    <2>2. in_critical > 0
      <3>1. /\ Tail(pc) \in Seq(Frame)
            /\ HeldOn(pc) = HeldOn(Tail(pc)) + 1
        BY <2>1, <1>1, TailStack DEF Holding
      <3>2. HeldOn(Tail(pc)) \in Nat
        BY <3>1, HeldOnType
      <3> QED
        BY <3>1, <3>2, <1>1 DEF Held
    <2>3. sigtrap = FALSE /\ Todo = {}
      BY <2>1, <2>2, <1>1, <1>2, <1>3 DEF NotesChecked
    <2>4. /\ Above(pc')
          /\ savesig \/ Inside(pc, Loops) => savesig' \/ Inside(pc', Loops)
      BY <2>1, <1>1, <1>3, LeaveCarried
    <2>5. Zombies' = Zombies /\ Todo' = Todo
      BY <2>1 DEF Zombies, Todo
    <2>6. Noticed'
      BY <2>1, <2>4, <2>5, <1>3 DEF Noticed
    <2>7. Due'
      BY <2>3, <2>5 DEF Due
    <2> QED
      BY <2>1, <2>3, <2>4, <2>6, <2>7, <1>3 DEF Remembered, Recorded
  <1>22. CASE ShExit
    <2>1. PICK landing \in Landings(pc) : MayJump(landing) /\ Jump(landing)
      BY <1>22 DEF ShExit
    <2>2. /\ handler = "off" /\ pc # <<>>
          /\ Head(pc).at \in {"region", "pipe", "fork", "trap"}
          /\ UNCHANGED <<child, entry, sigpend, handler, sigtrap, trapnote>>
      BY <1>22 DEF ShExit, Top, kernel
    <2>3. Head(pc).at # "trap"
      <3>1. SUFFICES ASSUME Head(pc).at = "trap"
                     PROVE  HeldOn(landing) = Held
        BY <2>1 DEF MayJump
      <3>2. landing = pc
        BY <3>1, <2>2, <1>1, LandingOfTrap
      <3> QED
        BY <3>2 DEF Held
    <2>4. Carried
      BY <2>1, <2>2, <2>3, <1>1, <1>3, JumpCarried
    <2> QED
      BY <2>2, <2>4, CarriedStep
  <1>23. ~ \E lost : ReapExit(lost) \/ HandlerExit(lost)
    BY DEF ReapExit, HandlerExit, Lost
  <1>24. CASE Handler
    BY <1>24, <1>6, <1>7, <1>8, <1>9, <1>23 DEF Handler
  <1>25. CASE Main
    BY <1>25, <1>10, <1>11, <1>12, <1>13, <1>14, <1>15, <1>16, <1>17, <1>18, <1>19,
       <1>20, <1>21, <1>22, <1>23 DEF Main
  <1> QED
    BY <1>4, <1>5, <1>24, <1>25 DEF Next

\* Initially there is nothing to remember.
LEMMA RememberedInit ==
    ASSUME Init
    PROVE  Remembered
  BY DEF Init, Remembered, Above, Noticed, Recorded, Due, Zombies, Todo

\* No child that has ended is forgotten, in any interleaving of the handler with
\* the shell's own code: a zombie is noticed, its status is recorded and its
\* CHLD trap stays due.  The two excluded paths longjmp out of a trap or a reap.
THEOREM NoneForgotten ==
    ASSUME "trap" \notin Rare, "sigset" \notin Rare
    PROVE  Spec => []NothingForgotten
  <1>1. Init => IInv /\ Remembered
    BY InvInit, RememberedInit
  <1>2. IInv /\ Remembered /\ [Next]_vars => (IInv /\ Remembered)'
    BY InvStep, RememberedStep
  <1>3. IInv /\ Remembered => NothingForgotten
    <2>1. SUFFICES ASSUME IInv, Remembered
                   PROVE  NothingForgotten
      OBVIOUS
    <2>2. DOMAIN pc = 1 .. Len(pc)
      BY <2>1 DEF IInv, TypeOK
    <2>3. \A A : Inside(pc, A) => \E i \in DOMAIN pc : pc[i].at \in A
      BY <2>2 DEF Inside
    <2>4. Inside(pc, {"trap"}) => \E i \in DOMAIN pc : pc[i].at = "trap"
      BY <2>3
    <2> QED
      BY <2>1, <2>3, <2>4 DEF Remembered, Noticed, Recorded, Due, NothingForgotten, Loops
  <1> QED
    BY <1>1, <1>2, <1>3, PTL DEF Spec

=============================================================================
