-------------------------- MODULE DelayedLoadingProofs --------------------------
(****************************************************************************)
(* The safety of delayed loading, for any objects, classes, object graphs,  *)
(* exceptions and calls.  The stack of frames may be of any depth, so the   *)
(* inductive invariant says how frames may lie on each other (Nesting),     *)
(* what this means for the locks and the delayed loads (Locks, Delays),     *)
(* that every object that is being loaded is in one place (OnePlace), and   *)
(* that no other object of the session is half loaded (Pending).            *)
(****************************************************************************)
EXTENDS DelayedLoading, Integers, SequenceTheorems, FiniteSetTheorems,
        WellFoundedInduction, TLAPS

------------------------------------------------------------------------------
\* That something holds of every number is proved by the least for which it does not.

\* A set of natural numbers has a least one.
LEMMA Least ==
  ASSUME NEW T \in SUBSET Nat, T # {}
  PROVE  \E x \in T : \A y \in T : x <= y
<1>1. PICK x \in T : \A y \in T : ~(<<y, x>> \in OpToRel(<, Nat))
  BY NatLessThanWellFounded, WFMin
<1>2. \A y \in T : ~(y < x)
  BY <1>1 DEF OpToRel
<1>3. QED BY <1>2

\* One of numbers up to n has a greatest.
LEMMA Greatest ==
  ASSUME NEW n \in Nat, NEW T \in SUBSET (1..n), T # {}
  PROVE  \E x \in T : \A y \in T : y <= x
<1> DEFINE U == {n - x : x \in T}
<1>1. \A x \in T : n - x \in Nat
  OBVIOUS
<1>2. U \in SUBSET Nat /\ U # {}
  BY <1>1
<1>3. PICK u \in U : \A y \in U : u <= y
  BY <1>2, Least
<1>4. PICK x \in T : u = n - x
  BY <1>3
<1>5. ASSUME NEW y \in T PROVE y <= x
  <2>1. n - y \in U
    OBVIOUS
  <2>2. n - x <= n - y
    BY <1>3, <1>4, <2>1
  <2>3. QED BY <2>2
<1>6. QED BY <1>4, <1>5

------------------------------------------------------------------------------
\* The inductive invariant.

FrameSet ==
  [fn : {"find", "load_delayed"}, cls : Classes, obj : Objects \cup {NoObject},
   phase : Phases, todo : SUBSET Objects, dls : Seq(Objects)]

Typed ==
  /\ points \in [Objects -> SUBSET Objects] /\ points \in Graphs
  /\ stack \in Seq(FrameSet)
  /\ locked \in [Classes -> BOOLEAN]
  /\ delayed_ \in [Classes -> Seq(Objects)]
  /\ session \subseteq Objects /\ loaded \subseteq session /\ posted \subseteq loaded
  /\ throwing \in BOOLEAN /\ throws \in 0..MaxThrows
  /\ calls \in 0..MaxCalls /\ dangling \in BOOLEAN

\* A frame that has called another is initialising its object, waits for its delayed
\* loads, or is in a callback; one that initialises an object has no frame of its
\* class on top of it.
Bottom == Depth > 0 => stack[1].fn = "find" /\ (throwing => Top.phase # "next")
Finds == \A i \in 1..Depth : stack[i].fn = "find" => stack[i].dls = <<>> /\ stack[i].phase # "next"
OnTop ==
  \A i, k \in 1..Depth : k = i + 1 =>
    /\ stack[i].phase \in {"init", "post", "callback"}
    /\ stack[i].phase = "post" <=> stack[k].fn = "load_delayed"
    /\ stack[i].phase = "post" => stack[k].cls = stack[i].cls
Alone ==
  \A i, k \in 1..Depth : i < k /\ stack[k].cls = stack[i].cls => stack[i].phase # "init"
Nesting == Bottom /\ Finds /\ OnTop /\ Alone

\* No frame of its class is on top of it.
Inner(i) == \A k \in 1..Depth : i < k => stack[k].cls # stack[i].cls
Idle(c) == \A i \in 1..Depth : stack[i].cls # c

Locks ==
  /\ \A i \in 1..Depth : Inner(i) => (locked[stack[i].cls] <=> stack[i].phase # "callback")
  /\ \A c \in Classes : Idle(c) => ~locked[c]

\* Loads are delayed while an object of the class is initialised; an exception can
\* give back those of a load_delayed_() that it has just left.
Delays ==
  /\ \A i \in 1..Depth :
       Inner(i) /\ delayed_[stack[i].cls] # <<>> =>
         \/ stack[i].phase \in {"init", "delayed"}
         \/ throwing /\ i = Depth /\ stack[i].phase = "post"
  /\ \A c \in Classes : ~locked[c] => delayed_[c] = <<>>

Distinct(s) == \A j, k \in 1..Len(s) : s[j] = s[k] => j = k
Busy(i) == stack[i].phase # "next"
Reading(i) == stack[i].phase \in {"read", "init"}

\* The object of a frame, those it has still to load and those that are delayed are
\* all different, and in the session.
Holds ==
  \A i \in 1..Depth : Busy(i) =>
    /\ stack[i].obj \in session /\ ClassOf[stack[i].obj] = stack[i].cls
    /\ Reading(i) <=> stack[i].obj \notin loaded
    /\ stack[i].phase = "callback" => stack[i].obj \in posted
Apart == \A i, k \in 1..Depth : Busy(i) /\ Busy(k) /\ stack[i].obj = stack[k].obj => i = k
Unheld(o) == o \in session \ loaded /\ \A k \in 1..Depth : Busy(k) => stack[k].obj # o
Waiting ==
  \A i \in 1..Depth :
    /\ Distinct(stack[i].dls)
    /\ \A o \in Members(stack[i].dls) :
         /\ Unheld(o) /\ ClassOf[o] = stack[i].cls
         /\ \A k \in 1..Depth : o \in Members(stack[k].dls) => k = i
         /\ o \notin DelayedOf(ClassOf[o])
Delayed ==
  \A c \in Classes :
    /\ Distinct(delayed_[c])
    /\ \A o \in DelayedOf(c) : Unheld(o) /\ ClassOf[o] = c
OnePlace == Holds /\ Apart /\ Waiting /\ Delayed

\* An object of the session that is not loaded is being read, or waits; one that has
\* not had its callback will have it.
Pending ==
  /\ \A o \in session \ loaded :
       \/ \E i \in 1..Depth : Reading(i) /\ stack[i].obj = o
       \/ \E i \in 1..Depth : o \in Members(stack[i].dls)
       \/ \E c \in Classes : o \in DelayedOf(c)
  /\ \A o \in loaded \ posted :
       \E i \in 1..Depth : stack[i].phase \in {"delayed", "post"} /\ stack[i].obj = o

\* Until an exception removes objects, what a frame has pointed its object to is in
\* the session, and not there for a find() that may yet return null.
Asked(k) == stack[k].fn = "find" /\ stack[k].phase = "read"
            /\ ~(k > 1 /\ stack[k - 1].phase = "init")
Reached ==
  ~dangling =>
    \A i \in 1..Depth : stack[i].phase \notin {"next", "read"} =>
      \A p \in points[stack[i].obj] :
        \/ stack[i].phase = "init" /\ p \in stack[i].todo
        \/ p \in session /\ \A k \in 1..Depth : Asked(k) => stack[k].obj # p

IInv == Typed /\ Nesting /\ Locks /\ Delays /\ OnePlace /\ Pending /\ Reached

------------------------------------------------------------------------------
\* What the ways to change the stack and the delayed loads do, entry by entry.

Replaced(f) ==
  /\ stack' \in Seq(FrameSet) /\ Len(stack') = Depth /\ stack'[Depth] = f
  /\ \A i \in 1..Depth : i # Depth => stack'[i] = stack[i]
Popped ==
  /\ stack' \in Seq(FrameSet) /\ Len(stack') = Depth - 1
  /\ \A i \in 1..(Depth - 1) : stack'[i] = stack[i]
Pushed(f) ==
  /\ stack' \in Seq(FrameSet) /\ Len(stack') = Depth + 1 /\ stack'[Depth + 1] = f
  /\ \A i \in 1..Depth : stack'[i] = stack[i]
\* The frame on top becomes f, and calls g.
Nests(f, g) ==
  /\ stack' \in Seq(FrameSet) /\ Len(stack') = Depth + 1
  /\ stack'[Depth] = f /\ stack'[Depth + 1] = g
  /\ \A i \in 1..Depth : i # Depth => stack'[i] = stack[i]

\* The frames on the stack are frames.
LEMMA TopIsFrame ==
  ASSUME Typed
  PROVE  /\ Depth \in Nat
         /\ \A i \in 1..Depth : stack[i] \in FrameSet
         /\ Depth > 0 => Top \in FrameSet
BY DEF Typed, Depth, Top

\* All but the top of a stack.
LEMMA BelowIsStack ==
  ASSUME Typed, Depth > 0
  PROVE  /\ Below \in Seq(FrameSet) /\ Len(Below) = Depth - 1
         /\ \A i \in 1..(Depth - 1) : Below[i] = stack[i]
<1>1. Depth \in Nat /\ \A i \in 1..(Depth - 1) : stack[i] \in FrameSet
  BY TopIsFrame
<1>2. QED BY <1>1, SubSeqProperties DEF Below

LEMMA ReplacedBySet ==
  ASSUME Typed, Depth > 0, NEW f \in FrameSet, Set(f)
  PROVE  Replaced(f)
BY BelowIsStack, TopIsFrame DEF Set, Replaced

LEMMA PoppedBelow ==
  ASSUME Typed, Depth > 0, stack' = Below
  PROVE  Popped
BY BelowIsStack DEF Popped

LEMMA PushedByAppend ==
  ASSUME Typed, NEW f \in FrameSet, stack' = Append(stack, f)
  PROVE  Pushed(f)
BY DEF Typed, Depth, Pushed

LEMMA NestsByAppend ==
  ASSUME Typed, Depth > 0, NEW f \in FrameSet, NEW g \in FrameSet,
         stack' = Append(Append(Below, f), g)
  PROVE  Nests(f, g)
<1>1. /\ Append(Below, f) \in Seq(FrameSet) /\ Len(Append(Below, f)) = Depth
      /\ Append(Below, f)[Depth] = f
      /\ \A i \in 1..Depth : i # Depth => Append(Below, f)[i] = stack[i]
  BY BelowIsStack, TopIsFrame
<1>2. QED BY <1>1, TopIsFrame DEF Nests

\* push_back() and pop_back().
LEMMA MembersOfAppend ==
  ASSUME NEW S, NEW s \in Seq(S), NEW e \in S
  PROVE  /\ Append(s, e) \in Seq(S)
         /\ \A o : o \in Members(Append(s, e)) <=> o \in Members(s) \/ o = e
         /\ Distinct(s) /\ e \notin Members(s) => Distinct(Append(s, e))
<1>1. /\ Append(s, e) \in Seq(S) /\ Len(Append(s, e)) = Len(s) + 1 /\ Len(s) \in Nat
      /\ Append(s, e)[Len(s) + 1] = e /\ \A i \in 1..Len(s) : Append(s, e)[i] = s[i]
  OBVIOUS
<1>2. \A o : o \in Members(Append(s, e)) <=> o \in Members(s) \/ o = e
  BY <1>1 DEF Members
<1>3. Distinct(s) /\ e \notin Members(s) => Distinct(Append(s, e))
  BY <1>1 DEF Members, Distinct
<1>4. QED BY <1>1, <1>2, <1>3

LEMMA MembersOfFront ==
  ASSUME NEW S, NEW s \in Seq(S), s # <<>>
  PROVE  /\ SubSeq(s, 1, Len(s) - 1) \in Seq(S) /\ s[Len(s)] \in S
         /\ \A o : o \in Members(s) <=> o \in Members(SubSeq(s, 1, Len(s) - 1)) \/ o = s[Len(s)]
         /\ Distinct(s) => /\ Distinct(SubSeq(s, 1, Len(s) - 1))
                           /\ s[Len(s)] \notin Members(SubSeq(s, 1, Len(s) - 1))
<1> DEFINE f == SubSeq(s, 1, Len(s) - 1)
<1>1. /\ Len(s) \in Nat /\ Len(s) > 0 /\ \A i \in 1..Len(s) : s[i] \in S
      /\ \A i \in 1..(Len(s) - 1) : s[i] \in S
  BY EmptySeq
<1>2. /\ f \in Seq(S) /\ Len(f) = Len(s) - 1 /\ \A i \in 1..(Len(s) - 1) : f[i] = s[i]
  <2>1. Len(s) - 1 \in Int /\ 1 \in Int
    BY <1>1
  <2>2. /\ f \in Seq(S)
        /\ Len(f) = IF 1 <= Len(s) - 1 THEN (Len(s) - 1) - 1 + 1 ELSE 0
        /\ \A i \in 1..((Len(s) - 1) - 1 + 1) : f[i] = s[1 + i - 1]
    BY <1>1, <2>1, SubSeqProperties
  <2> HIDE DEF f
  <2>3. Len(f) = Len(s) - 1
    <3>1. \A n \in Nat : n > 0 => (IF 1 <= n - 1 THEN (n - 1) - 1 + 1 ELSE 0) = n - 1
      OBVIOUS
    <3>2. QED BY <1>1, <2>2, <3>1
  <2>4. ASSUME NEW i \in 1..(Len(s) - 1) PROVE f[i] = s[i]
    <3>1. i \in 1..((Len(s) - 1) - 1 + 1) /\ 1 + i - 1 = i
      BY <1>1
    <3>2. QED BY <2>2, <3>1
  <2>5. QED BY <2>2, <2>3, <2>4
<1> HIDE DEF f
<1>3. \A o : o \in Members(s) <=> o \in Members(f) \/ o = s[Len(s)]
  BY <1>1, <1>2 DEF Members
<1>4. Distinct(s) => Distinct(f) /\ s[Len(s)] \notin Members(f)
  <2>1. Distinct(s) => Distinct(f)
    BY <1>1, <1>2 DEF Distinct
  <2>2. Distinct(s) => \A i \in 1..(Len(s) - 1) : s[i] # s[Len(s)]
    BY <1>1 DEF Distinct
  <2>3. QED BY <1>1, <1>2, <2>1, <2>2 DEF Members
<1>5. QED BY <1>1, <1>2, <1>3, <1>4 DEF f

LEMMA MembersOfNone == Members(<<>>) = {} /\ Distinct(<<>>)
BY DEF Members, Distinct

------------------------------------------------------------------------------
\* What the nesting means for the lock of a class.

\* The statements that are locked are those of a frame that initialises an object,
\* or of the one on top.
LEMMA LockedClass ==
  ASSUME Typed, Nesting, Locks, NEW c \in Classes, locked[c]
  PROVE  /\ ~Idle(c)
         /\ \A i \in 1..Depth : Inner(i) /\ stack[i].cls = c =>
              stack[i].phase = "init" \/ (i = Depth /\ stack[i].phase # "callback")
<1>1. Depth \in Nat /\ OnTop /\ Locks
  BY TopIsFrame DEF Nesting
<1>2. ASSUME NEW i \in 1..Depth, Inner(i), stack[i].cls = c, i # Depth
      PROVE  stack[i].phase = "init"
  <2>1. i + 1 \in 1..Depth /\ i < i + 1 /\ i < Depth
    BY <1>1, <1>2
  <2>2. stack[i].phase # "callback"
    BY <1>1, <1>2 DEF Locks
  <2>3. stack[i].phase # "post"
    BY <1>1, <1>2, <2>1 DEF OnTop, Inner
  <2>4. QED BY <1>1, <1>2, <2>1, <2>2, <2>3 DEF OnTop
<1>3. QED BY <1>1, <1>2 DEF Locks

\* Statements that are not locked initialise no object.
LEMMA UnlockedClass ==
  ASSUME Typed, Nesting, Locks, NEW c \in Classes, ~locked[c]
  PROVE  \A i \in 1..Depth : stack[i].cls = c => stack[i].phase # "init"
<1> SUFFICES ASSUME NEW i \in 1..Depth, stack[i].cls = c, stack[i].phase = "init"
             PROVE  FALSE
  OBVIOUS
<1>1. Inner(i)
  BY DEF Nesting, Alone, Inner
<1>2. QED BY <1>1 DEF Locks

\* Under a find() there is, of its class, a callback.
LEMMA UnderFind ==
  ASSUME Typed, Nesting, Depth > 0, Top.fn = "find",
         NEW i \in 1..(Depth - 1), stack[i].cls = Top.cls,
         \A k \in 1..(Depth - 1) : i < k => stack[k].cls # Top.cls
  PROVE  stack[i].phase = "callback"
<1>1. Depth \in Nat /\ OnTop /\ Alone /\ Top = stack[Depth]
  BY TopIsFrame DEF Nesting, Top
<1>2. i \in 1..Depth /\ i < Depth /\ i + 1 \in 1..Depth /\ Depth \in 1..Depth
  BY <1>1
<1>3. stack[i].phase # "init"
  BY <1>1, <1>2 DEF Alone
<1>4. ASSUME stack[i].phase = "post" PROVE FALSE
  <2>1. stack[i + 1].fn = "load_delayed" /\ stack[i + 1].cls = Top.cls
    BY <1>1, <1>2, <1>4 DEF OnTop
  <2>2. CASE i + 1 = Depth
    BY <1>1, <2>1, <2>2
  <2>3. CASE i + 1 # Depth
    BY <1>1, <1>2, <2>1, <2>3
  <2>4. QED BY <2>2, <2>3
<1>5. QED BY <1>1, <1>2, <1>3, <1>4 DEF OnTop

\* Under a load_delayed_() there is the frame that waits for it.
LEMMA UnderLoadDelayed ==
  ASSUME Typed, Nesting, Depth > 0, Top.fn = "load_delayed"
  PROVE  /\ Depth > 1 /\ stack[Depth - 1].phase = "post"
         /\ stack[Depth - 1].cls = Top.cls
<1>1. Depth \in Nat /\ OnTop /\ Bottom /\ Top = stack[Depth]
  BY TopIsFrame DEF Nesting, Top
<1>2. Depth # 1
  BY <1>1 DEF Bottom
<1>3. Depth - 1 \in 1..Depth /\ Depth - 1 < Depth /\ (Depth - 1) + 1 = Depth
  BY <1>1, <1>2
<1>4. QED BY <1>1, <1>3 DEF OnTop

\* find()'s frame.
LEMMA FindingIsFrame ==
  ASSUME NEW o \in Objects, ClassOf[o] \in Classes
  PROVE  /\ Finding(o) \in FrameSet
         /\ Finding(o).fn = "find" /\ Finding(o).cls = ClassOf[o] /\ Finding(o).obj = o
         /\ Finding(o).phase = "read" /\ Finding(o).todo = {} /\ Finding(o).dls = <<>>
<1> DEFINE f == Frame("find", ClassOf[o], <<>>)
<1>1. <<>> \in Seq(Objects)
  BY EmptySeq
<1>2. /\ f \in FrameSet /\ f.fn = "find" /\ f.cls = ClassOf[o] /\ f.todo = {} /\ f.dls = <<>>
  BY <1>1 DEF FrameSet, Phases, Frame
<1>3. Finding(o) = [f EXCEPT !.obj = o, !.phase = "read"]
  BY DEF Finding
<1> HIDE DEF f
<1>4. QED BY <1>2, <1>3 DEF FrameSet, Phases

\* load()'s frame, for a row that has been fetched.
RowFrame(o, t) == [Finding(o) EXCEPT !.phase = "init", !.todo = t]

LEMMA RowIsFrame ==
  ASSUME NEW o \in Objects, ClassOf[o] \in Classes, NEW t \in SUBSET Objects
  PROVE  /\ RowFrame(o, t) \in FrameSet
         /\ RowFrame(o, t).fn = "find" /\ RowFrame(o, t).cls = ClassOf[o]
         /\ RowFrame(o, t).obj = o /\ RowFrame(o, t).phase = "init"
         /\ RowFrame(o, t).todo = t /\ RowFrame(o, t).dls = <<>>
<1> DEFINE f == Finding(o)
<1>1. /\ f \in FrameSet /\ f.fn = "find" /\ f.cls = ClassOf[o] /\ f.obj = o /\ f.dls = <<>>
  BY FindingIsFrame
<1>2. RowFrame(o, t) = [f EXCEPT !.phase = "init", !.todo = t]
  BY DEF RowFrame
<1> HIDE DEF f
<1>3. QED BY <1>1, <1>2 DEF FrameSet, Phases

------------------------------------------------------------------------------
\* Every operation.

\* find() of an object whose class is being loaded further out: it is put off.
LEMMA FindDelays ==
  ASSUME IInv, NEW o \in Objects, Find(o), locked[ClassOf[o]]
  PROVE  IInv'
<1>1. /\ Typed /\ Nesting /\ Bottom /\ Finds /\ OnTop /\ Alone /\ Locks /\ Delays
      /\ Holds /\ Apart /\ Waiting /\ Delayed /\ Pending /\ Reached
  BY DEF IInv, Nesting, OnePlace
<1>2. /\ Depth \in Nat /\ (Depth > 0 => stack # <<>>)
      /\ \A i \in 1..Depth : stack[i] \in FrameSet
  BY <1>1, TopIsFrame, EmptySeq DEF Typed, Depth
<1>3. \A i \in 1..Depth : stack[i].cls \in Classes
  BY <1>2 DEF FrameSet
<1>4. loaded \subseteq session /\ posted \subseteq loaded
  BY <1>1 DEF Typed
<1>5. /\ UNCHANGED <<points, locked, loaded, posted, throwing, throws, dangling>>
      /\ locked[ClassOf[o]] /\ ~throwing /\ calls < MaxCalls /\ o \notin session
      /\ Depth > 0 => stack[Depth].phase = "callback"
  BY <1>1, <1>2 DEF Find, Top, Lock, DelayLoad, InCallback
<1>6. session' = session \cup {o}
  BY <1>1, <1>2, <1>5 DEF Find, Lock, DelayLoad, InCallback
<1>7. calls' = calls + 1
  BY <1>1, <1>2, <1>5 DEF Find, Lock, DelayLoad, InCallback
<1>8. delayed_' = [delayed_ EXCEPT ![ClassOf[o]] = Append(@, o)]
  BY <1>1, <1>2, <1>5 DEF Find, Lock, DelayLoad, InCallback
<1>9. ClassOf[o] \in Classes
  BY <1>1, <1>2, <1>5, DelayedLoadingAssumption DEF Classes
<1>10. /\ delayed_'[ClassOf[o]] = Append(delayed_[ClassOf[o]], o)
      /\ \A c \in Classes \ {ClassOf[o]} : delayed_'[c] = delayed_[c]
      /\ delayed_' \in [Classes -> Seq(Objects)]
  BY <1>1, <1>2, <1>5, <1>6, <1>7, <1>8, <1>9, MembersOfAppend DEF Typed
<1>11. \A c \in Classes \ {ClassOf[o]} : /\ DelayedOf(c)' = DelayedOf(c)
                                          /\ delayed_'[c] = delayed_[c]
  BY <1>10 DEF DelayedOf
<1>12. /\ \A q : q \in DelayedOf(ClassOf[o])' <=> q \in DelayedOf(ClassOf[o]) \/ q = o
      /\ Distinct(delayed_'[ClassOf[o]])
  BY <1>1, <1>2, <1>5, <1>6, <1>7, <1>8, <1>9, <1>10, <1>11, MembersOfAppend DEF Typed,
     Delayed, Unheld, DelayedOf
<1>13. /\ ~Idle(ClassOf[o])
      /\ \A i \in 1..Depth : Inner(i) /\ stack[i].cls = ClassOf[o] => stack[i].phase = "init"
  BY <1>1, <1>2, <1>5, <1>6, <1>7, <1>8, <1>9, <1>10, <1>11, <1>12, LockedClass
<1>14. stack' = stack /\ Depth' = Depth
  BY <1>1, <1>2, <1>5 DEF Find, Depth
<1>15. /\ \A i \in 1..Depth : Inner(i)' <=> Inner(i)
      /\ \A c \in Classes : Idle(c)' <=> Idle(c)
  BY <1>14 DEF Inner, Idle
<1>16. Typed'
  BY <1>1, <1>2, <1>5, <1>6, <1>7, <1>8, <1>10, <1>14, DelayedLoadingAssumption DEF Typed
<1>17. Bottom'
  BY <1>1, <1>2, <1>5, <1>9, <1>14 DEF Bottom, Finds, OnTop, Top
<1>18. Finds'
  BY <1>1, <1>2, <1>5, <1>9, <1>14 DEF Finds
<1>19. OnTop'
  BY <1>1, <1>2, <1>5, <1>9, <1>14 DEF OnTop, Finds
<1>20. Alone'
  BY <1>1, <1>2, <1>5, <1>9, <1>14 DEF Alone
<1>21. Locks'
  BY <1>1, <1>2, <1>3, <1>5, <1>9, <1>14, <1>15 DEF Locks
<1>22. Delays'
  BY <1>1, <1>2, <1>3, <1>5, <1>9, <1>11, <1>13, <1>14, <1>15 DEF Delays
<1>23. Holds'
  BY <1>1, <1>2, <1>4, <1>5, <1>6, <1>9, <1>14 DEF Holds, Busy, Reading
<1>24. Apart'
  BY <1>1, <1>2, <1>4, <1>5, <1>6, <1>9, <1>14 DEF Apart, Busy, Holds
<1>25. Waiting'
  BY <1>1, <1>2, <1>3, <1>4, <1>5, <1>6, <1>9, <1>11, <1>12, <1>14 DEF Waiting, Unheld,
     Busy, Reading, Holds, DelayedOf
<1>26. Delayed'
  BY <1>1, <1>2, <1>3, <1>4, <1>5, <1>6, <1>9, <1>11, <1>12, <1>14 DEF Delayed, Unheld,
     Busy, Reading, Holds, DelayedOf
<1>27. Pending'
  BY <1>1, <1>2, <1>4, <1>5, <1>6, <1>9, <1>11, <1>12, <1>14 DEF Pending, Busy, Reading,
     DelayedOf
<1>28. Reached'
  BY <1>1, <1>2, <1>4, <1>5, <1>6, <1>9, <1>14 DEF Reached, Asked, Busy, Holds
<1>29. QED BY <1>16, <1>17, <1>18, <1>19, <1>20, <1>21, <1>22, <1>23, <1>24, <1>25, <1>26,
              <1>27, <1>28 DEF IInv, Nesting, OnePlace

\* find() of an object whose statements are free.
LEMMA FindLoads ==
  ASSUME IInv, NEW o \in Objects, Find(o), ~locked[ClassOf[o]]
  PROVE  IInv'
<1> DEFINE g == Finding(o)
<1>1. /\ Typed /\ Nesting /\ Bottom /\ Finds /\ OnTop /\ Alone /\ Locks /\ Delays
      /\ Holds /\ Apart /\ Waiting /\ Delayed /\ Pending /\ Reached
  BY DEF IInv, Nesting, OnePlace
<1>2. /\ Depth \in Nat /\ (Depth > 0 => stack # <<>>)
      /\ \A i \in 1..Depth : stack[i] \in FrameSet
  BY <1>1, TopIsFrame, EmptySeq DEF Typed, Depth
<1>3. \A i \in 1..Depth : stack[i].cls \in Classes
  BY <1>2 DEF FrameSet
<1>4. loaded \subseteq session /\ posted \subseteq loaded
  BY <1>1 DEF Typed
<1>5. /\ UNCHANGED <<points, delayed_, loaded, posted, throwing, throws, dangling>>
      /\ ~locked[ClassOf[o]] /\ ~throwing /\ calls < MaxCalls /\ o \notin session
      /\ Depth > 0 => stack[Depth].phase = "callback"
  BY <1>1, <1>2 DEF Find, Top, Lock, DelayLoad, InCallback
<1>6. session' = session \cup {o}
  BY <1>1, <1>2, <1>5 DEF Find, Lock, DelayLoad, InCallback
<1>7. calls' = calls + 1
  BY <1>1, <1>2, <1>5 DEF Find, Lock, DelayLoad, InCallback
<1>8. locked' = [locked EXCEPT ![ClassOf[o]] = TRUE]
  BY <1>1, <1>2, <1>5 DEF Find, Lock, DelayLoad, InCallback
<1>9. ClassOf[o] \in Classes
  BY <1>1, <1>2, <1>5, DelayedLoadingAssumption DEF Classes
<1>10. \A i \in 1..Depth : stack[i].cls = ClassOf[o] => stack[i].phase # "init"
  BY <1>1, <1>2, <1>5, <1>6, <1>7, <1>8, <1>9, UnlockedClass
<1>11. delayed_[ClassOf[o]] = <<>>
  BY <1>1, <1>2, <1>5, <1>6, <1>7, <1>8, <1>9, <1>10 DEF Delays
<1>12. /\ locked'[ClassOf[o]] /\ locked' \in [Classes -> BOOLEAN]
      /\ \A c \in Classes \ {ClassOf[o]} : locked'[c] = locked[c]
  BY <1>1, <1>2, <1>5, <1>6, <1>7, <1>8, <1>9, <1>10, <1>11 DEF Typed
<1>13. /\ g \in FrameSet
      /\ g.fn = "find" /\ g.cls = ClassOf[o] /\ g.obj = o
      /\ g.phase = "read" /\ g.todo = {} /\ g.dls = <<>>
  BY <1>1, <1>2, <1>5, <1>6, <1>7, <1>8, <1>9, <1>10, <1>11, <1>12, FindingIsFrame
     DEF FrameSet, Phases, Frame, Typed, Classes, NoObject
<1>14. Pushed(g)
  BY <1>1, <1>2, <1>5, <1>13, PushedByAppend DEF Find
<1> HIDE DEF g
<1>15. Depth' = Depth + 1
  BY <1>14 DEF Pushed, Depth
<1>16. /\ \A i \in 1..Depth : stack'[i].fn = stack[i].fn
      /\ stack'[Depth + 1].fn = "find"
  BY <1>2, <1>13, <1>14 DEF Pushed, Depth
<1>17. /\ \A i \in 1..Depth : stack'[i].cls = stack[i].cls
      /\ stack'[Depth + 1].cls = ClassOf[o]
  BY <1>2, <1>13, <1>14 DEF Pushed, Depth
<1>18. /\ \A i \in 1..Depth : stack'[i].obj = stack[i].obj
      /\ stack'[Depth + 1].obj = o
  BY <1>2, <1>13, <1>14 DEF Pushed, Depth
<1>19. /\ \A i \in 1..Depth : stack'[i].phase = stack[i].phase
      /\ stack'[Depth + 1].phase = "read"
  BY <1>2, <1>13, <1>14 DEF Pushed, Depth
<1>20. /\ \A i \in 1..Depth : stack'[i].todo = stack[i].todo
      /\ stack'[Depth + 1].todo = {}
  BY <1>2, <1>13, <1>14 DEF Pushed, Depth
<1>21. /\ \A i \in 1..Depth : stack'[i].dls = stack[i].dls
      /\ stack'[Depth + 1].dls = <<>>
  BY <1>2, <1>13, <1>14 DEF Pushed, Depth
<1>22. \A i \in 1..Depth : Inner(i)' => Inner(i) /\ stack[i].cls # ClassOf[o]
  BY <1>2, <1>15, <1>17 DEF Inner, Idle
<1>23. \A c \in Classes : Idle(c)' => Idle(c) /\ c # ClassOf[o]
  BY <1>2, <1>15, <1>17 DEF Inner, Idle
<1>24. Inner(Depth + 1)'
  BY <1>2, <1>15, <1>17 DEF Inner, Idle
<1>25. Typed'
  BY <1>1, <1>2, <1>5, <1>6, <1>7, <1>8, <1>12, <1>14, DelayedLoadingAssumption DEF Typed,
     Pushed
<1>26. Bottom'
  BY <1>1, <1>2, <1>5, <1>9, <1>15, <1>16, <1>19 DEF Bottom, Finds, OnTop, Top
<1>27. Finds'
  BY <1>1, <1>2, <1>5, <1>9, <1>15, <1>16, <1>19, <1>21 DEF Finds
<1>28. OnTop'
  <2> SUFFICES ASSUME NEW i \in 1..Depth', NEW k \in 1..Depth', k = i + 1
               PROVE  /\ stack'[i].phase \in {"init", "post", "callback"}
                      /\ stack'[i].phase = "post" <=> stack'[k].fn = "load_delayed"
                      /\ stack'[i].phase = "post" => stack'[k].cls = stack'[i].cls
    BY DEF OnTop
  <2>1. CASE k = Depth'
    BY <2>1, <1>1, <1>2, <1>5, <1>9, <1>15, <1>16, <1>17, <1>19 DEF OnTop, Finds
  <2>2. CASE k # Depth'
    BY <2>2, <1>1, <1>2, <1>5, <1>9, <1>15, <1>16, <1>17, <1>19 DEF OnTop, Finds
  <2>3. QED BY <2>1, <2>2
<1>29. Alone'
  BY <1>1, <1>2, <1>5, <1>9, <1>10, <1>15, <1>17, <1>19 DEF Alone
<1>30. Locks'
  BY <1>1, <1>2, <1>3, <1>5, <1>9, <1>12, <1>15, <1>17, <1>19, <1>22, <1>23, <1>24 DEF Locks
<1>31. Delays'
  BY <1>1, <1>2, <1>3, <1>5, <1>9, <1>10, <1>11, <1>12, <1>15, <1>17, <1>19, <1>22, <1>23,
     <1>24 DEF Delays
<1>32. Holds'
  BY <1>1, <1>2, <1>4, <1>5, <1>6, <1>9, <1>15, <1>17, <1>18, <1>19 DEF Holds, Busy, Reading
<1>33. Apart'
  BY <1>1, <1>2, <1>4, <1>5, <1>6, <1>9, <1>15, <1>18, <1>19 DEF Apart, Busy, Holds
<1>34. Waiting'
  BY <1>1, <1>2, <1>3, <1>4, <1>5, <1>6, <1>9, <1>15, <1>17, <1>18, <1>19, <1>21,
     MembersOfNone DEF Waiting, Unheld, Busy, Reading, Holds, DelayedOf
<1>35. Delayed'
  BY <1>1, <1>2, <1>3, <1>4, <1>5, <1>6, <1>9, <1>15, <1>18, <1>19 DEF Delayed, Unheld,
     Busy, Reading, Holds, DelayedOf
<1>36. Pending'
  BY <1>1, <1>2, <1>4, <1>5, <1>6, <1>9, <1>15, <1>18, <1>19, <1>21 DEF Pending, Busy,
     Reading, DelayedOf
<1>37. Reached'
  BY <1>1, <1>2, <1>4, <1>5, <1>6, <1>9, <1>15, <1>16, <1>18, <1>19, <1>20 DEF Reached,
     Asked, Busy, Holds
<1>38. QED BY <1>25, <1>26, <1>27, <1>28, <1>29, <1>30, <1>31, <1>32, <1>33, <1>34, <1>35,
              <1>36, <1>37 DEF IInv, Nesting, OnePlace

\* The object of a row that a query has fetched.
LEMMA LoadRowInv ==
  ASSUME IInv, NEW o \in Objects, LoadRow(o)
  PROVE  IInv'
<1> DEFINE g == RowFrame(o, points[o])
<1>1. /\ Typed /\ Nesting /\ Bottom /\ Finds /\ OnTop /\ Alone /\ Locks /\ Delays
      /\ Holds /\ Apart /\ Waiting /\ Delayed /\ Pending /\ Reached
  BY DEF IInv, Nesting, OnePlace
<1>2. /\ Depth \in Nat /\ (Depth > 0 => stack # <<>>)
      /\ \A i \in 1..Depth : stack[i] \in FrameSet
  BY <1>1, TopIsFrame, EmptySeq DEF Typed, Depth
<1>3. \A i \in 1..Depth : stack[i].cls \in Classes
  BY <1>2 DEF FrameSet
<1>4. loaded \subseteq session /\ posted \subseteq loaded
  BY <1>1 DEF Typed
<1>5. /\ UNCHANGED <<points, delayed_, loaded, posted, throwing, throws, dangling>>
      /\ ~locked[ClassOf[o]] /\ ~throwing /\ calls < MaxCalls /\ o \notin session
      /\ Depth > 0 => stack[Depth].phase = "callback"
  BY <1>1, <1>2 DEF LoadRow, Top, Lock, InCallback
<1>6. session' = session \cup {o}
  BY <1>1, <1>2, <1>5 DEF LoadRow, Lock, InCallback
<1>7. calls' = calls + 1
  BY <1>1, <1>2, <1>5 DEF LoadRow, Lock, InCallback
<1>8. locked' = [locked EXCEPT ![ClassOf[o]] = TRUE]
  BY <1>1, <1>2, <1>5 DEF LoadRow, Lock, InCallback
<1>9. points[o] \in SUBSET Objects
  BY <1>1, <1>2, <1>5 DEF Typed
<1>10. ClassOf[o] \in Classes
  BY <1>1, <1>2, <1>5, DelayedLoadingAssumption DEF Classes
<1>11. \A i \in 1..Depth : stack[i].cls = ClassOf[o] => stack[i].phase # "init"
  BY <1>1, <1>2, <1>5, <1>6, <1>7, <1>8, <1>9, <1>10, UnlockedClass
<1>12. delayed_[ClassOf[o]] = <<>>
  BY <1>1, <1>2, <1>5, <1>6, <1>7, <1>8, <1>9, <1>10, <1>11 DEF Delays
<1>13. /\ locked'[ClassOf[o]] /\ locked' \in [Classes -> BOOLEAN]
      /\ \A c \in Classes \ {ClassOf[o]} : locked'[c] = locked[c]
  BY <1>1, <1>2, <1>5, <1>6, <1>7, <1>8, <1>9, <1>10, <1>11, <1>12 DEF Typed
<1>14. /\ g \in FrameSet
      /\ g.fn = "find" /\ g.cls = ClassOf[o] /\ g.obj = o
      /\ g.phase = "init" /\ g.todo = points[o] /\ g.dls = <<>>
  BY <1>9, <1>10, RowIsFrame
<1>15. Pushed(g)
  BY <1>1, <1>2, <1>5, <1>14, PushedByAppend DEF LoadRow, RowFrame
<1> HIDE DEF g
<1>16. Depth' = Depth + 1
  BY <1>15 DEF Pushed, Depth
<1>17. /\ \A i \in 1..Depth : stack'[i].fn = stack[i].fn
      /\ stack'[Depth + 1].fn = "find"
  BY <1>2, <1>14, <1>15 DEF Pushed, Depth
<1>18. /\ \A i \in 1..Depth : stack'[i].cls = stack[i].cls
      /\ stack'[Depth + 1].cls = ClassOf[o]
  BY <1>2, <1>14, <1>15 DEF Pushed, Depth
<1>19. /\ \A i \in 1..Depth : stack'[i].obj = stack[i].obj
      /\ stack'[Depth + 1].obj = o
  BY <1>2, <1>14, <1>15 DEF Pushed, Depth
<1>20. /\ \A i \in 1..Depth : stack'[i].phase = stack[i].phase
      /\ stack'[Depth + 1].phase = "init"
  BY <1>2, <1>14, <1>15 DEF Pushed, Depth
<1>21. /\ \A i \in 1..Depth : stack'[i].todo = stack[i].todo
      /\ stack'[Depth + 1].todo = points[o]
  BY <1>2, <1>14, <1>15 DEF Pushed, Depth
<1>22. /\ \A i \in 1..Depth : stack'[i].dls = stack[i].dls
      /\ stack'[Depth + 1].dls = <<>>
  BY <1>2, <1>14, <1>15 DEF Pushed, Depth
<1>23. \A i \in 1..Depth : Inner(i)' => Inner(i) /\ stack[i].cls # ClassOf[o]
  BY <1>2, <1>16, <1>18 DEF Inner, Idle
<1>24. \A c \in Classes : Idle(c)' => Idle(c) /\ c # ClassOf[o]
  BY <1>2, <1>16, <1>18 DEF Inner, Idle
<1>25. Inner(Depth + 1)'
  BY <1>2, <1>16, <1>18 DEF Inner, Idle
<1>26. Typed'
  BY <1>1, <1>2, <1>5, <1>6, <1>7, <1>8, <1>13, <1>15, DelayedLoadingAssumption DEF Typed,
     Pushed
<1>27. Bottom'
  BY <1>1, <1>2, <1>5, <1>10, <1>16, <1>17, <1>20 DEF Bottom, Finds, OnTop, Top
<1>28. Finds'
  BY <1>1, <1>2, <1>5, <1>10, <1>16, <1>17, <1>20, <1>22 DEF Finds
<1>29. OnTop'
  <2> SUFFICES ASSUME NEW i \in 1..Depth', NEW k \in 1..Depth', k = i + 1
               PROVE  /\ stack'[i].phase \in {"init", "post", "callback"}
                      /\ stack'[i].phase = "post" <=> stack'[k].fn = "load_delayed"
                      /\ stack'[i].phase = "post" => stack'[k].cls = stack'[i].cls
    BY DEF OnTop
  <2>1. CASE k = Depth'
    BY <2>1, <1>1, <1>2, <1>5, <1>10, <1>16, <1>17, <1>18, <1>20 DEF OnTop, Finds
  <2>2. CASE k # Depth'
    <3>1. i \in 1..Depth /\ k \in 1..Depth
      BY <1>2, <1>16, <2>2
    <3>2. /\ stack[i].phase \in {"init", "post", "callback"}
          /\ stack[i].phase = "post" <=> stack[k].fn = "load_delayed"
          /\ stack[i].phase = "post" => stack[k].cls = stack[i].cls
      BY <1>1, <3>1 DEF OnTop
    <3>3. QED BY <1>17, <1>18, <1>20, <3>1, <3>2
  <2>3. QED BY <2>1, <2>2
<1>30. Alone'
  BY <1>1, <1>2, <1>5, <1>10, <1>11, <1>16, <1>18, <1>20 DEF Alone
<1>31. Locks'
  BY <1>1, <1>2, <1>3, <1>5, <1>10, <1>13, <1>16, <1>18, <1>20, <1>23, <1>24, <1>25
     DEF Locks
<1>32. Delays'
  BY <1>1, <1>2, <1>3, <1>5, <1>10, <1>11, <1>12, <1>13, <1>16, <1>18, <1>20, <1>23, <1>24,
     <1>25 DEF Delays
<1>33. Holds'
  BY <1>1, <1>2, <1>4, <1>5, <1>6, <1>10, <1>16, <1>18, <1>19, <1>20 DEF Holds, Busy,
     Reading
<1>34. Apart'
  BY <1>1, <1>2, <1>4, <1>5, <1>6, <1>10, <1>16, <1>19, <1>20 DEF Apart, Busy, Holds
<1>35. Waiting'
  <2>1. \A x : Unheld(x) /\ x # o => Unheld(x)'
    BY <1>2, <1>5, <1>6, <1>16, <1>19, <1>20 DEF Unheld, Busy
  <2>2. ~Unheld(o)
    BY <1>5 DEF Unheld
  <2>3. \A c \in Classes : DelayedOf(c)' = DelayedOf(c)
    BY <1>5 DEF DelayedOf
  <2>4. \A i \in 1..Depth' :
          \/ i \in 1..Depth /\ stack'[i].dls = stack[i].dls /\ stack'[i].cls = stack[i].cls
          \/ Members(stack'[i].dls) = {} /\ Distinct(stack'[i].dls)
    BY <1>2, <1>16, <1>18, <1>22, MembersOfNone
  <2>5. QED BY <1>1, <1>3, <2>1, <2>2, <2>3, <2>4 DEF Waiting
<1>36. Delayed'
  BY <1>1, <1>2, <1>3, <1>4, <1>5, <1>6, <1>10, <1>16, <1>19, <1>20 DEF Delayed, Unheld,
     Busy, Reading, Holds, DelayedOf
<1>37. Pending'
  BY <1>1, <1>2, <1>4, <1>5, <1>6, <1>10, <1>16, <1>19, <1>20, <1>22 DEF Pending, Busy,
     Reading, DelayedOf
<1>38. Reached'
  BY <1>1, <1>2, <1>4, <1>5, <1>6, <1>10, <1>16, <1>17, <1>19, <1>20, <1>21 DEF Reached,
     Asked, Busy, Holds
<1>39. QED BY <1>26, <1>27, <1>28, <1>29, <1>30, <1>31, <1>32, <1>33, <1>34, <1>35, <1>36,
              <1>37, <1>38 DEF IInv, Nesting, OnePlace

\* load_delayed_() has loaded all that it took over, and returns.
LEMMA TakeDelayedEnds ==
  ASSUME IInv, TakeDelayed, Top.dls = <<>>
  PROVE  IInv'
<1>1. /\ Typed /\ Nesting /\ Bottom /\ Finds /\ OnTop /\ Alone /\ Locks /\ Delays
      /\ Holds /\ Apart /\ Waiting /\ Delayed /\ Pending /\ Reached
  BY DEF IInv, Nesting, OnePlace
<1>2. /\ Depth \in Nat \ {0} /\ \A i \in 1..Depth : stack[i] \in FrameSet
      /\ stack[Depth] \in FrameSet /\ Top \in FrameSet /\ Top = stack[Depth]
  BY <1>1, TopIsFrame DEF Top, TakeDelayed
<1>3. \A i \in 1..Depth : stack[i].cls \in Classes
  BY <1>2 DEF FrameSet
<1>4. loaded \subseteq session /\ posted \subseteq loaded
  BY <1>1 DEF Typed
<1>5. /\ UNCHANGED <<points, locked, delayed_, session, loaded, posted, throwing, throws, calls, dangling>>
      /\ Top.phase = "next" /\ ~throwing /\ Top.dls = <<>>
  BY <1>1, <1>2 DEF TakeDelayed, Top
<1>6. Top.fn = "load_delayed"
  BY <1>1, <1>2, <1>5 DEF Finds, FrameSet
<1>7. Top.cls \in Classes
  BY <1>1, <1>2, <1>5 DEF FrameSet
<1>8. /\ 1 < Depth /\ stack[Depth - 1].phase = "post"
      /\ stack[Depth - 1].cls = Top.cls
  BY <1>1, <1>2, <1>5, <1>6, <1>7, UnderLoadDelayed
<1>9. Depth - 1 \in 1..Depth /\ Inner(Depth)
  BY <1>1, <1>2, <1>5, <1>8 DEF Inner
<1>10. delayed_[Top.cls] = <<>> /\ locked[Top.cls]
  BY <1>1, <1>2, <1>5, <1>6, <1>7, <1>8, <1>9 DEF Delays, Locks
<1>11. Popped
  BY <1>1, <1>2, <1>5, PoppedBelow DEF TakeDelayed
<1>12. Depth' = Depth - 1
  BY <1>11 DEF Popped, Depth
<1>13. \A i \in 1..(Depth - 1) : stack'[i].fn = stack[i].fn
  BY <1>2, <1>11 DEF Popped, Depth
<1>14. \A i \in 1..(Depth - 1) : stack'[i].cls = stack[i].cls
  BY <1>2, <1>11 DEF Popped, Depth
<1>15. \A i \in 1..(Depth - 1) : stack'[i].obj = stack[i].obj
  BY <1>2, <1>11 DEF Popped, Depth
<1>16. \A i \in 1..(Depth - 1) : stack'[i].phase = stack[i].phase
  BY <1>2, <1>11 DEF Popped, Depth
<1>17. \A i \in 1..(Depth - 1) : stack'[i].todo = stack[i].todo
  BY <1>2, <1>11 DEF Popped, Depth
<1>18. \A i \in 1..(Depth - 1) : stack'[i].dls = stack[i].dls
  BY <1>2, <1>11 DEF Popped, Depth
<1>19. \A i \in 1..(Depth - 1) : stack[i].cls # stack[Depth].cls /\ Inner(i)' => Inner(i)
  BY <1>2, <1>12, <1>14 DEF Inner, Idle
<1>20. \A c \in Classes : c # stack[Depth].cls /\ Idle(c)' => Idle(c)
  BY <1>2, <1>12, <1>14 DEF Inner, Idle
<1>21. \A i \in 1..(Depth - 1) : stack[i].cls = stack[Depth].cls /\ Inner(i)' => i = Depth - 1
  BY <1>2, <1>12, <1>14, <1>1, <1>2, <1>5, <1>6, <1>7, <1>8, <1>9, <1>10 DEF Inner
<1>22. \A c \in Classes : c = stack[Depth].cls => ~Idle(c)'
  BY <1>2, <1>12, <1>14, <1>1, <1>2, <1>5, <1>6, <1>7, <1>8, <1>9, <1>10 DEF Idle
<1>23. Typed'
  BY <1>1, <1>2, <1>5, <1>11 DEF Typed, Popped
<1>24. Bottom'
  BY <1>1, <1>2, <1>5, <1>7, <1>8, <1>9, <1>12, <1>13, <1>16 DEF Bottom, Finds, OnTop, Top
<1>25. Finds'
  BY <1>1, <1>2, <1>5, <1>7, <1>12, <1>13, <1>16, <1>18 DEF Finds
<1>26. OnTop'
  <2> SUFFICES ASSUME NEW i \in 1..Depth', NEW k \in 1..Depth', k = i + 1
               PROVE  /\ stack'[i].phase \in {"init", "post", "callback"}
                      /\ stack'[i].phase = "post" <=> stack'[k].fn = "load_delayed"
                      /\ stack'[i].phase = "post" => stack'[k].cls = stack'[i].cls
    BY DEF OnTop
  <2>1. /\ i \in 1..Depth /\ k \in 1..Depth /\ i # Depth
        /\ stack[i].phase \in {"init", "post", "callback"}
        /\ stack[i].phase = "post" <=> stack[k].fn = "load_delayed"
        /\ stack[i].phase = "post" => stack[k].cls = stack[i].cls
    BY <1>1, <1>2, <1>12 DEF OnTop
  <2>2. QED BY <2>1, <1>12, <1>13, <1>14, <1>16
<1>27. Alone'
  BY <1>1, <1>2, <1>5, <1>7, <1>12, <1>14, <1>16 DEF Alone
<1>28. Locks'
  <2>1. ASSUME NEW i \in 1..Depth', Inner(i)'
        PROVE  locked'[stack'[i].cls] <=> stack'[i].phase # "callback"
    <3>1. CASE stack[i].cls = stack[Depth].cls
      BY <1>1, <1>2, <1>3, <1>5, <1>7, <1>8, <1>9, <1>10, <1>12, <1>14, <1>16, <1>19, <1>20,
         <1>21, <1>22, <2>1, <3>1
    <3>2. CASE stack[i].cls # stack[Depth].cls
      BY <1>1, <1>2, <1>3, <1>5, <1>7, <1>8, <1>9, <1>10, <1>12, <1>14, <1>16, <1>19, <1>20,
         <1>21, <1>22, <2>1, <3>2 DEF Locks
    <3>3. QED BY <3>1, <3>2
  <2>2. \A c \in Classes : Idle(c)' => ~locked'[c]
    BY <1>1, <1>2, <1>3, <1>5, <1>7, <1>8, <1>9, <1>10, <1>12, <1>14, <1>16, <1>19, <1>20,
       <1>21, <1>22 DEF Locks
  <2>3. QED BY <2>1, <2>2 DEF Locks
<1>29. Delays'
  BY <1>1, <1>2, <1>3, <1>5, <1>7, <1>8, <1>9, <1>10, <1>12, <1>14, <1>16, <1>19, <1>20,
     <1>21 DEF Delays
<1>30. Holds'
  BY <1>1, <1>2, <1>4, <1>5, <1>7, <1>12, <1>14, <1>15, <1>16 DEF Holds, Busy, Reading
<1>31. Apart'
  BY <1>1, <1>2, <1>4, <1>5, <1>7, <1>12, <1>15, <1>16 DEF Apart, Busy, Holds
<1>32. Waiting'
  BY <1>1, <1>2, <1>3, <1>4, <1>5, <1>7, <1>12, <1>14, <1>15, <1>16, <1>18 DEF Waiting,
     Unheld, Busy, Reading, Holds, DelayedOf
<1>33. Delayed'
  BY <1>1, <1>2, <1>3, <1>4, <1>5, <1>7, <1>12, <1>15, <1>16 DEF Delayed, Unheld, Busy,
     Reading, Holds, DelayedOf
<1>34. Pending'
  BY <1>1, <1>2, <1>4, <1>5, <1>7, <1>12, <1>15, <1>16, <1>18, MembersOfNone DEF Pending,
     Busy, Reading, DelayedOf
<1>35. Reached'
  BY <1>1, <1>2, <1>4, <1>5, <1>7, <1>12, <1>13, <1>15, <1>16, <1>17 DEF Reached, Asked,
     Busy, Holds
<1>36. QED BY <1>23, <1>24, <1>25, <1>26, <1>27, <1>28, <1>29, <1>30, <1>31, <1>32, <1>33,
              <1>34, <1>35 DEF IInv, Nesting, OnePlace

\* load_delayed_() takes an object from the back of its vector.
LEMMA TakeDelayedTakes ==
  ASSUME IInv, TakeDelayed, Top.dls # <<>>
  PROVE  IInv'
<1> DEFINE last == Top.dls[Len(Top.dls)]
           front == SubSeq(Top.dls, 1, Len(Top.dls) - 1)
           f == [Top EXCEPT !.obj = last, !.phase = "read", !.dls = front]
<1>1. /\ Typed /\ Nesting /\ Bottom /\ Finds /\ OnTop /\ Alone /\ Locks /\ Delays
      /\ Holds /\ Apart /\ Waiting /\ Delayed /\ Pending /\ Reached
  BY DEF IInv, Nesting, OnePlace
<1>2. /\ Depth \in Nat \ {0} /\ \A i \in 1..Depth : stack[i] \in FrameSet
      /\ stack[Depth] \in FrameSet /\ Top \in FrameSet /\ Top = stack[Depth]
  BY <1>1, TopIsFrame DEF Top, TakeDelayed
<1>3. \A i \in 1..Depth : stack[i].cls \in Classes
  BY <1>2 DEF FrameSet
<1>4. loaded \subseteq session /\ posted \subseteq loaded
  BY <1>1 DEF Typed
<1>5. /\ UNCHANGED <<points, locked, delayed_, session, loaded, posted, throwing, throws, calls, dangling>>
      /\ Top.phase = "next" /\ ~throwing /\ Top.dls # <<>>
  BY <1>1, <1>2 DEF TakeDelayed, Top
<1>6. Top.fn = "load_delayed" /\ Top.dls \in Seq(Objects)
  BY <1>1, <1>2, <1>5 DEF Finds, FrameSet
<1>7. /\ front \in Seq(Objects) /\ last \in Objects
      /\ \A q : q \in Members(Top.dls) <=> q \in Members(front) \/ q = last
      /\ Distinct(Top.dls) => Distinct(front) /\ last \notin Members(front)
  BY <1>1, <1>2, <1>5, <1>6, MembersOfFront
<1>8. stack' = Append(Below, [Top EXCEPT !.obj = last, !.phase = "read", !.dls = front])
  BY <1>1, <1>2, <1>5, <1>6, <1>7 DEF TakeDelayed, Set
<1> HIDE DEF last, front
<1>9. /\ f \in FrameSet
      /\ f.fn = Top.fn /\ f.cls = Top.cls /\ f.obj = last
      /\ f.phase = "read" /\ f.todo = Top.todo /\ f.dls = front
  BY <1>1, <1>2, <1>5, <1>6, <1>7, <1>8 DEF FrameSet, Phases, Frame, Typed, Classes,
     NoObject
<1>10. Replaced(f)
  BY <1>1, <1>2, <1>5, <1>9, <1>8, ReplacedBySet DEF Set
<1> HIDE DEF f
<1>11. Depth' = Depth
  BY <1>10 DEF Replaced, Depth
<1>12. \A i \in 1..Depth : stack'[i].fn = stack[i].fn
  BY <1>2, <1>9, <1>10 DEF Replaced, Depth
<1>13. \A i \in 1..Depth : stack'[i].cls = stack[i].cls
  BY <1>2, <1>9, <1>10 DEF Replaced, Depth
<1>14. /\ \A i \in 1..Depth : i # Depth => stack'[i].obj = stack[i].obj
      /\ stack'[Depth].obj = last
  BY <1>2, <1>9, <1>10 DEF Replaced, Depth
<1>15. /\ \A i \in 1..Depth : i # Depth => stack'[i].phase = stack[i].phase
      /\ stack'[Depth].phase = "read"
  BY <1>2, <1>9, <1>10 DEF Replaced, Depth
<1>16. \A i \in 1..Depth : stack'[i].todo = stack[i].todo
  BY <1>2, <1>9, <1>10 DEF Replaced, Depth
<1>17. /\ \A i \in 1..Depth : i # Depth => stack'[i].dls = stack[i].dls
      /\ stack'[Depth].dls = front
  BY <1>2, <1>9, <1>10 DEF Replaced, Depth
<1>18. \A i \in 1..Depth : Inner(i)' <=> Inner(i)
  BY <1>2, <1>11, <1>13 DEF Inner, Idle
<1>19. \A c \in Classes : Idle(c)' <=> Idle(c)
  BY <1>2, <1>11, <1>13 DEF Inner, Idle
<1>20. \A i \in 1..Depth : Inner(i) /\ stack[i].cls = stack[Depth].cls => i = Depth
  BY <1>2 DEF Inner
<1>21. \A c \in Classes : Idle(c) => c # stack[Depth].cls
  BY <1>2 DEF Idle
<1>22. Typed'
  BY <1>1, <1>2, <1>5, <1>10 DEF Typed, Replaced
<1>23. Bottom'
  BY <1>1, <1>2, <1>5, <1>6, <1>11, <1>12, <1>15 DEF Bottom, Finds, OnTop, Top
<1>24. Finds'
  BY <1>1, <1>2, <1>5, <1>6, <1>11, <1>12, <1>15, <1>17 DEF Finds
<1>25. OnTop'
  <2> SUFFICES ASSUME NEW i \in 1..Depth', NEW k \in 1..Depth', k = i + 1
               PROVE  /\ stack'[i].phase \in {"init", "post", "callback"}
                      /\ stack'[i].phase = "post" <=> stack'[k].fn = "load_delayed"
                      /\ stack'[i].phase = "post" => stack'[k].cls = stack'[i].cls
    BY DEF OnTop
  <2>1. /\ i \in 1..Depth /\ k \in 1..Depth /\ i # Depth
        /\ stack[i].phase \in {"init", "post", "callback"}
        /\ stack[i].phase = "post" <=> stack[k].fn = "load_delayed"
        /\ stack[i].phase = "post" => stack[k].cls = stack[i].cls
    BY <1>1, <1>2, <1>11 DEF OnTop
  <2>2. QED BY <2>1, <1>11, <1>12, <1>13, <1>15
<1>26. Alone'
  BY <1>1, <1>2, <1>5, <1>11, <1>13, <1>15 DEF Alone
<1>27. Locks'
  BY <1>1, <1>2, <1>3, <1>5, <1>11, <1>13, <1>15, <1>18, <1>19, <1>20, <1>21 DEF Locks
<1>28. Delays'
  BY <1>1, <1>2, <1>3, <1>5, <1>11, <1>13, <1>15, <1>18, <1>19, <1>20, <1>21 DEF Delays
<1>29. Holds'
  BY <1>1, <1>2, <1>4, <1>5, <1>7, <1>11, <1>13, <1>14, <1>15 DEF Holds, Busy, Reading,
     Waiting, Unheld
<1>30. Apart'
  BY <1>1, <1>2, <1>4, <1>5, <1>7, <1>11, <1>14, <1>15 DEF Apart, Busy, Holds, Waiting,
     Unheld
<1>31. Waiting'
  BY <1>1, <1>2, <1>3, <1>4, <1>5, <1>7, <1>11, <1>13, <1>14, <1>15, <1>17, SMTT(30)
     DEF Waiting, Unheld, Busy, Reading, Holds, DelayedOf
<1>32. Delayed'
  BY <1>1, <1>2, <1>3, <1>4, <1>5, <1>7, <1>11, <1>14, <1>15 DEF Delayed, Unheld, Busy,
     Reading, Holds, DelayedOf, Waiting
<1>33. Pending'
  BY <1>1, <1>2, <1>4, <1>5, <1>7, <1>11, <1>14, <1>15, <1>17 DEF Pending, Busy, Reading,
     DelayedOf
<1>34. Reached'
  BY <1>1, <1>2, <1>4, <1>5, <1>6, <1>7, <1>11, <1>12, <1>14, <1>15, <1>16 DEF Reached,
     Asked, Busy, Holds, Waiting, Unheld
<1>35. QED BY <1>22, <1>23, <1>24, <1>25, <1>26, <1>27, <1>28, <1>29, <1>30, <1>31, <1>32,
              <1>33, <1>34 DEF IInv, Nesting, OnePlace

\* The row is there.
LEMMA ReadInv ==
  ASSUME IInv, Read
  PROVE  IInv'
<1> DEFINE f == [Top EXCEPT !.phase = "init", !.todo = points[Top.obj]]
<1>1. /\ Typed /\ Nesting /\ Bottom /\ Finds /\ OnTop /\ Alone /\ Locks /\ Delays
      /\ Holds /\ Apart /\ Waiting /\ Delayed /\ Pending /\ Reached
  BY DEF IInv, Nesting, OnePlace
<1>2. /\ Depth \in Nat \ {0} /\ \A i \in 1..Depth : stack[i] \in FrameSet
      /\ stack[Depth] \in FrameSet /\ Top \in FrameSet /\ Top = stack[Depth]
  BY <1>1, TopIsFrame DEF Top, Read
<1>3. \A i \in 1..Depth : stack[i].cls \in Classes
  BY <1>2 DEF FrameSet
<1>4. loaded \subseteq session /\ posted \subseteq loaded
  BY <1>1 DEF Typed
<1>5. /\ UNCHANGED <<points, locked, delayed_, session, loaded, posted, throwing, throws, calls, dangling>>
      /\ Top.phase = "read"
  BY <1>1, <1>2 DEF Read, Top
<1>6. Top.obj \in Objects /\ points[Top.obj] \in SUBSET Objects
  BY <1>1, <1>2, <1>5 DEF Holds, Busy, Typed
<1>7. /\ f \in FrameSet
      /\ f.fn = Top.fn /\ f.cls = Top.cls /\ f.obj = Top.obj
      /\ f.phase = "init" /\ f.todo = points[Top.obj] /\ f.dls = Top.dls
  BY <1>1, <1>2, <1>5, <1>6 DEF FrameSet, Phases, Frame, Typed, Classes, NoObject
<1>8. Replaced(f)
  BY <1>1, <1>2, <1>5, <1>7, ReplacedBySet DEF Read
<1> HIDE DEF f
<1>9. Depth' = Depth
  BY <1>8 DEF Replaced, Depth
<1>10. \A i \in 1..Depth : stack'[i].fn = stack[i].fn
  BY <1>2, <1>7, <1>8 DEF Replaced, Depth
<1>11. \A i \in 1..Depth : stack'[i].cls = stack[i].cls
  BY <1>2, <1>7, <1>8 DEF Replaced, Depth
<1>12. \A i \in 1..Depth : stack'[i].obj = stack[i].obj
  BY <1>2, <1>7, <1>8 DEF Replaced, Depth
<1>13. /\ \A i \in 1..Depth : i # Depth => stack'[i].phase = stack[i].phase
      /\ stack'[Depth].phase = "init"
  BY <1>2, <1>7, <1>8 DEF Replaced, Depth
<1>14. /\ \A i \in 1..Depth : i # Depth => stack'[i].todo = stack[i].todo
      /\ stack'[Depth].todo = points[stack[Depth].obj]
  BY <1>2, <1>7, <1>8 DEF Replaced, Depth
<1>15. \A i \in 1..Depth : stack'[i].dls = stack[i].dls
  BY <1>2, <1>7, <1>8 DEF Replaced, Depth
<1>16. \A i \in 1..Depth : Inner(i)' <=> Inner(i)
  BY <1>2, <1>9, <1>11 DEF Inner, Idle
<1>17. \A c \in Classes : Idle(c)' <=> Idle(c)
  BY <1>2, <1>9, <1>11 DEF Inner, Idle
<1>18. \A i \in 1..Depth : Inner(i) /\ stack[i].cls = stack[Depth].cls => i = Depth
  BY <1>2 DEF Inner
<1>19. \A c \in Classes : Idle(c) => c # stack[Depth].cls
  BY <1>2 DEF Idle
<1>20. Typed'
  BY <1>1, <1>2, <1>5, <1>8 DEF Typed, Replaced
<1>21. Bottom'
  BY <1>1, <1>2, <1>5, <1>9, <1>10, <1>13 DEF Bottom, Finds, OnTop, Top
<1>22. Finds'
  BY <1>1, <1>2, <1>5, <1>9, <1>10, <1>13, <1>15 DEF Finds
<1>23. OnTop'
  <2> SUFFICES ASSUME NEW i \in 1..Depth', NEW k \in 1..Depth', k = i + 1
               PROVE  /\ stack'[i].phase \in {"init", "post", "callback"}
                      /\ stack'[i].phase = "post" <=> stack'[k].fn = "load_delayed"
                      /\ stack'[i].phase = "post" => stack'[k].cls = stack'[i].cls
    BY DEF OnTop
  <2>1. /\ i \in 1..Depth /\ k \in 1..Depth /\ i # Depth
        /\ stack[i].phase \in {"init", "post", "callback"}
        /\ stack[i].phase = "post" <=> stack[k].fn = "load_delayed"
        /\ stack[i].phase = "post" => stack[k].cls = stack[i].cls
    BY <1>1, <1>2, <1>9 DEF OnTop
  <2>2. QED BY <2>1, <1>9, <1>10, <1>11, <1>13
<1>24. Alone'
  BY <1>1, <1>2, <1>5, <1>9, <1>11, <1>13 DEF Alone
<1>25. Locks'
  BY <1>1, <1>2, <1>3, <1>5, <1>9, <1>11, <1>13, <1>16, <1>17, <1>18, <1>19 DEF Locks
<1>26. Delays'
  BY <1>1, <1>2, <1>3, <1>5, <1>9, <1>11, <1>13, <1>16, <1>17, <1>18, <1>19 DEF Delays
<1>27. Holds'
  BY <1>1, <1>2, <1>4, <1>5, <1>9, <1>11, <1>12, <1>13 DEF Holds, Busy, Reading
<1>28. Apart'
  BY <1>1, <1>2, <1>4, <1>5, <1>9, <1>12, <1>13 DEF Apart, Busy, Holds
<1>29. Waiting'
  BY <1>1, <1>2, <1>3, <1>4, <1>5, <1>9, <1>11, <1>12, <1>13, <1>15 DEF Waiting, Unheld,
     Busy, Reading, Holds, DelayedOf
<1>30. Delayed'
  BY <1>1, <1>2, <1>3, <1>4, <1>5, <1>9, <1>12, <1>13 DEF Delayed, Unheld, Busy, Reading,
     Holds, DelayedOf
<1>31. Pending'
  BY <1>1, <1>2, <1>4, <1>5, <1>9, <1>12, <1>13, <1>15 DEF Pending, Busy, Reading, DelayedOf
<1>32. Reached'
  BY <1>1, <1>2, <1>4, <1>5, <1>9, <1>10, <1>12, <1>13, <1>14 DEF Reached, Asked, Busy,
     Holds
<1>33. QED BY <1>20, <1>21, <1>22, <1>23, <1>24, <1>25, <1>26, <1>27, <1>28, <1>29, <1>30,
              <1>31, <1>32 DEF IInv, Nesting, OnePlace

\* No such row, and find() returns null to the application.
LEMMA ReadNothingReturns ==
  ASSUME IInv, ReadNothing, Top.fn = "find", ~Nested
  PROVE  IInv'
<1>1. /\ Typed /\ Nesting /\ Bottom /\ Finds /\ OnTop /\ Alone /\ Locks /\ Delays
      /\ Holds /\ Apart /\ Waiting /\ Delayed /\ Pending /\ Reached
  BY DEF IInv, Nesting, OnePlace
<1>2. /\ Depth \in Nat \ {0} /\ \A i \in 1..Depth : stack[i] \in FrameSet
      /\ stack[Depth] \in FrameSet /\ Top \in FrameSet /\ Top = stack[Depth]
  BY <1>1, TopIsFrame DEF Top, ReadNothing
<1>3. \A i \in 1..Depth : stack[i].cls \in Classes
  BY <1>2 DEF FrameSet
<1>4. loaded \subseteq session /\ posted \subseteq loaded
  BY <1>1 DEF Typed
<1>5. /\ UNCHANGED <<points, delayed_, throwing, throws, calls, dangling>>
      /\ Top.phase = "read" /\ ~throwing /\ Top.fn = "find"
      /\ ~(Depth > 1 /\ stack[Depth - 1].phase = "init")
  BY <1>1, <1>2 DEF ReadNothing, Top, Unlock, Forget, Nested
<1>6. /\ session' = session \ {Top.obj}
      /\ loaded' = loaded \ {Top.obj}
      /\ posted' = posted \ {Top.obj}
  BY <1>1, <1>2, <1>5 DEF ReadNothing, Unlock, Forget, Nested
<1>7. locked' = [locked EXCEPT ![Top.cls] = FALSE]
  BY <1>1, <1>2, <1>5 DEF ReadNothing, Unlock, Forget, Nested
<1>8. Top.cls \in Classes
  BY <1>1, <1>2, <1>5 DEF FrameSet
<1>9. /\ Inner(Depth) /\ Top.dls = <<>>
      /\ \A i \in 1..(Depth - 1) :
           stack[i].cls = Top.cls /\ (\A k \in 1..(Depth - 1) : i < k => stack[k].cls # Top.cls)
             => stack[i].phase = "callback"
  BY <1>1, <1>2, <1>5, <1>6, <1>7, <1>8, UnderFind DEF Inner, Finds
<1>10. delayed_[Top.cls] = <<>>
  BY <1>1, <1>2, <1>5, <1>6, <1>7, <1>8, <1>9 DEF Delays
<1>11. /\ ~locked'[Top.cls] /\ locked' \in [Classes -> BOOLEAN]
      /\ \A c \in Classes \ {Top.cls} : locked'[c] = locked[c]
  BY <1>1, <1>2, <1>5, <1>6, <1>7, <1>8, <1>9, <1>10 DEF Typed
<1>12. Popped
  BY <1>1, <1>2, <1>5, PoppedBelow DEF ReadNothing
<1>13. Depth' = Depth - 1
  BY <1>12 DEF Popped, Depth
<1>14. \A i \in 1..(Depth - 1) : stack'[i].fn = stack[i].fn
  BY <1>2, <1>12 DEF Popped, Depth
<1>15. \A i \in 1..(Depth - 1) : stack'[i].cls = stack[i].cls
  BY <1>2, <1>12 DEF Popped, Depth
<1>16. \A i \in 1..(Depth - 1) : stack'[i].obj = stack[i].obj
  BY <1>2, <1>12 DEF Popped, Depth
<1>17. \A i \in 1..(Depth - 1) : stack'[i].phase = stack[i].phase
  BY <1>2, <1>12 DEF Popped, Depth
<1>18. \A i \in 1..(Depth - 1) : stack'[i].todo = stack[i].todo
  BY <1>2, <1>12 DEF Popped, Depth
<1>19. \A i \in 1..(Depth - 1) : stack'[i].dls = stack[i].dls
  BY <1>2, <1>12 DEF Popped, Depth
<1>20. \A i \in 1..(Depth - 1) : stack[i].cls # stack[Depth].cls /\ Inner(i)' => Inner(i)
  BY <1>2, <1>13, <1>15 DEF Inner, Idle
<1>21. \A c \in Classes : c # stack[Depth].cls /\ Idle(c)' => Idle(c)
  BY <1>2, <1>13, <1>15 DEF Inner, Idle
<1>22. \A i \in 1..(Depth - 1) :
        stack[i].cls = stack[Depth].cls /\ Inner(i)' => stack[i].phase = "callback"
  BY <1>2, <1>13, <1>15, <1>1, <1>2, <1>5, <1>6, <1>7, <1>8, <1>9, <1>10, <1>11 DEF Inner
<1>23. Typed'
  BY <1>1, <1>2, <1>5, <1>6, <1>7, <1>11, <1>12 DEF Typed, Popped
<1>24. Bottom'
  BY <1>1, <1>2, <1>5, <1>8, <1>13, <1>14, <1>17 DEF Bottom, Finds, OnTop, Top
<1>25. Finds'
  BY <1>1, <1>2, <1>5, <1>8, <1>13, <1>14, <1>17, <1>19 DEF Finds
<1>26. OnTop'
  <2> SUFFICES ASSUME NEW i \in 1..Depth', NEW k \in 1..Depth', k = i + 1
               PROVE  /\ stack'[i].phase \in {"init", "post", "callback"}
                      /\ stack'[i].phase = "post" <=> stack'[k].fn = "load_delayed"
                      /\ stack'[i].phase = "post" => stack'[k].cls = stack'[i].cls
    BY DEF OnTop
  <2>1. /\ i \in 1..Depth /\ k \in 1..Depth /\ i # Depth
        /\ stack[i].phase \in {"init", "post", "callback"}
        /\ stack[i].phase = "post" <=> stack[k].fn = "load_delayed"
        /\ stack[i].phase = "post" => stack[k].cls = stack[i].cls
    BY <1>1, <1>2, <1>13 DEF OnTop
  <2>2. QED BY <2>1, <1>13, <1>14, <1>15, <1>17
<1>27. Alone'
  BY <1>1, <1>2, <1>5, <1>8, <1>13, <1>15, <1>17 DEF Alone
<1>28. Locks'
  BY <1>1, <1>2, <1>3, <1>5, <1>8, <1>9, <1>11, <1>13, <1>15, <1>17, <1>20, <1>21, <1>22
     DEF Locks
<1>29. Delays'
  BY <1>1, <1>2, <1>3, <1>5, <1>8, <1>9, <1>10, <1>11, <1>13, <1>15, <1>17, <1>20, <1>21,
     <1>22 DEF Delays
<1>30. Holds'
  BY <1>1, <1>2, <1>4, <1>5, <1>6, <1>8, <1>13, <1>15, <1>16, <1>17 DEF Holds, Busy,
     Reading, Apart, Delayed, Unheld, DelayedOf
<1>31. Apart'
  BY <1>1, <1>2, <1>4, <1>5, <1>6, <1>8, <1>13, <1>16, <1>17 DEF Apart, Busy, Holds
<1>32. Waiting'
  <2>1. \A x : Unheld(x) => Unheld(x)'
    BY <1>2, <1>5, <1>6, <1>13, <1>16, <1>17 DEF Unheld, Busy
  <2>2. \A c \in Classes : DelayedOf(c)' = DelayedOf(c)
    BY <1>5 DEF DelayedOf
  <2>3. \A i \in 1..Depth' :
          i \in 1..Depth /\ stack'[i].dls = stack[i].dls /\ stack'[i].cls = stack[i].cls
    BY <1>2, <1>13, <1>15, <1>19
  <2>4. QED BY <1>1, <1>3, <2>1, <2>2, <2>3 DEF Waiting
<1>33. Delayed'
  BY <1>1, <1>2, <1>3, <1>4, <1>5, <1>6, <1>8, <1>13, <1>16, <1>17 DEF Delayed, Unheld,
     Busy, Reading, Holds, DelayedOf, Waiting
<1>34. Pending'
  BY <1>1, <1>2, <1>4, <1>5, <1>6, <1>8, <1>9, <1>13, <1>16, <1>17, <1>19, MembersOfNone
     DEF Pending, Busy, Reading, DelayedOf, Holds
<1>35. Reached'
  BY <1>1, <1>2, <1>4, <1>5, <1>6, <1>8, <1>13, <1>14, <1>16, <1>17, <1>18 DEF Reached,
     Asked, Busy, Holds
<1>36. QED BY <1>23, <1>24, <1>25, <1>26, <1>27, <1>28, <1>29, <1>30, <1>31, <1>32, <1>33,
              <1>34, <1>35 DEF IInv, Nesting, OnePlace

\* No such row, and object_not_persistent is thrown.
LEMMA ReadNothingThrows ==
  ASSUME IInv, ReadNothing, Top.fn # "find" \/ Nested
  PROVE  IInv'
<1>1. /\ Typed /\ Nesting /\ Bottom /\ Finds /\ OnTop /\ Alone /\ Locks /\ Delays
      /\ Holds /\ Apart /\ Waiting /\ Delayed /\ Pending /\ Reached
  BY DEF IInv, Nesting, OnePlace
<1>2. /\ Depth \in Nat \ {0} /\ \A i \in 1..Depth : stack[i] \in FrameSet
      /\ stack[Depth] \in FrameSet /\ Top \in FrameSet /\ Top = stack[Depth]
  BY <1>1, TopIsFrame DEF Top, ReadNothing
<1>3. \A i \in 1..Depth : stack[i].cls \in Classes
  BY <1>2 DEF FrameSet
<1>4. loaded \subseteq session /\ posted \subseteq loaded
  BY <1>1 DEF Typed
<1>5. /\ UNCHANGED <<points, locked, delayed_, session, loaded, posted, throws, calls, dangling>>
      /\ Top.phase = "read" /\ ~throwing
  BY <1>1, <1>2 DEF ReadNothing, Top, Unlock, Forget, Nested
<1>6. throwing' = TRUE
  BY <1>1, <1>2, <1>5 DEF ReadNothing, Unlock, Forget, Nested
<1>7. stack' = stack /\ Depth' = Depth
  BY <1>1, <1>2, <1>5 DEF ReadNothing, Depth
<1>8. /\ \A i \in 1..Depth : Inner(i)' <=> Inner(i)
      /\ \A c \in Classes : Idle(c)' <=> Idle(c)
  BY <1>7 DEF Inner, Idle
<1>9. Typed'
  BY <1>1, <1>2, <1>5, <1>6, <1>7 DEF Typed
<1>10. Bottom'
  BY <1>1, <1>2, <1>5, <1>6, <1>7 DEF Bottom, Finds, OnTop, Top
<1>11. Finds'
  BY <1>1, <1>2, <1>5, <1>7 DEF Finds
<1>12. OnTop'
  BY <1>1, <1>2, <1>5, <1>7 DEF OnTop, Finds
<1>13. Alone'
  BY <1>1, <1>2, <1>5, <1>7 DEF Alone
<1>14. Locks'
  BY <1>1, <1>2, <1>3, <1>5, <1>7, <1>8 DEF Locks
<1>15. Delays'
  BY <1>1, <1>2, <1>3, <1>5, <1>6, <1>7, <1>8 DEF Delays
<1>16. Holds'
  BY <1>1, <1>2, <1>4, <1>5, <1>7 DEF Holds, Busy, Reading
<1>17. Apart'
  BY <1>1, <1>2, <1>4, <1>5, <1>7 DEF Apart, Busy, Holds
<1>18. Waiting'
  BY <1>1, <1>2, <1>3, <1>4, <1>5, <1>7 DEF Waiting, Unheld, Busy, Reading, Holds, DelayedOf
<1>19. Delayed'
  BY <1>1, <1>2, <1>3, <1>4, <1>5, <1>7 DEF Delayed, Unheld, Busy, Reading, Holds, DelayedOf
<1>20. Pending'
  BY <1>1, <1>2, <1>4, <1>5, <1>7 DEF Pending, Busy, Reading, DelayedOf
<1>21. Reached'
  BY <1>1, <1>2, <1>4, <1>5, <1>7 DEF Reached, Asked, Busy, Holds
<1>22. QED BY <1>9, <1>10, <1>11, <1>12, <1>13, <1>14, <1>15, <1>16, <1>17, <1>18, <1>19,
              <1>20, <1>21 DEF IInv, Nesting, OnePlace

\* A pointer to an object that is in the session.
LEMMA InitPointerKnown ==
  ASSUME IInv, NEW p \in Objects, InitPointer(p), p \in session
  PROVE  IInv'
<1> DEFINE f == [Top EXCEPT !.todo = @ \ {p}]
<1>1. /\ Typed /\ Nesting /\ Bottom /\ Finds /\ OnTop /\ Alone /\ Locks /\ Delays
      /\ Holds /\ Apart /\ Waiting /\ Delayed /\ Pending /\ Reached
  BY DEF IInv, Nesting, OnePlace
<1>2. /\ Depth \in Nat \ {0} /\ \A i \in 1..Depth : stack[i] \in FrameSet
      /\ stack[Depth] \in FrameSet /\ Top \in FrameSet /\ Top = stack[Depth]
  BY <1>1, TopIsFrame DEF Top, InitPointer
<1>3. \A i \in 1..Depth : stack[i].cls \in Classes
  BY <1>2 DEF FrameSet
<1>4. loaded \subseteq session /\ posted \subseteq loaded
  BY <1>1 DEF Typed
<1>5. /\ UNCHANGED <<points, locked, delayed_, loaded, posted, throwing, throws, calls, dangling>>
      /\ Top.phase = "init" /\ ~throwing /\ p \in session
  BY <1>1, <1>2 DEF InitPointer, Top, Lock, DelayLoad
<1>6. session' = session
  BY <1>1, <1>2, <1>5 DEF InitPointer, Lock, DelayLoad
<1>7. \A k \in 1..Depth : stack[k].phase # "read"
  BY <1>1, <1>2, <1>5 DEF OnTop
<1>8. /\ f \in FrameSet
      /\ f.fn = Top.fn /\ f.cls = Top.cls /\ f.obj = Top.obj
      /\ f.phase = Top.phase /\ f.todo = Top.todo \ {p} /\ f.dls = Top.dls
  BY <1>1, <1>2, <1>5, <1>6, <1>7 DEF FrameSet, Phases, Frame, Typed, Classes, NoObject
<1>9. Replaced(f)
  BY <1>1, <1>2, <1>5, <1>8, ReplacedBySet DEF InitPointer
<1> HIDE DEF f
<1>10. Depth' = Depth
  BY <1>9 DEF Replaced, Depth
<1>11. \A i \in 1..Depth : stack'[i].fn = stack[i].fn
  BY <1>2, <1>8, <1>9 DEF Replaced, Depth
<1>12. \A i \in 1..Depth : stack'[i].cls = stack[i].cls
  BY <1>2, <1>8, <1>9 DEF Replaced, Depth
<1>13. \A i \in 1..Depth : stack'[i].obj = stack[i].obj
  BY <1>2, <1>8, <1>9 DEF Replaced, Depth
<1>14. \A i \in 1..Depth : stack'[i].phase = stack[i].phase
  BY <1>2, <1>8, <1>9 DEF Replaced, Depth
<1>15. /\ \A i \in 1..Depth : i # Depth => stack'[i].todo = stack[i].todo
      /\ stack'[Depth].todo = stack[Depth].todo \ {p}
  BY <1>2, <1>8, <1>9 DEF Replaced, Depth
<1>16. \A i \in 1..Depth : stack'[i].dls = stack[i].dls
  BY <1>2, <1>8, <1>9 DEF Replaced, Depth
<1>17. \A i \in 1..Depth : Inner(i)' <=> Inner(i)
  BY <1>2, <1>10, <1>12 DEF Inner, Idle
<1>18. \A c \in Classes : Idle(c)' <=> Idle(c)
  BY <1>2, <1>10, <1>12 DEF Inner, Idle
<1>19. \A i \in 1..Depth : Inner(i) /\ stack[i].cls = stack[Depth].cls => i = Depth
  BY <1>2 DEF Inner
<1>20. \A c \in Classes : Idle(c) => c # stack[Depth].cls
  BY <1>2 DEF Idle
<1>21. Typed'
  BY <1>1, <1>2, <1>5, <1>6, <1>9 DEF Typed, Replaced
<1>22. Bottom'
  BY <1>1, <1>2, <1>5, <1>10, <1>11, <1>14 DEF Bottom, Finds, OnTop, Top
<1>23. Finds'
  BY <1>1, <1>2, <1>5, <1>10, <1>11, <1>14, <1>16 DEF Finds
<1>24. OnTop'
  <2> SUFFICES ASSUME NEW i \in 1..Depth', NEW k \in 1..Depth', k = i + 1
               PROVE  /\ stack'[i].phase \in {"init", "post", "callback"}
                      /\ stack'[i].phase = "post" <=> stack'[k].fn = "load_delayed"
                      /\ stack'[i].phase = "post" => stack'[k].cls = stack'[i].cls
    BY DEF OnTop
  <2>1. /\ i \in 1..Depth /\ k \in 1..Depth /\ i # Depth
        /\ stack[i].phase \in {"init", "post", "callback"}
        /\ stack[i].phase = "post" <=> stack[k].fn = "load_delayed"
        /\ stack[i].phase = "post" => stack[k].cls = stack[i].cls
    BY <1>1, <1>2, <1>10 DEF OnTop
  <2>2. QED BY <2>1, <1>10, <1>11, <1>12, <1>14
<1>25. Alone'
  BY <1>1, <1>2, <1>5, <1>10, <1>12, <1>14 DEF Alone
<1>26. Locks'
  BY <1>1, <1>2, <1>3, <1>5, <1>10, <1>12, <1>14, <1>17, <1>18, <1>19, <1>20 DEF Locks
<1>27. Delays'
  BY <1>1, <1>2, <1>3, <1>5, <1>10, <1>12, <1>14, <1>17, <1>18, <1>19, <1>20 DEF Delays
<1>28. Holds'
  BY <1>1, <1>2, <1>4, <1>5, <1>6, <1>10, <1>12, <1>13, <1>14 DEF Holds, Busy, Reading
<1>29. Apart'
  BY <1>1, <1>2, <1>4, <1>5, <1>6, <1>10, <1>13, <1>14 DEF Apart, Busy, Holds
<1>30. Waiting'
  BY <1>1, <1>2, <1>3, <1>4, <1>5, <1>6, <1>10, <1>12, <1>13, <1>14, <1>16 DEF Waiting,
     Unheld, Busy, Reading, Holds, DelayedOf
<1>31. Delayed'
  BY <1>1, <1>2, <1>3, <1>4, <1>5, <1>6, <1>10, <1>13, <1>14 DEF Delayed, Unheld, Busy,
     Reading, Holds, DelayedOf
<1>32. Pending'
  BY <1>1, <1>2, <1>4, <1>5, <1>6, <1>10, <1>13, <1>14, <1>16 DEF Pending, Busy, Reading,
     DelayedOf
<1>33. Reached'
  BY <1>1, <1>2, <1>4, <1>5, <1>6, <1>7, <1>10, <1>11, <1>13, <1>14, <1>15 DEF Reached,
     Asked, Busy, Holds
<1>34. QED BY <1>21, <1>22, <1>23, <1>24, <1>25, <1>26, <1>27, <1>28, <1>29, <1>30, <1>31,
              <1>32, <1>33 DEF IInv, Nesting, OnePlace

\* A pointer to an object whose loading is put off.
LEMMA InitPointerDelays ==
  ASSUME IInv, NEW p \in Objects, InitPointer(p), p \notin session, locked[ClassOf[p]]
  PROVE  IInv'
<1> DEFINE f == [Top EXCEPT !.todo = @ \ {p}]
<1>1. /\ Typed /\ Nesting /\ Bottom /\ Finds /\ OnTop /\ Alone /\ Locks /\ Delays
      /\ Holds /\ Apart /\ Waiting /\ Delayed /\ Pending /\ Reached
  BY DEF IInv, Nesting, OnePlace
<1>2. /\ Depth \in Nat \ {0} /\ \A i \in 1..Depth : stack[i] \in FrameSet
      /\ stack[Depth] \in FrameSet /\ Top \in FrameSet /\ Top = stack[Depth]
  BY <1>1, TopIsFrame DEF Top, InitPointer
<1>3. \A i \in 1..Depth : stack[i].cls \in Classes
  BY <1>2 DEF FrameSet
<1>4. loaded \subseteq session /\ posted \subseteq loaded
  BY <1>1 DEF Typed
<1>5. /\ UNCHANGED <<points, locked, loaded, posted, throwing, throws, calls, dangling>>
      /\ Top.phase = "init" /\ ~throwing /\ p \notin session /\ locked[ClassOf[p]]
  BY <1>1, <1>2 DEF InitPointer, Top, Lock, DelayLoad
<1>6. session' = session \cup {p}
  BY <1>1, <1>2, <1>5 DEF InitPointer, Lock, DelayLoad
<1>7. delayed_' = [delayed_ EXCEPT ![ClassOf[p]] = Append(@, p)]
  BY <1>1, <1>2, <1>5 DEF InitPointer, Lock, DelayLoad
<1>8. ClassOf[p] \in Classes
  BY <1>1, <1>2, <1>5, DelayedLoadingAssumption DEF Classes
<1>9. /\ delayed_'[ClassOf[p]] = Append(delayed_[ClassOf[p]], p)
      /\ \A c \in Classes \ {ClassOf[p]} : delayed_'[c] = delayed_[c]
      /\ delayed_' \in [Classes -> Seq(Objects)]
  BY <1>1, <1>2, <1>5, <1>6, <1>7, <1>8, MembersOfAppend DEF Typed
<1>10. \A c \in Classes \ {ClassOf[p]} : /\ DelayedOf(c)' = DelayedOf(c)
                                          /\ delayed_'[c] = delayed_[c]
  BY <1>9 DEF DelayedOf
<1>11. /\ \A q : q \in DelayedOf(ClassOf[p])' <=> q \in DelayedOf(ClassOf[p]) \/ q = p
      /\ Distinct(delayed_'[ClassOf[p]])
  BY <1>1, <1>2, <1>5, <1>6, <1>7, <1>8, <1>9, <1>10, MembersOfAppend DEF Typed, Delayed,
     Unheld, DelayedOf
<1>12. /\ ~Idle(ClassOf[p])
      /\ \A i \in 1..Depth : Inner(i) /\ stack[i].cls = ClassOf[p] => stack[i].phase = "init"
  BY <1>1, <1>2, <1>5, <1>6, <1>7, <1>8, <1>9, <1>10, <1>11, LockedClass
<1>13. /\ f \in FrameSet
      /\ f.fn = Top.fn /\ f.cls = Top.cls /\ f.obj = Top.obj
      /\ f.phase = Top.phase /\ f.todo = Top.todo \ {p} /\ f.dls = Top.dls
  BY <1>1, <1>2, <1>5, <1>6, <1>7, <1>8, <1>9, <1>10, <1>11, <1>12 DEF FrameSet, Phases,
     Frame, Typed, Classes, NoObject
<1>14. Replaced(f)
  BY <1>1, <1>2, <1>5, <1>13, ReplacedBySet DEF InitPointer
<1> HIDE DEF f
<1>15. Depth' = Depth
  BY <1>14 DEF Replaced, Depth
<1>16. \A i \in 1..Depth : stack'[i].fn = stack[i].fn
  BY <1>2, <1>13, <1>14 DEF Replaced, Depth
<1>17. \A i \in 1..Depth : stack'[i].cls = stack[i].cls
  BY <1>2, <1>13, <1>14 DEF Replaced, Depth
<1>18. \A i \in 1..Depth : stack'[i].obj = stack[i].obj
  BY <1>2, <1>13, <1>14 DEF Replaced, Depth
<1>19. \A i \in 1..Depth : stack'[i].phase = stack[i].phase
  BY <1>2, <1>13, <1>14 DEF Replaced, Depth
<1>20. /\ \A i \in 1..Depth : i # Depth => stack'[i].todo = stack[i].todo
      /\ stack'[Depth].todo = stack[Depth].todo \ {p}
  BY <1>2, <1>13, <1>14 DEF Replaced, Depth
<1>21. \A i \in 1..Depth : stack'[i].dls = stack[i].dls
  BY <1>2, <1>13, <1>14 DEF Replaced, Depth
<1>22. \A i \in 1..Depth : Inner(i)' <=> Inner(i)
  BY <1>2, <1>15, <1>17 DEF Inner, Idle
<1>23. \A c \in Classes : Idle(c)' <=> Idle(c)
  BY <1>2, <1>15, <1>17 DEF Inner, Idle
<1>24. \A i \in 1..Depth : Inner(i) /\ stack[i].cls = stack[Depth].cls => i = Depth
  BY <1>2 DEF Inner
<1>25. \A c \in Classes : Idle(c) => c # stack[Depth].cls
  BY <1>2 DEF Idle
<1>26. Typed'
  BY <1>1, <1>2, <1>5, <1>6, <1>7, <1>9, <1>14 DEF Typed, Replaced
<1>27. Bottom'
  BY <1>1, <1>2, <1>5, <1>8, <1>15, <1>16, <1>19 DEF Bottom, Finds, OnTop, Top
<1>28. Finds'
  BY <1>1, <1>2, <1>5, <1>8, <1>15, <1>16, <1>19, <1>21 DEF Finds
<1>29. OnTop'
  <2> SUFFICES ASSUME NEW i \in 1..Depth', NEW k \in 1..Depth', k = i + 1
               PROVE  /\ stack'[i].phase \in {"init", "post", "callback"}
                      /\ stack'[i].phase = "post" <=> stack'[k].fn = "load_delayed"
                      /\ stack'[i].phase = "post" => stack'[k].cls = stack'[i].cls
    BY DEF OnTop
  <2>1. /\ i \in 1..Depth /\ k \in 1..Depth /\ i # Depth
        /\ stack[i].phase \in {"init", "post", "callback"}
        /\ stack[i].phase = "post" <=> stack[k].fn = "load_delayed"
        /\ stack[i].phase = "post" => stack[k].cls = stack[i].cls
    BY <1>1, <1>2, <1>15 DEF OnTop
  <2>2. QED BY <2>1, <1>15, <1>16, <1>17, <1>19
<1>30. Alone'
  BY <1>1, <1>2, <1>5, <1>8, <1>15, <1>17, <1>19 DEF Alone
<1>31. Locks'
  BY <1>1, <1>2, <1>3, <1>5, <1>8, <1>15, <1>17, <1>19, <1>22, <1>23, <1>24, <1>25 DEF Locks
<1>32. Delays'
  BY <1>1, <1>2, <1>3, <1>5, <1>8, <1>10, <1>12, <1>15, <1>17, <1>19, <1>22, <1>23, <1>24,
     <1>25 DEF Delays
<1>33. Holds'
  BY <1>1, <1>2, <1>4, <1>5, <1>6, <1>8, <1>15, <1>17, <1>18, <1>19 DEF Holds, Busy, Reading
<1>34. Apart'
  BY <1>1, <1>2, <1>4, <1>5, <1>6, <1>8, <1>15, <1>18, <1>19 DEF Apart, Busy, Holds
<1>35. Waiting'
  BY <1>1, <1>2, <1>3, <1>4, <1>5, <1>6, <1>8, <1>10, <1>11, <1>15, <1>17, <1>18, <1>19,
     <1>21 DEF Waiting, Unheld, Busy, Reading, Holds, DelayedOf
<1>36. Delayed'
  BY <1>1, <1>2, <1>3, <1>4, <1>5, <1>6, <1>8, <1>10, <1>11, <1>15, <1>18, <1>19
     DEF Delayed, Unheld, Busy, Reading, Holds, DelayedOf
<1>37. Pending'
  BY <1>1, <1>2, <1>4, <1>5, <1>6, <1>8, <1>10, <1>11, <1>15, <1>18, <1>19, <1>21
     DEF Pending, Busy, Reading, DelayedOf
<1>38. Reached'
  BY <1>1, <1>2, <1>4, <1>5, <1>6, <1>8, <1>15, <1>16, <1>18, <1>19, <1>20 DEF Reached,
     Asked, Busy, Holds
<1>39. QED BY <1>26, <1>27, <1>28, <1>29, <1>30, <1>31, <1>32, <1>33, <1>34, <1>35, <1>36,
              <1>37, <1>38 DEF IInv, Nesting, OnePlace

\* A pointer to an object that is loaded at once.
LEMMA InitPointerLoads ==
  ASSUME IInv, NEW p \in Objects, InitPointer(p), p \notin session, ~locked[ClassOf[p]]
  PROVE  IInv'
<1> DEFINE f == [Top EXCEPT !.todo = @ \ {p}]
           g == Finding(p)
<1>1. /\ Typed /\ Nesting /\ Bottom /\ Finds /\ OnTop /\ Alone /\ Locks /\ Delays
      /\ Holds /\ Apart /\ Waiting /\ Delayed /\ Pending /\ Reached
  BY DEF IInv, Nesting, OnePlace
<1>2. /\ Depth \in Nat \ {0} /\ \A i \in 1..Depth : stack[i] \in FrameSet
      /\ stack[Depth] \in FrameSet /\ Top \in FrameSet /\ Top = stack[Depth]
  BY <1>1, TopIsFrame DEF Top, InitPointer
<1>3. \A i \in 1..Depth : stack[i].cls \in Classes
  BY <1>2 DEF FrameSet
<1>4. loaded \subseteq session /\ posted \subseteq loaded
  BY <1>1 DEF Typed
<1>5. /\ UNCHANGED <<points, delayed_, loaded, posted, throwing, throws, calls, dangling>>
      /\ Top.phase = "init" /\ ~throwing /\ p \notin session /\ ~locked[ClassOf[p]]
  BY <1>1, <1>2 DEF InitPointer, Top, Lock, DelayLoad
<1>6. session' = session \cup {p}
  BY <1>1, <1>2, <1>5 DEF InitPointer, Lock, DelayLoad
<1>7. locked' = [locked EXCEPT ![ClassOf[p]] = TRUE]
  BY <1>1, <1>2, <1>5 DEF InitPointer, Lock, DelayLoad
<1>8. ClassOf[p] \in Classes
  BY <1>1, <1>2, <1>5, DelayedLoadingAssumption DEF Classes
<1>9. \A i \in 1..Depth : stack[i].cls = ClassOf[p] => stack[i].phase # "init"
  BY <1>1, <1>2, <1>5, <1>6, <1>7, <1>8, UnlockedClass
<1>10. delayed_[ClassOf[p]] = <<>>
  BY <1>1, <1>2, <1>5, <1>6, <1>7, <1>8, <1>9 DEF Delays
<1>11. /\ locked'[ClassOf[p]] /\ locked' \in [Classes -> BOOLEAN]
      /\ \A c \in Classes \ {ClassOf[p]} : locked'[c] = locked[c]
  BY <1>1, <1>2, <1>5, <1>6, <1>7, <1>8, <1>9, <1>10 DEF Typed
<1>12. /\ f \in FrameSet
      /\ f.fn = Top.fn /\ f.cls = Top.cls /\ f.obj = Top.obj
      /\ f.phase = Top.phase /\ f.todo = Top.todo \ {p} /\ f.dls = Top.dls
  BY <1>1, <1>2, <1>5, <1>6, <1>7, <1>8, <1>9, <1>10, <1>11 DEF FrameSet, Phases, Frame,
     Typed, Classes, NoObject
<1>13. /\ g \in FrameSet
      /\ g.fn = "find" /\ g.cls = ClassOf[p] /\ g.obj = p
      /\ g.phase = "read" /\ g.todo = {} /\ g.dls = <<>>
  BY <1>1, <1>2, <1>5, <1>6, <1>7, <1>8, <1>9, <1>10, <1>11, FindingIsFrame DEF FrameSet,
     Phases, Frame, Typed, Classes, NoObject
<1>14. Nests(f, g)
  BY <1>1, <1>2, <1>5, <1>12, <1>13, NestsByAppend DEF InitPointer
<1> HIDE DEF f, g
<1>15. Depth' = Depth + 1
  BY <1>14 DEF Nests, Depth
<1>16. /\ \A i \in 1..Depth : stack'[i].fn = stack[i].fn
      /\ stack'[Depth + 1].fn = "find"
  BY <1>2, <1>12, <1>13, <1>14 DEF Nests, Depth
<1>17. /\ \A i \in 1..Depth : stack'[i].cls = stack[i].cls
      /\ stack'[Depth + 1].cls = ClassOf[p]
  BY <1>2, <1>12, <1>13, <1>14 DEF Nests, Depth
<1>18. /\ \A i \in 1..Depth : stack'[i].obj = stack[i].obj
      /\ stack'[Depth + 1].obj = p
  BY <1>2, <1>12, <1>13, <1>14 DEF Nests, Depth
<1>19. /\ \A i \in 1..Depth : stack'[i].phase = stack[i].phase
      /\ stack'[Depth + 1].phase = "read"
  BY <1>2, <1>12, <1>13, <1>14 DEF Nests, Depth
<1>20. /\ \A i \in 1..Depth : i # Depth => stack'[i].todo = stack[i].todo
      /\ stack'[Depth].todo = stack[Depth].todo \ {p}
      /\ stack'[Depth + 1].todo = {}
  BY <1>2, <1>12, <1>13, <1>14 DEF Nests, Depth
<1>21. /\ \A i \in 1..Depth : stack'[i].dls = stack[i].dls
      /\ stack'[Depth + 1].dls = <<>>
  BY <1>2, <1>12, <1>13, <1>14 DEF Nests, Depth
<1>22. \A i \in 1..Depth : Inner(i)' => Inner(i) /\ stack[i].cls # ClassOf[p]
  BY <1>2, <1>15, <1>17 DEF Inner, Idle
<1>23. \A c \in Classes : Idle(c)' => Idle(c) /\ c # ClassOf[p]
  BY <1>2, <1>15, <1>17 DEF Inner, Idle
<1>24. Inner(Depth + 1)'
  BY <1>2, <1>15, <1>17 DEF Inner, Idle
<1>25. Typed'
  BY <1>1, <1>2, <1>5, <1>6, <1>7, <1>11, <1>14 DEF Typed, Nests
<1>26. Bottom'
  BY <1>1, <1>2, <1>5, <1>8, <1>15, <1>16, <1>19 DEF Bottom, Finds, OnTop, Top
<1>27. Finds'
  BY <1>1, <1>2, <1>5, <1>8, <1>15, <1>16, <1>19, <1>21 DEF Finds
<1>28. OnTop'
  <2> SUFFICES ASSUME NEW i \in 1..Depth', NEW k \in 1..Depth', k = i + 1
               PROVE  /\ stack'[i].phase \in {"init", "post", "callback"}
                      /\ stack'[i].phase = "post" <=> stack'[k].fn = "load_delayed"
                      /\ stack'[i].phase = "post" => stack'[k].cls = stack'[i].cls
    BY DEF OnTop
  <2>1. CASE k = Depth'
    BY <2>1, <1>1, <1>2, <1>5, <1>8, <1>15, <1>16, <1>17, <1>19 DEF OnTop, Finds
  <2>2. CASE k # Depth'
    BY <2>2, <1>1, <1>2, <1>5, <1>8, <1>15, <1>16, <1>17, <1>19 DEF OnTop, Finds
  <2>3. QED BY <2>1, <2>2
<1>29. Alone'
  BY <1>1, <1>2, <1>5, <1>8, <1>9, <1>15, <1>17, <1>19 DEF Alone
<1>30. Locks'
  BY <1>1, <1>2, <1>3, <1>5, <1>8, <1>11, <1>15, <1>17, <1>19, <1>22, <1>23, <1>24 DEF Locks
<1>31. Delays'
  BY <1>1, <1>2, <1>3, <1>5, <1>8, <1>9, <1>10, <1>11, <1>15, <1>17, <1>19, <1>22, <1>23,
     <1>24 DEF Delays
<1>32. Holds'
  BY <1>1, <1>2, <1>4, <1>5, <1>6, <1>8, <1>15, <1>17, <1>18, <1>19 DEF Holds, Busy, Reading
<1>33. Apart'
  BY <1>1, <1>2, <1>4, <1>5, <1>6, <1>8, <1>15, <1>18, <1>19 DEF Apart, Busy, Holds
<1>34. Waiting'
  <2>1. ASSUME NEW i \in 1..Depth'
        PROVE  /\ Distinct(stack'[i].dls)
               /\ \A o \in Members(stack'[i].dls) :
                    /\ Unheld(o)' /\ ClassOf[o] = stack'[i].cls
                    /\ \A k \in 1..Depth' : o \in Members(stack'[k].dls) => k = i
                    /\ o \notin DelayedOf(ClassOf[o])'
    <3>1. CASE i = Depth + 1
      BY <1>21, <3>1, MembersOfNone
    <3>2. CASE i # Depth + 1
      <4>1. i \in 1..Depth /\ stack'[i].dls = stack[i].dls /\ stack'[i].cls = stack[i].cls
        BY <1>2, <1>15, <1>17, <1>21, <3>2
      <4>2. Distinct(stack'[i].dls)
        BY <1>1, <4>1 DEF Waiting
      <4>3. ASSUME NEW o \in Members(stack'[i].dls)
            PROVE  /\ Unheld(o)' /\ ClassOf[o] = stack'[i].cls
                   /\ \A k \in 1..Depth' : o \in Members(stack'[k].dls) => k = i
                   /\ o \notin DelayedOf(ClassOf[o])'
        <5>1. /\ Unheld(o) /\ ClassOf[o] = stack[i].cls
              /\ \A k \in 1..Depth : o \in Members(stack[k].dls) => k = i
              /\ o \notin DelayedOf(ClassOf[o])
          BY <1>1, <4>1, <4>3 DEF Waiting
        <5>2. o # p
          BY <1>5, <5>1 DEF Unheld
        <5>3. Unheld(o)'
          BY <1>2, <1>5, <1>6, <1>15, <1>18, <1>19, <5>1, <5>2 DEF Unheld, Busy
        <5>4. \A k \in 1..Depth' : o \in Members(stack'[k].dls) => k = i
          BY <1>2, <1>15, <1>21, <5>1, MembersOfNone
        <5>5. o \notin DelayedOf(ClassOf[o])'
          BY <1>5, <5>1 DEF DelayedOf
        <5>6. QED BY <4>1, <5>1, <5>3, <5>4, <5>5
      <4>4. QED BY <4>2, <4>3
    <3>3. QED BY <3>1, <3>2
  <2>2. QED BY <2>1 DEF Waiting
<1>35. Delayed'
  BY <1>1, <1>2, <1>3, <1>4, <1>5, <1>6, <1>8, <1>15, <1>18, <1>19 DEF Delayed, Unheld,
     Busy, Reading, Holds, DelayedOf
<1>36. Pending'
  BY <1>1, <1>2, <1>4, <1>5, <1>6, <1>8, <1>15, <1>18, <1>19, <1>21 DEF Pending, Busy,
     Reading, DelayedOf
<1>37. Reached'
  BY <1>1, <1>2, <1>4, <1>5, <1>6, <1>8, <1>15, <1>16, <1>18, <1>19, <1>20 DEF Reached,
     Asked, Busy, Holds
<1>38. QED BY <1>25, <1>26, <1>27, <1>28, <1>29, <1>30, <1>31, <1>32, <1>33, <1>34, <1>35,
              <1>36, <1>37 DEF IInv, Nesting, OnePlace

\* The last pointer has been reached: the object is loaded.
LEMMA InitDoneInv ==
  ASSUME IInv, InitDone
  PROVE  IInv'
<1> DEFINE f == [Top EXCEPT !.phase = "delayed"]
<1>1. /\ Typed /\ Nesting /\ Bottom /\ Finds /\ OnTop /\ Alone /\ Locks /\ Delays
      /\ Holds /\ Apart /\ Waiting /\ Delayed /\ Pending /\ Reached
  BY DEF IInv, Nesting, OnePlace
<1>2. /\ Depth \in Nat \ {0} /\ \A i \in 1..Depth : stack[i] \in FrameSet
      /\ stack[Depth] \in FrameSet /\ Top \in FrameSet /\ Top = stack[Depth]
  BY <1>1, TopIsFrame DEF Top, InitDone
<1>3. \A i \in 1..Depth : stack[i].cls \in Classes
  BY <1>2 DEF FrameSet
<1>4. loaded \subseteq session /\ posted \subseteq loaded
  BY <1>1 DEF Typed
<1>5. /\ UNCHANGED <<points, locked, delayed_, session, posted, throwing, throws, calls, dangling>>
      /\ Top.phase = "init" /\ Top.todo = {}
  BY <1>1, <1>2 DEF InitDone, Top
<1>6. loaded' = loaded \cup {Top.obj}
  BY <1>1, <1>2, <1>5 DEF InitDone
<1>7. Top.obj \in session /\ Top.obj \notin loaded
  BY <1>1, <1>2, <1>5 DEF Holds, Busy, Reading
<1>8. /\ f \in FrameSet
      /\ f.fn = Top.fn /\ f.cls = Top.cls /\ f.obj = Top.obj
      /\ f.phase = "delayed" /\ f.todo = Top.todo /\ f.dls = Top.dls
  BY <1>1, <1>2, <1>5, <1>6, <1>7 DEF FrameSet, Phases, Frame, Typed, Classes, NoObject
<1>9. Replaced(f)
  BY <1>1, <1>2, <1>5, <1>8, ReplacedBySet DEF InitDone
<1> HIDE DEF f
<1>10. Depth' = Depth
  BY <1>9 DEF Replaced, Depth
<1>11. \A i \in 1..Depth : stack'[i].fn = stack[i].fn
  BY <1>2, <1>8, <1>9 DEF Replaced, Depth
<1>12. \A i \in 1..Depth : stack'[i].cls = stack[i].cls
  BY <1>2, <1>8, <1>9 DEF Replaced, Depth
<1>13. \A i \in 1..Depth : stack'[i].obj = stack[i].obj
  BY <1>2, <1>8, <1>9 DEF Replaced, Depth
<1>14. /\ \A i \in 1..Depth : i # Depth => stack'[i].phase = stack[i].phase
      /\ stack'[Depth].phase = "delayed"
  BY <1>2, <1>8, <1>9 DEF Replaced, Depth
<1>15. \A i \in 1..Depth : stack'[i].todo = stack[i].todo
  BY <1>2, <1>8, <1>9 DEF Replaced, Depth
<1>16. \A i \in 1..Depth : stack'[i].dls = stack[i].dls
  BY <1>2, <1>8, <1>9 DEF Replaced, Depth
<1>17. \A i \in 1..Depth : Inner(i)' <=> Inner(i)
  BY <1>2, <1>10, <1>12 DEF Inner, Idle
<1>18. \A c \in Classes : Idle(c)' <=> Idle(c)
  BY <1>2, <1>10, <1>12 DEF Inner, Idle
<1>19. \A i \in 1..Depth : Inner(i) /\ stack[i].cls = stack[Depth].cls => i = Depth
  BY <1>2 DEF Inner
<1>20. \A c \in Classes : Idle(c) => c # stack[Depth].cls
  BY <1>2 DEF Idle
<1>21. Typed'
  BY <1>1, <1>2, <1>5, <1>6, <1>7, <1>9 DEF Typed, Replaced
<1>22. Bottom'
  BY <1>1, <1>2, <1>5, <1>10, <1>11, <1>14 DEF Bottom, Finds, OnTop, Top
<1>23. Finds'
  BY <1>1, <1>2, <1>5, <1>10, <1>11, <1>14, <1>16 DEF Finds
<1>24. OnTop'
  <2> SUFFICES ASSUME NEW i \in 1..Depth', NEW k \in 1..Depth', k = i + 1
               PROVE  /\ stack'[i].phase \in {"init", "post", "callback"}
                      /\ stack'[i].phase = "post" <=> stack'[k].fn = "load_delayed"
                      /\ stack'[i].phase = "post" => stack'[k].cls = stack'[i].cls
    BY DEF OnTop
  <2>1. /\ i \in 1..Depth /\ k \in 1..Depth /\ i # Depth
        /\ stack[i].phase \in {"init", "post", "callback"}
        /\ stack[i].phase = "post" <=> stack[k].fn = "load_delayed"
        /\ stack[i].phase = "post" => stack[k].cls = stack[i].cls
    BY <1>1, <1>2, <1>10 DEF OnTop
  <2>2. QED BY <2>1, <1>10, <1>11, <1>12, <1>14
<1>25. Alone'
  BY <1>1, <1>2, <1>5, <1>10, <1>12, <1>14 DEF Alone
<1>26. Locks'
  BY <1>1, <1>2, <1>3, <1>5, <1>10, <1>12, <1>14, <1>17, <1>18, <1>19, <1>20 DEF Locks
<1>27. Delays'
  BY <1>1, <1>2, <1>3, <1>5, <1>10, <1>12, <1>14, <1>17, <1>18, <1>19, <1>20 DEF Delays
<1>28. Holds'
  BY <1>1, <1>2, <1>4, <1>5, <1>6, <1>7, <1>10, <1>12, <1>13, <1>14 DEF Holds, Busy,
     Reading, Apart
<1>29. Apart'
  BY <1>1, <1>2, <1>4, <1>5, <1>6, <1>7, <1>10, <1>13, <1>14 DEF Apart, Busy, Holds
<1>30. Waiting'
  BY <1>1, <1>2, <1>3, <1>4, <1>5, <1>6, <1>7, <1>10, <1>12, <1>13, <1>14, <1>16
     DEF Waiting, Unheld, Busy, Reading, Holds, DelayedOf
<1>31. Delayed'
  BY <1>1, <1>2, <1>3, <1>4, <1>5, <1>6, <1>7, <1>10, <1>13, <1>14 DEF Delayed, Unheld,
     Busy, Reading, Holds, DelayedOf
<1>32. Pending'
  BY <1>1, <1>2, <1>4, <1>5, <1>6, <1>7, <1>10, <1>13, <1>14, <1>16 DEF Pending, Busy,
     Reading, DelayedOf
<1>33. Reached'
  BY <1>1, <1>2, <1>4, <1>5, <1>6, <1>7, <1>10, <1>11, <1>13, <1>14, <1>15 DEF Reached,
     Asked, Busy, Holds
<1>34. QED BY <1>21, <1>22, <1>23, <1>24, <1>25, <1>26, <1>27, <1>28, <1>29, <1>30, <1>31,
              <1>32, <1>33 DEF IInv, Nesting, OnePlace

\* Nothing was delayed.
LEMMA LoadDelayedNone ==
  ASSUME IInv, LoadDelayed, delayed_[Top.cls] = <<>>
  PROVE  IInv'
<1> DEFINE f == [Top EXCEPT !.phase = "post"]
<1>1. /\ Typed /\ Nesting /\ Bottom /\ Finds /\ OnTop /\ Alone /\ Locks /\ Delays
      /\ Holds /\ Apart /\ Waiting /\ Delayed /\ Pending /\ Reached
  BY DEF IInv, Nesting, OnePlace
<1>2. /\ Depth \in Nat \ {0} /\ \A i \in 1..Depth : stack[i] \in FrameSet
      /\ stack[Depth] \in FrameSet /\ Top \in FrameSet /\ Top = stack[Depth]
  BY <1>1, TopIsFrame DEF Top, LoadDelayed
<1>3. \A i \in 1..Depth : stack[i].cls \in Classes
  BY <1>2 DEF FrameSet
<1>4. loaded \subseteq session /\ posted \subseteq loaded
  BY <1>1 DEF Typed
<1>5. /\ UNCHANGED <<points, locked, delayed_, session, loaded, posted, throwing, throws, calls, dangling>>
      /\ Top.phase = "delayed" /\ ~throwing /\ delayed_[Top.cls] = <<>>
  BY <1>1, <1>2 DEF LoadDelayed, Top, ClearDelayed
<1>6. /\ f \in FrameSet
      /\ f.fn = Top.fn /\ f.cls = Top.cls /\ f.obj = Top.obj
      /\ f.phase = "post" /\ f.todo = Top.todo /\ f.dls = Top.dls
  BY <1>1, <1>2, <1>5 DEF FrameSet, Phases, Frame, Typed, Classes, NoObject
<1>7. Replaced(f)
  BY <1>1, <1>2, <1>5, <1>6, ReplacedBySet DEF LoadDelayed
<1> HIDE DEF f
<1>8. Depth' = Depth
  BY <1>7 DEF Replaced, Depth
<1>9. \A i \in 1..Depth : stack'[i].fn = stack[i].fn
  BY <1>2, <1>6, <1>7 DEF Replaced, Depth
<1>10. \A i \in 1..Depth : stack'[i].cls = stack[i].cls
  BY <1>2, <1>6, <1>7 DEF Replaced, Depth
<1>11. \A i \in 1..Depth : stack'[i].obj = stack[i].obj
  BY <1>2, <1>6, <1>7 DEF Replaced, Depth
<1>12. /\ \A i \in 1..Depth : i # Depth => stack'[i].phase = stack[i].phase
      /\ stack'[Depth].phase = "post"
  BY <1>2, <1>6, <1>7 DEF Replaced, Depth
<1>13. \A i \in 1..Depth : stack'[i].todo = stack[i].todo
  BY <1>2, <1>6, <1>7 DEF Replaced, Depth
<1>14. \A i \in 1..Depth : stack'[i].dls = stack[i].dls
  BY <1>2, <1>6, <1>7 DEF Replaced, Depth
<1>15. \A i \in 1..Depth : Inner(i)' <=> Inner(i)
  BY <1>2, <1>8, <1>10 DEF Inner, Idle
<1>16. \A c \in Classes : Idle(c)' <=> Idle(c)
  BY <1>2, <1>8, <1>10 DEF Inner, Idle
<1>17. \A i \in 1..Depth : Inner(i) /\ stack[i].cls = stack[Depth].cls => i = Depth
  BY <1>2 DEF Inner
<1>18. \A c \in Classes : Idle(c) => c # stack[Depth].cls
  BY <1>2 DEF Idle
<1>19. Typed'
  BY <1>1, <1>2, <1>5, <1>7 DEF Typed, Replaced
<1>20. Bottom'
  BY <1>1, <1>2, <1>5, <1>8, <1>9, <1>12 DEF Bottom, Finds, OnTop, Top
<1>21. Finds'
  BY <1>1, <1>2, <1>5, <1>8, <1>9, <1>12, <1>14 DEF Finds
<1>22. OnTop'
  <2> SUFFICES ASSUME NEW i \in 1..Depth', NEW k \in 1..Depth', k = i + 1
               PROVE  /\ stack'[i].phase \in {"init", "post", "callback"}
                      /\ stack'[i].phase = "post" <=> stack'[k].fn = "load_delayed"
                      /\ stack'[i].phase = "post" => stack'[k].cls = stack'[i].cls
    BY DEF OnTop
  <2>1. /\ i \in 1..Depth /\ k \in 1..Depth /\ i # Depth
        /\ stack[i].phase \in {"init", "post", "callback"}
        /\ stack[i].phase = "post" <=> stack[k].fn = "load_delayed"
        /\ stack[i].phase = "post" => stack[k].cls = stack[i].cls
    BY <1>1, <1>2, <1>8 DEF OnTop
  <2>2. QED BY <2>1, <1>8, <1>9, <1>10, <1>12
<1>23. Alone'
  BY <1>1, <1>2, <1>5, <1>8, <1>10, <1>12 DEF Alone
<1>24. Locks'
  BY <1>1, <1>2, <1>3, <1>5, <1>8, <1>10, <1>12, <1>15, <1>16, <1>17, <1>18 DEF Locks
<1>25. Delays'
  BY <1>1, <1>2, <1>3, <1>5, <1>8, <1>10, <1>12, <1>15, <1>16, <1>17, <1>18 DEF Delays
<1>26. Holds'
  BY <1>1, <1>2, <1>4, <1>5, <1>8, <1>10, <1>11, <1>12 DEF Holds, Busy, Reading
<1>27. Apart'
  BY <1>1, <1>2, <1>4, <1>5, <1>8, <1>11, <1>12 DEF Apart, Busy, Holds
<1>28. Waiting'
  BY <1>1, <1>2, <1>3, <1>4, <1>5, <1>8, <1>10, <1>11, <1>12, <1>14 DEF Waiting, Unheld,
     Busy, Reading, Holds, DelayedOf
<1>29. Delayed'
  BY <1>1, <1>2, <1>3, <1>4, <1>5, <1>8, <1>11, <1>12 DEF Delayed, Unheld, Busy, Reading,
     Holds, DelayedOf
<1>30. Pending'
  BY <1>1, <1>2, <1>4, <1>5, <1>8, <1>11, <1>12, <1>14 DEF Pending, Busy, Reading, DelayedOf
<1>31. Reached'
  BY <1>1, <1>2, <1>4, <1>5, <1>8, <1>9, <1>11, <1>12, <1>13 DEF Reached, Asked, Busy, Holds
<1>32. QED BY <1>19, <1>20, <1>21, <1>22, <1>23, <1>24, <1>25, <1>26, <1>27, <1>28, <1>29,
              <1>30, <1>31 DEF IInv, Nesting, OnePlace

\* What was delayed moves from the statements to a frame of load_delayed_().
LEMMA LoadDelayedLoads ==
  ASSUME IInv, LoadDelayed, delayed_[Top.cls] # <<>>
  PROVE  IInv'
<1> DEFINE f == [Top EXCEPT !.phase = "post"]
           g == Frame("load_delayed", Top.cls, delayed_[Top.cls])
<1>1. /\ Typed /\ Nesting /\ Bottom /\ Finds /\ OnTop /\ Alone /\ Locks /\ Delays
      /\ Holds /\ Apart /\ Waiting /\ Delayed /\ Pending /\ Reached
  BY DEF IInv, Nesting, OnePlace
<1>2. /\ Depth \in Nat \ {0} /\ \A i \in 1..Depth : stack[i] \in FrameSet
      /\ stack[Depth] \in FrameSet /\ Top \in FrameSet /\ Top = stack[Depth]
  BY <1>1, TopIsFrame DEF Top, LoadDelayed
<1>3. \A i \in 1..Depth : stack[i].cls \in Classes
  BY <1>2 DEF FrameSet
<1>4. loaded \subseteq session /\ posted \subseteq loaded
  BY <1>1 DEF Typed
<1>5. /\ UNCHANGED <<points, locked, session, loaded, posted, throwing, throws, calls, dangling>>
      /\ Top.phase = "delayed" /\ ~throwing
  BY <1>1, <1>2 DEF LoadDelayed, Top, ClearDelayed
<1>6. delayed_' = [delayed_ EXCEPT ![Top.cls] = <<>>]
  BY <1>1, <1>2, <1>5 DEF LoadDelayed, ClearDelayed
<1>7. Top.cls \in Classes
  BY <1>1, <1>2, <1>5 DEF FrameSet
<1>8. Inner(Depth)
  BY <1>1, <1>2, <1>5 DEF Inner
<1>9. locked[Top.cls] /\ delayed_[Top.cls] \in Seq(Objects)
  BY <1>1, <1>2, <1>5, <1>6, <1>7, <1>8 DEF Locks, Typed
<1>10. /\ delayed_'[Top.cls] = <<>> /\ delayed_' \in [Classes -> Seq(Objects)]
      /\ \A c \in Classes \ {Top.cls} : delayed_'[c] = delayed_[c]
  BY <1>1, <1>2, <1>5, <1>6, <1>7, <1>8, <1>9, EmptySeq DEF Typed
<1>11. \A c \in Classes : c = Top.cls => DelayedOf(c)' = {} /\ Distinct(delayed_'[c])
  BY <1>10, MembersOfNone DEF DelayedOf
<1>12. \A c \in Classes \ {Top.cls} : DelayedOf(c)' = DelayedOf(c) /\ delayed_'[c] = delayed_[c]
  BY <1>10 DEF DelayedOf
<1>13. /\ f \in FrameSet
      /\ f.fn = Top.fn /\ f.cls = Top.cls /\ f.obj = Top.obj
      /\ f.phase = "post" /\ f.todo = Top.todo /\ f.dls = Top.dls
  BY <1>1, <1>2, <1>5, <1>6, <1>7, <1>8, <1>9, <1>10, <1>11, <1>12 DEF FrameSet, Phases,
     Frame, Typed, Classes, NoObject
<1>14. /\ g \in FrameSet
      /\ g.fn = "load_delayed" /\ g.cls = Top.cls /\ g.obj = NoObject
      /\ g.phase = "next" /\ g.todo = {} /\ g.dls = delayed_[Top.cls]
  BY <1>1, <1>2, <1>5, <1>6, <1>7, <1>8, <1>9, <1>10, <1>11, <1>12, FindingIsFrame
     DEF FrameSet, Phases, Frame, Typed, Classes, NoObject
<1>15. Nests(f, g)
  BY <1>1, <1>2, <1>5, <1>13, <1>14, NestsByAppend DEF LoadDelayed
<1> HIDE DEF f, g
<1>16. Depth' = Depth + 1
  BY <1>15 DEF Nests, Depth
<1>17. /\ \A i \in 1..Depth : stack'[i].fn = stack[i].fn
      /\ stack'[Depth + 1].fn = "load_delayed"
  BY <1>2, <1>13, <1>14, <1>15 DEF Nests, Depth
<1>18. /\ \A i \in 1..Depth : stack'[i].cls = stack[i].cls
      /\ stack'[Depth + 1].cls = stack[Depth].cls
  BY <1>2, <1>13, <1>14, <1>15 DEF Nests, Depth
<1>19. /\ \A i \in 1..Depth : stack'[i].obj = stack[i].obj
      /\ stack'[Depth + 1].obj = NoObject
  BY <1>2, <1>13, <1>14, <1>15 DEF Nests, Depth
<1>20. /\ \A i \in 1..Depth : i # Depth => stack'[i].phase = stack[i].phase
      /\ stack'[Depth].phase = "post"
      /\ stack'[Depth + 1].phase = "next"
  BY <1>2, <1>13, <1>14, <1>15 DEF Nests, Depth
<1>21. /\ \A i \in 1..Depth : stack'[i].todo = stack[i].todo
      /\ stack'[Depth + 1].todo = {}
  BY <1>2, <1>13, <1>14, <1>15 DEF Nests, Depth
<1>22. /\ \A i \in 1..Depth : stack'[i].dls = stack[i].dls
      /\ stack'[Depth + 1].dls = delayed_[stack[Depth].cls]
  BY <1>2, <1>13, <1>14, <1>15 DEF Nests, Depth
<1>23. \A i \in 1..Depth : Inner(i)' => Inner(i) /\ stack[i].cls # stack[Depth].cls
  BY <1>2, <1>16, <1>18 DEF Inner, Idle
<1>24. \A c \in Classes : Idle(c)' => Idle(c) /\ c # stack[Depth].cls
  BY <1>2, <1>16, <1>18 DEF Inner, Idle
<1>25. Inner(Depth + 1)'
  BY <1>2, <1>16, <1>18 DEF Inner, Idle
<1>26. Typed'
  BY <1>1, <1>2, <1>5, <1>6, <1>10, <1>15 DEF Typed, Nests
<1>27. Bottom'
  BY <1>1, <1>2, <1>5, <1>7, <1>16, <1>17, <1>20 DEF Bottom, Finds, OnTop, Top
<1>28. Finds'
  BY <1>1, <1>2, <1>5, <1>7, <1>16, <1>17, <1>20, <1>22 DEF Finds
<1>29. OnTop'
  <2> SUFFICES ASSUME NEW i \in 1..Depth', NEW k \in 1..Depth', k = i + 1
               PROVE  /\ stack'[i].phase \in {"init", "post", "callback"}
                      /\ stack'[i].phase = "post" <=> stack'[k].fn = "load_delayed"
                      /\ stack'[i].phase = "post" => stack'[k].cls = stack'[i].cls
    BY DEF OnTop
  <2>1. CASE k = Depth'
    BY <2>1, <1>1, <1>2, <1>5, <1>7, <1>16, <1>17, <1>18, <1>20 DEF OnTop, Finds
  <2>2. CASE k # Depth'
    BY <2>2, <1>1, <1>2, <1>5, <1>7, <1>16, <1>17, <1>18, <1>20 DEF OnTop, Finds
  <2>3. QED BY <2>1, <2>2
<1>30. Alone'
  BY <1>1, <1>2, <1>5, <1>7, <1>16, <1>18, <1>20 DEF Alone
<1>31. Locks'
  BY <1>1, <1>2, <1>3, <1>5, <1>7, <1>8, <1>9, <1>16, <1>18, <1>20, <1>23, <1>24, <1>25
     DEF Locks
<1>32. Delays'
  <2>1. ASSUME NEW i \in 1..Depth', Inner(i)', delayed_'[stack'[i].cls] # <<>>
        PROVE  \/ stack'[i].phase \in {"init", "delayed"}
               \/ throwing' /\ i = Depth' /\ stack'[i].phase = "post"
    <3>1. stack'[i].cls \in Classes
      BY <1>2, <1>3, <1>7, <1>16, <1>18
    <3>2. stack'[i].cls # Top.cls
      BY <1>10, <2>1
    <3>3. i \in 1..Depth /\ i # Depth
      BY <1>2, <1>16, <1>18, <3>2
    <3>4. /\ Inner(i) /\ stack'[i].cls = stack[i].cls
          /\ delayed_[stack[i].cls] # <<>>
      BY <1>10, <1>18, <1>23, <2>1, <3>1, <3>2, <3>3
    <3>5. stack[i].phase \in {"init", "delayed"}
      BY <1>1, <1>5, <3>3, <3>4 DEF Delays
    <3>6. QED BY <1>20, <3>3, <3>5
  <2>2. \A c \in Classes : ~locked'[c] => delayed_'[c] = <<>>
    BY <1>1, <1>2, <1>3, <1>5, <1>7, <1>8, <1>10, <1>16, <1>18, <1>20, <1>23, <1>24, <1>25
       DEF Delays
  <2>3. QED BY <2>1, <2>2 DEF Delays
<1>33. Holds'
  BY <1>1, <1>2, <1>4, <1>5, <1>7, <1>16, <1>18, <1>19, <1>20 DEF Holds, Busy, Reading
<1>34. Apart'
  BY <1>1, <1>2, <1>4, <1>5, <1>7, <1>16, <1>19, <1>20 DEF Apart, Busy, Holds
<1>35. Waiting'
  <2>1. \A x : Unheld(x) => Unheld(x)'
    BY <1>2, <1>5, <1>16, <1>19, <1>20 DEF Unheld, Busy
  <2>2. \A i \in 1..Depth' :
          \/ i \in 1..Depth /\ stack'[i].dls = stack[i].dls /\ stack'[i].cls = stack[i].cls
          \/ /\ i = Depth + 1 /\ stack'[i].dls = delayed_[Top.cls] /\ stack'[i].cls = Top.cls
             /\ Members(stack'[i].dls) = DelayedOf(Top.cls)
    BY <1>2, <1>16, <1>18, <1>22 DEF DelayedOf
  <2>3. \A i \in 1..Depth : \A x \in Members(stack[i].dls) : x \notin DelayedOf(Top.cls)
    BY <1>1, <1>7 DEF Waiting, Delayed
  <2>4. \A c \in Classes : DelayedOf(c)' \subseteq DelayedOf(c)
    BY <1>11, <1>12
  <2>5. ASSUME NEW i \in 1..Depth', i \in 1..Depth
        PROVE  /\ Distinct(stack'[i].dls)
               /\ \A x \in Members(stack'[i].dls) :
                    /\ Unheld(x)' /\ ClassOf[x] = stack'[i].cls
                    /\ \A k \in 1..Depth' : x \in Members(stack'[k].dls) => k = i
                    /\ x \notin DelayedOf(ClassOf[x])'
    <3>1. stack'[i].dls = stack[i].dls /\ stack'[i].cls = stack[i].cls
      BY <1>18, <1>22, <2>5
    <3>2. QED BY <1>1, <1>3, <2>1, <2>2, <2>3, <2>4, <2>5, <3>1 DEF Waiting
  <2>6. ASSUME NEW i \in 1..Depth', i \notin 1..Depth
        PROVE  /\ Distinct(stack'[i].dls)
               /\ \A x \in Members(stack'[i].dls) :
                    /\ Unheld(x)' /\ ClassOf[x] = stack'[i].cls
                    /\ \A k \in 1..Depth' : x \in Members(stack'[k].dls) => k = i
                    /\ x \notin DelayedOf(ClassOf[x])'
    BY <1>1, <1>7, <1>11, <2>1, <2>2, <2>3, <2>6 DEF Delayed
  <2>7. QED BY <2>5, <2>6 DEF Waiting
<1>36. Delayed'
  BY <1>1, <1>2, <1>3, <1>4, <1>5, <1>7, <1>11, <1>12, <1>16, <1>19, <1>20 DEF Delayed,
     Unheld, Busy, Reading, Holds, DelayedOf
<1>37. Pending'
  BY <1>1, <1>2, <1>4, <1>5, <1>7, <1>11, <1>12, <1>16, <1>19, <1>20, <1>22 DEF Pending,
     Busy, Reading, DelayedOf
<1>38. Reached'
  BY <1>1, <1>2, <1>4, <1>5, <1>7, <1>16, <1>17, <1>19, <1>20, <1>21 DEF Reached, Asked,
     Busy, Holds
<1>39. QED BY <1>26, <1>27, <1>28, <1>29, <1>30, <1>31, <1>32, <1>33, <1>34, <1>35, <1>36,
              <1>37, <1>38 DEF IInv, Nesting, OnePlace

\* The callback is called, with the statements unlocked.
LEMMA PostLoadInv ==
  ASSUME IInv, PostLoad
  PROVE  IInv'
<1> DEFINE f == [Top EXCEPT !.phase = "callback"]
<1>1. /\ Typed /\ Nesting /\ Bottom /\ Finds /\ OnTop /\ Alone /\ Locks /\ Delays
      /\ Holds /\ Apart /\ Waiting /\ Delayed /\ Pending /\ Reached
  BY DEF IInv, Nesting, OnePlace
<1>2. /\ Depth \in Nat \ {0} /\ \A i \in 1..Depth : stack[i] \in FrameSet
      /\ stack[Depth] \in FrameSet /\ Top \in FrameSet /\ Top = stack[Depth]
  BY <1>1, TopIsFrame DEF Top, PostLoad
<1>3. \A i \in 1..Depth : stack[i].cls \in Classes
  BY <1>2 DEF FrameSet
<1>4. loaded \subseteq session /\ posted \subseteq loaded
  BY <1>1 DEF Typed
<1>5. /\ UNCHANGED <<points, delayed_, session, loaded, throwing, throws, calls, dangling>>
      /\ Top.phase = "post" /\ ~throwing
  BY <1>1, <1>2 DEF PostLoad, Top, Unlock
<1>6. posted' = posted \cup {Top.obj}
  BY <1>1, <1>2, <1>5 DEF PostLoad, Unlock
<1>7. locked' = [locked EXCEPT ![Top.cls] = FALSE]
  BY <1>1, <1>2, <1>5 DEF PostLoad, Unlock
<1>8. Top.cls \in Classes
  BY <1>1, <1>2, <1>5 DEF FrameSet
<1>9. Top.obj \in loaded
  BY <1>1, <1>2, <1>5 DEF Holds, Busy, Reading
<1>10. Inner(Depth)
  BY <1>1, <1>2, <1>5 DEF Inner
<1>11. delayed_[Top.cls] = <<>>
  BY <1>1, <1>2, <1>5, <1>6, <1>7, <1>8, <1>9, <1>10 DEF Delays
<1>12. /\ ~locked'[Top.cls] /\ locked' \in [Classes -> BOOLEAN]
      /\ \A c \in Classes \ {Top.cls} : locked'[c] = locked[c]
  BY <1>1, <1>2, <1>5, <1>6, <1>7, <1>8, <1>9, <1>10, <1>11 DEF Typed
<1>13. /\ f \in FrameSet
      /\ f.fn = Top.fn /\ f.cls = Top.cls /\ f.obj = Top.obj
      /\ f.phase = "callback" /\ f.todo = Top.todo /\ f.dls = Top.dls
  BY <1>1, <1>2, <1>5, <1>6, <1>7, <1>8, <1>9, <1>10, <1>11, <1>12 DEF FrameSet, Phases,
     Frame, Typed, Classes, NoObject
<1>14. Replaced(f)
  BY <1>1, <1>2, <1>5, <1>13, ReplacedBySet DEF PostLoad
<1> HIDE DEF f
<1>15. Depth' = Depth
  BY <1>14 DEF Replaced, Depth
<1>16. \A i \in 1..Depth : stack'[i].fn = stack[i].fn
  BY <1>2, <1>13, <1>14 DEF Replaced, Depth
<1>17. \A i \in 1..Depth : stack'[i].cls = stack[i].cls
  BY <1>2, <1>13, <1>14 DEF Replaced, Depth
<1>18. \A i \in 1..Depth : stack'[i].obj = stack[i].obj
  BY <1>2, <1>13, <1>14 DEF Replaced, Depth
<1>19. /\ \A i \in 1..Depth : i # Depth => stack'[i].phase = stack[i].phase
      /\ stack'[Depth].phase = "callback"
  BY <1>2, <1>13, <1>14 DEF Replaced, Depth
<1>20. \A i \in 1..Depth : stack'[i].todo = stack[i].todo
  BY <1>2, <1>13, <1>14 DEF Replaced, Depth
<1>21. \A i \in 1..Depth : stack'[i].dls = stack[i].dls
  BY <1>2, <1>13, <1>14 DEF Replaced, Depth
<1>22. \A i \in 1..Depth : Inner(i)' <=> Inner(i)
  BY <1>2, <1>15, <1>17 DEF Inner, Idle
<1>23. \A c \in Classes : Idle(c)' <=> Idle(c)
  BY <1>2, <1>15, <1>17 DEF Inner, Idle
<1>24. \A i \in 1..Depth : Inner(i) /\ stack[i].cls = stack[Depth].cls => i = Depth
  BY <1>2 DEF Inner
<1>25. \A c \in Classes : Idle(c) => c # stack[Depth].cls
  BY <1>2 DEF Idle
<1>26. Typed'
  BY <1>1, <1>2, <1>5, <1>6, <1>7, <1>9, <1>12, <1>14 DEF Typed, Replaced
<1>27. Bottom'
  BY <1>1, <1>2, <1>5, <1>8, <1>15, <1>16, <1>19 DEF Bottom, Finds, OnTop, Top
<1>28. Finds'
  BY <1>1, <1>2, <1>5, <1>8, <1>15, <1>16, <1>19, <1>21 DEF Finds
<1>29. OnTop'
  <2> SUFFICES ASSUME NEW i \in 1..Depth', NEW k \in 1..Depth', k = i + 1
               PROVE  /\ stack'[i].phase \in {"init", "post", "callback"}
                      /\ stack'[i].phase = "post" <=> stack'[k].fn = "load_delayed"
                      /\ stack'[i].phase = "post" => stack'[k].cls = stack'[i].cls
    BY DEF OnTop
  <2>1. /\ i \in 1..Depth /\ k \in 1..Depth /\ i # Depth
        /\ stack[i].phase \in {"init", "post", "callback"}
        /\ stack[i].phase = "post" <=> stack[k].fn = "load_delayed"
        /\ stack[i].phase = "post" => stack[k].cls = stack[i].cls
    BY <1>1, <1>2, <1>15 DEF OnTop
  <2>2. QED BY <2>1, <1>15, <1>16, <1>17, <1>19
<1>30. Alone'
  BY <1>1, <1>2, <1>5, <1>8, <1>15, <1>17, <1>19 DEF Alone
<1>31. Locks'
  BY <1>1, <1>2, <1>3, <1>5, <1>8, <1>10, <1>12, <1>15, <1>17, <1>19, <1>22, <1>23, <1>24,
     <1>25 DEF Locks
<1>32. Delays'
  BY <1>1, <1>2, <1>3, <1>5, <1>8, <1>10, <1>11, <1>12, <1>15, <1>17, <1>19, <1>22, <1>23,
     <1>24, <1>25 DEF Delays
<1>33. Holds'
  BY <1>1, <1>2, <1>4, <1>5, <1>6, <1>8, <1>9, <1>15, <1>17, <1>18, <1>19 DEF Holds, Busy,
     Reading
<1>34. Apart'
  BY <1>1, <1>2, <1>4, <1>5, <1>6, <1>8, <1>9, <1>15, <1>18, <1>19 DEF Apart, Busy, Holds
<1>35. Waiting'
  BY <1>1, <1>2, <1>3, <1>4, <1>5, <1>6, <1>8, <1>9, <1>15, <1>17, <1>18, <1>19, <1>21
     DEF Waiting, Unheld, Busy, Reading, Holds, DelayedOf
<1>36. Delayed'
  BY <1>1, <1>2, <1>3, <1>4, <1>5, <1>6, <1>8, <1>9, <1>15, <1>18, <1>19 DEF Delayed,
     Unheld, Busy, Reading, Holds, DelayedOf
<1>37. Pending'
  BY <1>1, <1>2, <1>4, <1>5, <1>6, <1>8, <1>9, <1>15, <1>18, <1>19, <1>21 DEF Pending, Busy,
     Reading, DelayedOf
<1>38. Reached'
  BY <1>1, <1>2, <1>4, <1>5, <1>6, <1>8, <1>9, <1>15, <1>16, <1>18, <1>19, <1>20
     DEF Reached, Asked, Busy, Holds
<1>39. QED BY <1>26, <1>27, <1>28, <1>29, <1>30, <1>31, <1>32, <1>33, <1>34, <1>35, <1>36,
              <1>37, <1>38 DEF IInv, Nesting, OnePlace

\* find() returns after its callback.
LEMMA ReturnFind ==
  ASSUME IInv, Return, Top.fn = "find"
  PROVE  IInv'
<1>1. /\ Typed /\ Nesting /\ Bottom /\ Finds /\ OnTop /\ Alone /\ Locks /\ Delays
      /\ Holds /\ Apart /\ Waiting /\ Delayed /\ Pending /\ Reached
  BY DEF IInv, Nesting, OnePlace
<1>2. /\ Depth \in Nat \ {0} /\ \A i \in 1..Depth : stack[i] \in FrameSet
      /\ stack[Depth] \in FrameSet /\ Top \in FrameSet /\ Top = stack[Depth]
  BY <1>1, TopIsFrame DEF Top, Return
<1>3. \A i \in 1..Depth : stack[i].cls \in Classes
  BY <1>2 DEF FrameSet
<1>4. loaded \subseteq session /\ posted \subseteq loaded
  BY <1>1 DEF Typed
<1>5. /\ UNCHANGED <<points, locked, delayed_, session, loaded, posted, throwing, throws, calls, dangling>>
      /\ Top.phase = "callback" /\ ~throwing /\ Top.fn = "find"
  BY <1>1, <1>2 DEF Return, Top, Lock
<1>6. Top.cls \in Classes
  BY <1>1, <1>2, <1>5 DEF FrameSet
<1>7. /\ Inner(Depth) /\ Top.dls = <<>>
      /\ \A i \in 1..(Depth - 1) :
           stack[i].cls = Top.cls /\ (\A k \in 1..(Depth - 1) : i < k => stack[k].cls # Top.cls)
             => stack[i].phase = "callback"
  BY <1>1, <1>2, <1>5, <1>6, UnderFind DEF Inner, Finds
<1>8. delayed_[Top.cls] = <<>> /\ ~locked[Top.cls]
  BY <1>1, <1>2, <1>5, <1>6, <1>7 DEF Delays, Locks
<1>9. Popped
  BY <1>1, <1>2, <1>5, PoppedBelow DEF Return
<1>10. Depth' = Depth - 1
  BY <1>9 DEF Popped, Depth
<1>11. \A i \in 1..(Depth - 1) : stack'[i].fn = stack[i].fn
  BY <1>2, <1>9 DEF Popped, Depth
<1>12. \A i \in 1..(Depth - 1) : stack'[i].cls = stack[i].cls
  BY <1>2, <1>9 DEF Popped, Depth
<1>13. \A i \in 1..(Depth - 1) : stack'[i].obj = stack[i].obj
  BY <1>2, <1>9 DEF Popped, Depth
<1>14. \A i \in 1..(Depth - 1) : stack'[i].phase = stack[i].phase
  BY <1>2, <1>9 DEF Popped, Depth
<1>15. \A i \in 1..(Depth - 1) : stack'[i].todo = stack[i].todo
  BY <1>2, <1>9 DEF Popped, Depth
<1>16. \A i \in 1..(Depth - 1) : stack'[i].dls = stack[i].dls
  BY <1>2, <1>9 DEF Popped, Depth
<1>17. \A i \in 1..(Depth - 1) : stack[i].cls # stack[Depth].cls /\ Inner(i)' => Inner(i)
  BY <1>2, <1>10, <1>12 DEF Inner, Idle
<1>18. \A c \in Classes : c # stack[Depth].cls /\ Idle(c)' => Idle(c)
  BY <1>2, <1>10, <1>12 DEF Inner, Idle
<1>19. \A i \in 1..(Depth - 1) :
        stack[i].cls = stack[Depth].cls /\ Inner(i)' => stack[i].phase = "callback"
  BY <1>2, <1>10, <1>12, <1>1, <1>2, <1>5, <1>6, <1>7, <1>8 DEF Inner
<1>20. Typed'
  BY <1>1, <1>2, <1>5, <1>9 DEF Typed, Popped
<1>21. Bottom'
  BY <1>1, <1>2, <1>5, <1>6, <1>10, <1>11, <1>14 DEF Bottom, Finds, OnTop, Top
<1>22. Finds'
  BY <1>1, <1>2, <1>5, <1>6, <1>10, <1>11, <1>14, <1>16 DEF Finds
<1>23. OnTop'
  <2> SUFFICES ASSUME NEW i \in 1..Depth', NEW k \in 1..Depth', k = i + 1
               PROVE  /\ stack'[i].phase \in {"init", "post", "callback"}
                      /\ stack'[i].phase = "post" <=> stack'[k].fn = "load_delayed"
                      /\ stack'[i].phase = "post" => stack'[k].cls = stack'[i].cls
    BY DEF OnTop
  <2>1. /\ i \in 1..Depth /\ k \in 1..Depth /\ i # Depth
        /\ stack[i].phase \in {"init", "post", "callback"}
        /\ stack[i].phase = "post" <=> stack[k].fn = "load_delayed"
        /\ stack[i].phase = "post" => stack[k].cls = stack[i].cls
    BY <1>1, <1>2, <1>10 DEF OnTop
  <2>2. QED BY <2>1, <1>10, <1>11, <1>12, <1>14
<1>24. Alone'
  BY <1>1, <1>2, <1>5, <1>6, <1>10, <1>12, <1>14 DEF Alone
<1>25. Locks'
  BY <1>1, <1>2, <1>3, <1>5, <1>6, <1>7, <1>8, <1>10, <1>12, <1>14, <1>17, <1>18, <1>19
     DEF Locks
<1>26. Delays'
  BY <1>1, <1>2, <1>3, <1>5, <1>6, <1>7, <1>8, <1>10, <1>12, <1>14, <1>17, <1>18, <1>19
     DEF Delays
<1>27. Holds'
  BY <1>1, <1>2, <1>4, <1>5, <1>6, <1>10, <1>12, <1>13, <1>14 DEF Holds, Busy, Reading
<1>28. Apart'
  BY <1>1, <1>2, <1>4, <1>5, <1>6, <1>10, <1>13, <1>14 DEF Apart, Busy, Holds
<1>29. Waiting'
  BY <1>1, <1>2, <1>3, <1>4, <1>5, <1>6, <1>7, <1>10, <1>12, <1>13, <1>14, <1>16
     DEF Waiting, Unheld, Busy, Reading, Holds, DelayedOf
<1>30. Delayed'
  BY <1>1, <1>2, <1>3, <1>4, <1>5, <1>6, <1>10, <1>13, <1>14 DEF Delayed, Unheld, Busy,
     Reading, Holds, DelayedOf
<1>31. Pending'
  BY <1>1, <1>2, <1>4, <1>5, <1>6, <1>7, <1>10, <1>13, <1>14, <1>16, MembersOfNone
     DEF Pending, Busy, Reading, DelayedOf, Holds
<1>32. Reached'
  BY <1>1, <1>2, <1>4, <1>5, <1>6, <1>10, <1>11, <1>13, <1>14, <1>15 DEF Reached, Asked,
     Busy, Holds
<1>33. QED BY <1>20, <1>21, <1>22, <1>23, <1>24, <1>25, <1>26, <1>27, <1>28, <1>29, <1>30,
              <1>31, <1>32 DEF IInv, Nesting, OnePlace

\* load_delayed_() locks again after a callback.
LEMMA ReturnLoadDelayed ==
  ASSUME IInv, Return, Top.fn # "find"
  PROVE  IInv'
<1> DEFINE f == [Top EXCEPT !.obj = NoObject, !.phase = "next"]
<1>1. /\ Typed /\ Nesting /\ Bottom /\ Finds /\ OnTop /\ Alone /\ Locks /\ Delays
      /\ Holds /\ Apart /\ Waiting /\ Delayed /\ Pending /\ Reached
  BY DEF IInv, Nesting, OnePlace
<1>2. /\ Depth \in Nat \ {0} /\ \A i \in 1..Depth : stack[i] \in FrameSet
      /\ stack[Depth] \in FrameSet /\ Top \in FrameSet /\ Top = stack[Depth]
  BY <1>1, TopIsFrame DEF Top, Return
<1>3. \A i \in 1..Depth : stack[i].cls \in Classes
  BY <1>2 DEF FrameSet
<1>4. loaded \subseteq session /\ posted \subseteq loaded
  BY <1>1 DEF Typed
<1>5. /\ UNCHANGED <<points, delayed_, session, loaded, posted, throwing, throws, calls, dangling>>
      /\ Top.phase = "callback" /\ ~throwing /\ Top.fn # "find"
  BY <1>1, <1>2 DEF Return, Top, Lock
<1>6. locked' = [locked EXCEPT ![Top.cls] = TRUE]
  BY <1>1, <1>2, <1>5 DEF Return, Lock
<1>7. Top.cls \in Classes
  BY <1>1, <1>2, <1>5 DEF FrameSet
<1>8. Inner(Depth)
  BY <1>1, <1>2, <1>5 DEF Inner
<1>9. delayed_[Top.cls] = <<>>
  BY <1>1, <1>2, <1>5, <1>6, <1>7, <1>8 DEF Delays
<1>10. /\ locked'[Top.cls] /\ locked' \in [Classes -> BOOLEAN]
      /\ \A c \in Classes \ {Top.cls} : locked'[c] = locked[c]
  BY <1>1, <1>2, <1>5, <1>6, <1>7, <1>8, <1>9 DEF Typed
<1>11. /\ f \in FrameSet
      /\ f.fn = Top.fn /\ f.cls = Top.cls /\ f.obj = NoObject
      /\ f.phase = "next" /\ f.todo = Top.todo /\ f.dls = Top.dls
  BY <1>1, <1>2, <1>5, <1>6, <1>7, <1>8, <1>9, <1>10 DEF FrameSet, Phases, Frame, Typed,
     Classes, NoObject
<1>12. Replaced(f)
  BY <1>1, <1>2, <1>5, <1>11, ReplacedBySet DEF Return
<1> HIDE DEF f
<1>13. Depth' = Depth
  BY <1>12 DEF Replaced, Depth
<1>14. \A i \in 1..Depth : stack'[i].fn = stack[i].fn
  BY <1>2, <1>11, <1>12 DEF Replaced, Depth
<1>15. \A i \in 1..Depth : stack'[i].cls = stack[i].cls
  BY <1>2, <1>11, <1>12 DEF Replaced, Depth
<1>16. /\ \A i \in 1..Depth : i # Depth => stack'[i].obj = stack[i].obj
      /\ stack'[Depth].obj = NoObject
  BY <1>2, <1>11, <1>12 DEF Replaced, Depth
<1>17. /\ \A i \in 1..Depth : i # Depth => stack'[i].phase = stack[i].phase
      /\ stack'[Depth].phase = "next"
  BY <1>2, <1>11, <1>12 DEF Replaced, Depth
<1>18. \A i \in 1..Depth : stack'[i].todo = stack[i].todo
  BY <1>2, <1>11, <1>12 DEF Replaced, Depth
<1>19. \A i \in 1..Depth : stack'[i].dls = stack[i].dls
  BY <1>2, <1>11, <1>12 DEF Replaced, Depth
<1>20. \A i \in 1..Depth : Inner(i)' <=> Inner(i)
  BY <1>2, <1>13, <1>15 DEF Inner, Idle
<1>21. \A c \in Classes : Idle(c)' <=> Idle(c)
  BY <1>2, <1>13, <1>15 DEF Inner, Idle
<1>22. \A i \in 1..Depth : Inner(i) /\ stack[i].cls = stack[Depth].cls => i = Depth
  BY <1>2 DEF Inner
<1>23. \A c \in Classes : Idle(c) => c # stack[Depth].cls
  BY <1>2 DEF Idle
<1>24. Typed'
  BY <1>1, <1>2, <1>5, <1>6, <1>10, <1>12 DEF Typed, Replaced
<1>25. Bottom'
  BY <1>1, <1>2, <1>5, <1>7, <1>13, <1>14, <1>17 DEF Bottom, Finds, OnTop, Top
<1>26. Finds'
  BY <1>1, <1>2, <1>5, <1>7, <1>13, <1>14, <1>17, <1>19 DEF Finds
<1>27. OnTop'
  <2> SUFFICES ASSUME NEW i \in 1..Depth', NEW k \in 1..Depth', k = i + 1
               PROVE  /\ stack'[i].phase \in {"init", "post", "callback"}
                      /\ stack'[i].phase = "post" <=> stack'[k].fn = "load_delayed"
                      /\ stack'[i].phase = "post" => stack'[k].cls = stack'[i].cls
    BY DEF OnTop
  <2>1. /\ i \in 1..Depth /\ k \in 1..Depth /\ i # Depth
        /\ stack[i].phase \in {"init", "post", "callback"}
        /\ stack[i].phase = "post" <=> stack[k].fn = "load_delayed"
        /\ stack[i].phase = "post" => stack[k].cls = stack[i].cls
    BY <1>1, <1>2, <1>13 DEF OnTop
  <2>2. QED BY <2>1, <1>13, <1>14, <1>15, <1>17
<1>28. Alone'
  BY <1>1, <1>2, <1>5, <1>7, <1>13, <1>15, <1>17 DEF Alone
<1>29. Locks'
  BY <1>1, <1>2, <1>3, <1>5, <1>7, <1>8, <1>10, <1>13, <1>15, <1>17, <1>20, <1>21, <1>22,
     <1>23 DEF Locks
<1>30. Delays'
  BY <1>1, <1>2, <1>3, <1>5, <1>7, <1>8, <1>9, <1>10, <1>13, <1>15, <1>17, <1>20, <1>21,
     <1>22, <1>23 DEF Delays
<1>31. Holds'
  BY <1>1, <1>2, <1>4, <1>5, <1>7, <1>13, <1>15, <1>16, <1>17 DEF Holds, Busy, Reading
<1>32. Apart'
  BY <1>1, <1>2, <1>4, <1>5, <1>7, <1>13, <1>16, <1>17 DEF Apart, Busy, Holds
<1>33. Waiting'
  BY <1>1, <1>2, <1>3, <1>4, <1>5, <1>7, <1>13, <1>15, <1>16, <1>17, <1>19 DEF Waiting,
     Unheld, Busy, Reading, Holds, DelayedOf
<1>34. Delayed'
  BY <1>1, <1>2, <1>3, <1>4, <1>5, <1>7, <1>13, <1>16, <1>17 DEF Delayed, Unheld, Busy,
     Reading, Holds, DelayedOf
<1>35. Pending'
  BY <1>1, <1>2, <1>4, <1>5, <1>7, <1>13, <1>16, <1>17, <1>19 DEF Pending, Busy, Reading,
     DelayedOf
<1>36. Reached'
  BY <1>1, <1>2, <1>4, <1>5, <1>7, <1>13, <1>14, <1>16, <1>17, <1>18 DEF Reached, Asked,
     Busy, Holds
<1>37. QED BY <1>24, <1>25, <1>26, <1>27, <1>28, <1>29, <1>30, <1>31, <1>32, <1>33, <1>34,
              <1>35, <1>36 DEF IInv, Nesting, OnePlace

\* An exception is thrown; nothing has been unwound yet.
LEMMA ThrowInv ==
  ASSUME IInv, Throw
  PROVE  IInv'
<1>1. /\ Typed /\ Nesting /\ Bottom /\ Finds /\ OnTop /\ Alone /\ Locks /\ Delays
      /\ Holds /\ Apart /\ Waiting /\ Delayed /\ Pending /\ Reached
  BY DEF IInv, Nesting, OnePlace
<1>2. /\ Depth \in Nat \ {0} /\ \A i \in 1..Depth : stack[i] \in FrameSet
      /\ stack[Depth] \in FrameSet /\ Top \in FrameSet /\ Top = stack[Depth]
  BY <1>1, TopIsFrame DEF Top, Throw
<1>3. \A i \in 1..Depth : stack[i].cls \in Classes
  BY <1>2 DEF FrameSet
<1>4. loaded \subseteq session /\ posted \subseteq loaded
  BY <1>1 DEF Typed
<1>5. /\ UNCHANGED <<points, locked, delayed_, session, loaded, posted, calls, dangling>>
      /\ Top.phase \in {"read", "init", "callback"} /\ ~throwing /\ throws < MaxThrows
  BY <1>1, <1>2 DEF Throw, Top
<1>6. throwing' = TRUE
  BY <1>1, <1>2, <1>5 DEF Throw
<1>7. throws' = throws + 1
  BY <1>1, <1>2, <1>5 DEF Throw
<1>8. stack' = stack /\ Depth' = Depth
  BY <1>1, <1>2, <1>5 DEF Throw, Depth
<1>9. /\ \A i \in 1..Depth : Inner(i)' <=> Inner(i)
      /\ \A c \in Classes : Idle(c)' <=> Idle(c)
  BY <1>8 DEF Inner, Idle
<1>10. Typed'
  BY <1>1, <1>2, <1>5, <1>6, <1>7, <1>8, DelayedLoadingAssumption DEF Typed
<1>11. Bottom'
  BY <1>1, <1>2, <1>5, <1>6, <1>8 DEF Bottom, Finds, OnTop, Top
<1>12. Finds'
  BY <1>1, <1>2, <1>5, <1>8 DEF Finds
<1>13. OnTop'
  BY <1>1, <1>2, <1>5, <1>8 DEF OnTop, Finds
<1>14. Alone'
  BY <1>1, <1>2, <1>5, <1>8 DEF Alone
<1>15. Locks'
  BY <1>1, <1>2, <1>3, <1>5, <1>8, <1>9 DEF Locks
<1>16. Delays'
  BY <1>1, <1>2, <1>3, <1>5, <1>6, <1>8, <1>9 DEF Delays
<1>17. Holds'
  BY <1>1, <1>2, <1>4, <1>5, <1>8 DEF Holds, Busy, Reading
<1>18. Apart'
  BY <1>1, <1>2, <1>4, <1>5, <1>8 DEF Apart, Busy, Holds
<1>19. Waiting'
  BY <1>1, <1>2, <1>3, <1>4, <1>5, <1>8 DEF Waiting, Unheld, Busy, Reading, Holds, DelayedOf
<1>20. Delayed'
  BY <1>1, <1>2, <1>3, <1>4, <1>5, <1>8 DEF Delayed, Unheld, Busy, Reading, Holds, DelayedOf
<1>21. Pending'
  BY <1>1, <1>2, <1>4, <1>5, <1>8 DEF Pending, Busy, Reading, DelayedOf
<1>22. Reached'
  BY <1>1, <1>2, <1>4, <1>5, <1>8 DEF Reached, Asked, Busy, Holds
<1>23. QED BY <1>10, <1>11, <1>12, <1>13, <1>14, <1>15, <1>16, <1>17, <1>18, <1>19, <1>20,
              <1>21, <1>22 DEF IInv, Nesting, OnePlace

\* It is caught.
LEMMA CatchInv ==
  ASSUME IInv, Catch
  PROVE  IInv'
<1>1. /\ Typed /\ Nesting /\ Bottom /\ Finds /\ OnTop /\ Alone /\ Locks /\ Delays
      /\ Holds /\ Apart /\ Waiting /\ Delayed /\ Pending /\ Reached
  BY DEF IInv, Nesting, OnePlace
<1>2. /\ Depth \in Nat /\ (Depth > 0 => stack # <<>>)
      /\ \A i \in 1..Depth : stack[i] \in FrameSet
  BY <1>1, TopIsFrame, EmptySeq DEF Typed, Depth
<1>3. \A i \in 1..Depth : stack[i].cls \in Classes
  BY <1>2 DEF FrameSet
<1>4. loaded \subseteq session /\ posted \subseteq loaded
  BY <1>1 DEF Typed
<1>5. /\ UNCHANGED <<points, locked, delayed_, session, loaded, posted, throws, calls, dangling>>
      /\ throwing
      /\ Depth > 0 => stack[Depth].phase = "callback"
  BY <1>1, <1>2 DEF Catch, Top, InCallback
<1>6. throwing' = FALSE
  BY <1>1, <1>2, <1>5 DEF Catch, InCallback
<1>7. stack' = stack /\ Depth' = Depth
  BY <1>1, <1>2, <1>5 DEF Catch, Depth
<1>8. /\ \A i \in 1..Depth : Inner(i)' <=> Inner(i)
      /\ \A c \in Classes : Idle(c)' <=> Idle(c)
  BY <1>7 DEF Inner, Idle
<1>9. Typed'
  BY <1>1, <1>2, <1>5, <1>6, <1>7 DEF Typed
<1>10. Bottom'
  BY <1>1, <1>2, <1>5, <1>6, <1>7 DEF Bottom, Finds, OnTop, Top
<1>11. Finds'
  BY <1>1, <1>2, <1>5, <1>7 DEF Finds
<1>12. OnTop'
  BY <1>1, <1>2, <1>5, <1>7 DEF OnTop, Finds
<1>13. Alone'
  BY <1>1, <1>2, <1>5, <1>7 DEF Alone
<1>14. Locks'
  BY <1>1, <1>2, <1>3, <1>5, <1>7, <1>8 DEF Locks
<1>15. Delays'
  BY <1>1, <1>2, <1>3, <1>5, <1>6, <1>7, <1>8 DEF Delays
<1>16. Holds'
  BY <1>1, <1>2, <1>4, <1>5, <1>7 DEF Holds, Busy, Reading
<1>17. Apart'
  BY <1>1, <1>2, <1>4, <1>5, <1>7 DEF Apart, Busy, Holds
<1>18. Waiting'
  BY <1>1, <1>2, <1>3, <1>4, <1>5, <1>7 DEF Waiting, Unheld, Busy, Reading, Holds, DelayedOf
<1>19. Delayed'
  BY <1>1, <1>2, <1>3, <1>4, <1>5, <1>7 DEF Delayed, Unheld, Busy, Reading, Holds, DelayedOf
<1>20. Pending'
  BY <1>1, <1>2, <1>4, <1>5, <1>7 DEF Pending, Busy, Reading, DelayedOf
<1>21. Reached'
  BY <1>1, <1>2, <1>4, <1>5, <1>7 DEF Reached, Asked, Busy, Holds
<1>22. QED BY <1>9, <1>10, <1>11, <1>12, <1>13, <1>14, <1>15, <1>16, <1>17, <1>18, <1>19,
              <1>20, <1>21 DEF IInv, Nesting, OnePlace

\* The guards of load_delayed_(): what is left of its vector is given back.
LEMMA UnwindLoadDelayedInv ==
  ASSUME IInv, UnwindLoadDelayed
  PROVE  IInv'
<1>1. /\ Typed /\ Nesting /\ Bottom /\ Finds /\ OnTop /\ Alone /\ Locks /\ Delays
      /\ Holds /\ Apart /\ Waiting /\ Delayed /\ Pending /\ Reached
  BY DEF IInv, Nesting, OnePlace
<1>2. /\ Depth \in Nat \ {0} /\ \A i \in 1..Depth : stack[i] \in FrameSet
      /\ stack[Depth] \in FrameSet /\ Top \in FrameSet /\ Top = stack[Depth]
  BY <1>1, TopIsFrame DEF Top, UnwindLoadDelayed
<1>3. \A i \in 1..Depth : stack[i].cls \in Classes
  BY <1>2 DEF FrameSet
<1>4. loaded \subseteq session /\ posted \subseteq loaded
  BY <1>1 DEF Typed
<1>5. /\ UNCHANGED <<points, throwing, throws, calls>>
      /\ throwing /\ Top.fn = "load_delayed"
  BY <1>1, <1>2 DEF UnwindLoadDelayed, Top, Lock, Forget
<1>6. /\ session' = session \ ({Top.obj} \cup DelayedOf(Top.cls))
      /\ loaded' = loaded \ ({Top.obj} \cup DelayedOf(Top.cls))
      /\ posted' = posted \ ({Top.obj} \cup DelayedOf(Top.cls))
  BY <1>1, <1>2, <1>5 DEF UnwindLoadDelayed, Lock, Forget
<1>7. dangling' = TRUE
  BY <1>1, <1>2, <1>5 DEF UnwindLoadDelayed, Lock, Forget
<1>8. locked' = [locked EXCEPT ![Top.cls] = TRUE]
  BY <1>1, <1>2, <1>5 DEF UnwindLoadDelayed, Lock, Forget
<1>9. delayed_' = [delayed_ EXCEPT ![Top.cls] = Top.dls]
  BY <1>1, <1>2, <1>5 DEF UnwindLoadDelayed, Lock, Forget
<1>10. Top.cls \in Classes
  BY <1>1, <1>2, <1>5 DEF FrameSet
<1>11. /\ 1 < Depth /\ stack[Depth - 1].phase = "post"
      /\ stack[Depth - 1].cls = Top.cls
  BY <1>1, <1>2, <1>5, <1>6, <1>7, <1>8, <1>9, <1>10, UnderLoadDelayed
<1>12. Depth - 1 \in 1..Depth /\ Inner(Depth)
  BY <1>1, <1>2, <1>5, <1>11 DEF Inner
<1>13. Busy(Depth) /\ Top.dls \in Seq(Objects)
  BY <1>1, <1>2, <1>5 DEF Bottom, Busy, FrameSet
<1>14. /\ locked'[Top.cls] /\ locked' \in [Classes -> BOOLEAN]
      /\ \A c \in Classes \ {Top.cls} : locked'[c] = locked[c]
  BY <1>1, <1>2, <1>5, <1>6, <1>7, <1>8, <1>9, <1>10, <1>11, <1>12, <1>13 DEF Typed
<1>15. /\ delayed_'[Top.cls] = Top.dls /\ delayed_' \in [Classes -> Seq(Objects)]
      /\ \A c \in Classes \ {Top.cls} : delayed_'[c] = delayed_[c]
  BY <1>1, <1>2, <1>5, <1>6, <1>7, <1>8, <1>9, <1>10, <1>11, <1>12, <1>13, <1>14 DEF Typed
<1>16. \A c \in Classes : c = Top.cls =>
        DelayedOf(c)' = Members(Top.dls) /\ delayed_'[c] = Top.dls
  BY <1>15 DEF DelayedOf
<1>17. \A c \in Classes \ {Top.cls} : DelayedOf(c)' = DelayedOf(c) /\ delayed_'[c] = delayed_[c]
  BY <1>15 DEF DelayedOf
<1>18. Popped
  BY <1>1, <1>2, <1>5, PoppedBelow DEF UnwindLoadDelayed
<1>19. Depth' = Depth - 1
  BY <1>18 DEF Popped, Depth
<1>20. \A i \in 1..(Depth - 1) : stack'[i].fn = stack[i].fn
  BY <1>2, <1>18 DEF Popped, Depth
<1>21. \A i \in 1..(Depth - 1) : stack'[i].cls = stack[i].cls
  BY <1>2, <1>18 DEF Popped, Depth
<1>22. \A i \in 1..(Depth - 1) : stack'[i].obj = stack[i].obj
  BY <1>2, <1>18 DEF Popped, Depth
<1>23. \A i \in 1..(Depth - 1) : stack'[i].phase = stack[i].phase
  BY <1>2, <1>18 DEF Popped, Depth
<1>24. \A i \in 1..(Depth - 1) : stack'[i].todo = stack[i].todo
  BY <1>2, <1>18 DEF Popped, Depth
<1>25. \A i \in 1..(Depth - 1) : stack'[i].dls = stack[i].dls
  BY <1>2, <1>18 DEF Popped, Depth
<1>26. \A i \in 1..(Depth - 1) : stack[i].cls # stack[Depth].cls /\ Inner(i)' => Inner(i)
  BY <1>2, <1>19, <1>21 DEF Inner, Idle
<1>27. \A c \in Classes : c # stack[Depth].cls /\ Idle(c)' => Idle(c)
  BY <1>2, <1>19, <1>21 DEF Inner, Idle
<1>28. \A i \in 1..(Depth - 1) : stack[i].cls = stack[Depth].cls /\ Inner(i)' => i = Depth - 1
  BY <1>2, <1>19, <1>21, <1>1, <1>2, <1>5, <1>6, <1>7, <1>8, <1>9, <1>10, <1>11, <1>12,
     <1>13, <1>14, <1>15, <1>16, <1>17 DEF Inner
<1>29. \A c \in Classes : c = stack[Depth].cls => ~Idle(c)'
  BY <1>2, <1>19, <1>21, <1>1, <1>2, <1>5, <1>6, <1>7, <1>8, <1>9, <1>10, <1>11, <1>12,
     <1>13, <1>14, <1>15, <1>16, <1>17 DEF Idle
<1>30. Typed'
  BY <1>1, <1>2, <1>5, <1>6, <1>7, <1>8, <1>9, <1>14, <1>15, <1>18 DEF Typed, Popped
<1>31. Bottom'
  BY <1>1, <1>2, <1>5, <1>10, <1>11, <1>12, <1>19, <1>20, <1>23 DEF Bottom, Finds, OnTop,
     Top
<1>32. Finds'
  BY <1>1, <1>2, <1>5, <1>10, <1>19, <1>20, <1>23, <1>25 DEF Finds
<1>33. OnTop'
  <2> SUFFICES ASSUME NEW i \in 1..Depth', NEW k \in 1..Depth', k = i + 1
               PROVE  /\ stack'[i].phase \in {"init", "post", "callback"}
                      /\ stack'[i].phase = "post" <=> stack'[k].fn = "load_delayed"
                      /\ stack'[i].phase = "post" => stack'[k].cls = stack'[i].cls
    BY DEF OnTop
  <2>1. /\ i \in 1..Depth /\ k \in 1..Depth /\ i # Depth
        /\ stack[i].phase \in {"init", "post", "callback"}
        /\ stack[i].phase = "post" <=> stack[k].fn = "load_delayed"
        /\ stack[i].phase = "post" => stack[k].cls = stack[i].cls
    BY <1>1, <1>2, <1>19 DEF OnTop
  <2>2. QED BY <2>1, <1>19, <1>20, <1>21, <1>23
<1>34. Alone'
  BY <1>1, <1>2, <1>5, <1>10, <1>19, <1>21, <1>23 DEF Alone
<1>35. Locks'
  BY <1>1, <1>2, <1>3, <1>5, <1>10, <1>11, <1>12, <1>14, <1>19, <1>21, <1>23, <1>26, <1>27,
     <1>28, <1>29 DEF Locks
<1>36. Delays'
  <2>1. ASSUME NEW i \in 1..Depth', Inner(i)', delayed_'[stack'[i].cls] # <<>>
        PROVE  \/ stack'[i].phase \in {"init", "delayed"}
               \/ throwing' /\ i = Depth' /\ stack'[i].phase = "post"
    <3>1. /\ i \in 1..(Depth - 1) /\ i \in 1..Depth /\ i # Depth
          /\ stack'[i].cls = stack[i].cls /\ stack'[i].phase = stack[i].phase
      BY <1>2, <1>19, <1>21, <1>23
    <3>2. CASE stack[i].cls = stack[Depth].cls
      BY <1>5, <1>11, <1>19, <1>28, <2>1, <3>1, <3>2
    <3>3. CASE stack[i].cls # stack[Depth].cls
      <4>1. /\ Inner(i) /\ stack[i].cls \in Classes
            /\ delayed_[stack[i].cls] # <<>>
        BY <1>2, <1>3, <1>15, <1>26, <2>1, <3>1, <3>3
      <4>2. QED BY <1>1, <3>1, <4>1 DEF Delays
    <3>4. QED BY <3>2, <3>3
  <2>2. \A c \in Classes : ~locked'[c] => delayed_'[c] = <<>>
    BY <1>1, <1>14, <1>15 DEF Delays
  <2>3. QED BY <2>1, <2>2 DEF Delays
<1>37. Holds'
  BY <1>1, <1>2, <1>4, <1>5, <1>6, <1>10, <1>13, <1>19, <1>21, <1>22, <1>23, SMTT(30)
     DEF Holds, Busy, Reading, Apart, Delayed, Unheld, DelayedOf
<1>38. Apart'
  BY <1>1, <1>2, <1>4, <1>5, <1>6, <1>10, <1>13, <1>19, <1>22, <1>23 DEF Apart, Busy, Holds
<1>39. Waiting'
  <2>1. \A x : Unheld(x) /\ x \notin DelayedOf(Top.cls) => Unheld(x)'
    BY <1>2, <1>6, <1>13, <1>19, <1>22, <1>23 DEF Unheld, Busy
  <2>2. \A i \in 1..Depth' :
          /\ i \in 1..Depth /\ i # Depth
          /\ stack'[i].dls = stack[i].dls /\ stack'[i].cls = stack[i].cls
    BY <1>2, <1>19, <1>21, <1>25
  <2>3. \A i \in 1..Depth : \A x \in Members(stack[i].dls) : x \notin DelayedOf(Top.cls)
    BY <1>1, <1>10 DEF Waiting, Delayed
  <2>4. \A c \in Classes : \/ DelayedOf(c)' = Members(stack[Depth].dls)
                          \/ (c # Top.cls /\ DelayedOf(c)' = DelayedOf(c))
    BY <1>2, <1>16, <1>17
  <2>5. ASSUME NEW i \in 1..Depth', NEW x \in Members(stack'[i].dls)
        PROVE  /\ Unheld(x)' /\ ClassOf[x] = stack'[i].cls
               /\ \A k \in 1..Depth' : x \in Members(stack'[k].dls) => k = i
               /\ x \notin DelayedOf(ClassOf[x])'
    <3>1. i \in 1..Depth /\ i # Depth /\ x \in Members(stack[i].dls)
      BY <2>2
    <3>2. /\ Unheld(x) /\ ClassOf[x] = stack[i].cls
          /\ \A k \in 1..Depth : x \in Members(stack[k].dls) => k = i
          /\ x \notin DelayedOf(ClassOf[x])
      BY <1>1, <3>1 DEF Waiting
    <3>3. Depth \in 1..Depth /\ x \notin Members(stack[Depth].dls)
      BY <1>2, <3>1, <3>2
    <3>4. x \notin DelayedOf(ClassOf[x])'
      BY <1>3, <2>4, <3>1, <3>2, <3>3
    <3>5. QED BY <2>1, <2>2, <2>3, <3>1, <3>2, <3>4
  <2>6. \A i \in 1..Depth' : Distinct(stack'[i].dls)
    BY <1>1, <2>2 DEF Waiting
  <2>7. QED BY <2>5, <2>6 DEF Waiting
<1>40. Delayed'
  BY <1>1, <1>2, <1>3, <1>4, <1>5, <1>6, <1>10, <1>13, <1>16, <1>17, <1>19, <1>22, <1>23,
     SMTT(30) DEF Delayed, Unheld, Busy, Reading, Holds, DelayedOf, Waiting
<1>41. Pending'
  BY <1>1, <1>2, <1>4, <1>5, <1>6, <1>10, <1>13, <1>16, <1>17, <1>19, <1>22, <1>23, <1>25,
     SMTT(30) DEF Pending, Busy, Reading, DelayedOf, Holds
<1>42. Reached'
  BY <1>1, <1>2, <1>4, <1>5, <1>6, <1>7, <1>10, <1>13, <1>19, <1>20, <1>22, <1>23, <1>24
     DEF Reached, Asked, Busy, Holds
<1>43. QED BY <1>30, <1>31, <1>32, <1>33, <1>34, <1>35, <1>36, <1>37, <1>38, <1>39, <1>40,
              <1>41, <1>42 DEF IInv, Nesting, OnePlace

\* The guards of find(), after its lock was released for the callback.
LEMMA UnwindFindCallback ==
  ASSUME IInv, UnwindFind, Top.phase = "callback"
  PROVE  IInv'
<1>1. /\ Typed /\ Nesting /\ Bottom /\ Finds /\ OnTop /\ Alone /\ Locks /\ Delays
      /\ Holds /\ Apart /\ Waiting /\ Delayed /\ Pending /\ Reached
  BY DEF IInv, Nesting, OnePlace
<1>2. /\ Depth \in Nat \ {0} /\ \A i \in 1..Depth : stack[i] \in FrameSet
      /\ stack[Depth] \in FrameSet /\ Top \in FrameSet /\ Top = stack[Depth]
  BY <1>1, TopIsFrame DEF Top, UnwindFind
<1>3. \A i \in 1..Depth : stack[i].cls \in Classes
  BY <1>2 DEF FrameSet
<1>4. loaded \subseteq session /\ posted \subseteq loaded
  BY <1>1 DEF Typed
<1>5. /\ UNCHANGED <<points, delayed_, throwing, throws, calls>>
      /\ throwing /\ Top.fn = "find" /\ Top.phase = "callback"
  BY <1>1, <1>2 DEF UnwindFind, Top, Unlock, Forget, ClearDelayed
<1>6. /\ session' = session \ {Top.obj}
      /\ loaded' = loaded \ {Top.obj}
      /\ posted' = posted \ {Top.obj}
  BY <1>1, <1>2, <1>5 DEF UnwindFind, Unlock, Forget, ClearDelayed
<1>7. dangling' = TRUE
  BY <1>1, <1>2, <1>5 DEF UnwindFind, Unlock, Forget, ClearDelayed
<1>8. locked' = [locked EXCEPT ![Top.cls] = FALSE]
  BY <1>1, <1>2, <1>5 DEF UnwindFind, Unlock, Forget, ClearDelayed
<1>9. Top.cls \in Classes
  BY <1>1, <1>2, <1>5 DEF FrameSet
<1>10. /\ Inner(Depth) /\ Top.dls = <<>>
      /\ \A i \in 1..(Depth - 1) :
           stack[i].cls = Top.cls /\ (\A k \in 1..(Depth - 1) : i < k => stack[k].cls # Top.cls)
             => stack[i].phase = "callback"
  BY <1>1, <1>2, <1>5, <1>6, <1>7, <1>8, <1>9, UnderFind DEF Inner, Finds
<1>11. delayed_[Top.cls] = <<>>
  BY <1>1, <1>2, <1>5, <1>6, <1>7, <1>8, <1>9, <1>10 DEF Delays
<1>12. /\ ~locked'[Top.cls] /\ locked' \in [Classes -> BOOLEAN]
      /\ \A c \in Classes \ {Top.cls} : locked'[c] = locked[c]
  BY <1>1, <1>2, <1>5, <1>6, <1>7, <1>8, <1>9, <1>10, <1>11 DEF Typed
<1>13. Popped
  BY <1>1, <1>2, <1>5, PoppedBelow DEF UnwindFind
<1>14. Depth' = Depth - 1
  BY <1>13 DEF Popped, Depth
<1>15. \A i \in 1..(Depth - 1) : stack'[i].fn = stack[i].fn
  BY <1>2, <1>13 DEF Popped, Depth
<1>16. \A i \in 1..(Depth - 1) : stack'[i].cls = stack[i].cls
  BY <1>2, <1>13 DEF Popped, Depth
<1>17. \A i \in 1..(Depth - 1) : stack'[i].obj = stack[i].obj
  BY <1>2, <1>13 DEF Popped, Depth
<1>18. \A i \in 1..(Depth - 1) : stack'[i].phase = stack[i].phase
  BY <1>2, <1>13 DEF Popped, Depth
<1>19. \A i \in 1..(Depth - 1) : stack'[i].todo = stack[i].todo
  BY <1>2, <1>13 DEF Popped, Depth
<1>20. \A i \in 1..(Depth - 1) : stack'[i].dls = stack[i].dls
  BY <1>2, <1>13 DEF Popped, Depth
<1>21. \A i \in 1..(Depth - 1) : stack[i].cls # stack[Depth].cls /\ Inner(i)' => Inner(i)
  BY <1>2, <1>14, <1>16 DEF Inner, Idle
<1>22. \A c \in Classes : c # stack[Depth].cls /\ Idle(c)' => Idle(c)
  BY <1>2, <1>14, <1>16 DEF Inner, Idle
<1>23. \A i \in 1..(Depth - 1) :
        stack[i].cls = stack[Depth].cls /\ Inner(i)' => stack[i].phase = "callback"
  BY <1>2, <1>14, <1>16, <1>1, <1>2, <1>5, <1>6, <1>7, <1>8, <1>9, <1>10, <1>11, <1>12
     DEF Inner
<1>24. Typed'
  BY <1>1, <1>2, <1>5, <1>6, <1>7, <1>8, <1>12, <1>13 DEF Typed, Popped
<1>25. Bottom'
  BY <1>1, <1>2, <1>5, <1>9, <1>14, <1>15, <1>18 DEF Bottom, Finds, OnTop, Top
<1>26. Finds'
  BY <1>1, <1>2, <1>5, <1>9, <1>14, <1>15, <1>18, <1>20 DEF Finds
<1>27. OnTop'
  <2> SUFFICES ASSUME NEW i \in 1..Depth', NEW k \in 1..Depth', k = i + 1
               PROVE  /\ stack'[i].phase \in {"init", "post", "callback"}
                      /\ stack'[i].phase = "post" <=> stack'[k].fn = "load_delayed"
                      /\ stack'[i].phase = "post" => stack'[k].cls = stack'[i].cls
    BY DEF OnTop
  <2>1. /\ i \in 1..Depth /\ k \in 1..Depth /\ i # Depth
        /\ stack[i].phase \in {"init", "post", "callback"}
        /\ stack[i].phase = "post" <=> stack[k].fn = "load_delayed"
        /\ stack[i].phase = "post" => stack[k].cls = stack[i].cls
    BY <1>1, <1>2, <1>14 DEF OnTop
  <2>2. QED BY <2>1, <1>14, <1>15, <1>16, <1>18
<1>28. Alone'
  BY <1>1, <1>2, <1>5, <1>9, <1>14, <1>16, <1>18 DEF Alone
<1>29. Locks'
  BY <1>1, <1>2, <1>3, <1>5, <1>9, <1>10, <1>12, <1>14, <1>16, <1>18, <1>21, <1>22, <1>23
     DEF Locks
<1>30. Delays'
  BY <1>1, <1>2, <1>3, <1>5, <1>9, <1>10, <1>11, <1>12, <1>14, <1>16, <1>18, <1>21, <1>22,
     <1>23 DEF Delays
<1>31. Holds'
  BY <1>1, <1>2, <1>4, <1>5, <1>6, <1>9, <1>14, <1>16, <1>17, <1>18 DEF Holds, Busy,
     Reading, Apart, Delayed, Unheld, DelayedOf
<1>32. Apart'
  BY <1>1, <1>2, <1>4, <1>5, <1>6, <1>9, <1>14, <1>17, <1>18 DEF Apart, Busy, Holds
<1>33. Waiting'
  BY <1>1, <1>2, <1>3, <1>4, <1>5, <1>6, <1>9, <1>10, <1>14, <1>16, <1>17, <1>18, <1>20
     DEF Waiting, Unheld, Busy, Reading, Holds, DelayedOf, Delayed
<1>34. Delayed'
  BY <1>1, <1>2, <1>3, <1>4, <1>5, <1>6, <1>9, <1>14, <1>17, <1>18 DEF Delayed, Unheld,
     Busy, Reading, Holds, DelayedOf, Waiting
<1>35. Pending'
  BY <1>1, <1>2, <1>4, <1>5, <1>6, <1>9, <1>10, <1>14, <1>17, <1>18, <1>20, MembersOfNone
     DEF Pending, Busy, Reading, DelayedOf, Holds
<1>36. Reached'
  BY <1>1, <1>2, <1>4, <1>5, <1>6, <1>7, <1>9, <1>14, <1>15, <1>17, <1>18, <1>19
     DEF Reached, Asked, Busy, Holds
<1>37. QED BY <1>24, <1>25, <1>26, <1>27, <1>28, <1>29, <1>30, <1>31, <1>32, <1>33, <1>34,
              <1>35, <1>36 DEF IInv, Nesting, OnePlace

\* The guards of find() while it holds its lock.
LEMMA UnwindFindLoading ==
  ASSUME IInv, UnwindFind, Top.phase # "callback"
  PROVE  IInv'
<1>1. /\ Typed /\ Nesting /\ Bottom /\ Finds /\ OnTop /\ Alone /\ Locks /\ Delays
      /\ Holds /\ Apart /\ Waiting /\ Delayed /\ Pending /\ Reached
  BY DEF IInv, Nesting, OnePlace
<1>2. /\ Depth \in Nat \ {0} /\ \A i \in 1..Depth : stack[i] \in FrameSet
      /\ stack[Depth] \in FrameSet /\ Top \in FrameSet /\ Top = stack[Depth]
  BY <1>1, TopIsFrame DEF Top, UnwindFind
<1>3. \A i \in 1..Depth : stack[i].cls \in Classes
  BY <1>2 DEF FrameSet
<1>4. loaded \subseteq session /\ posted \subseteq loaded
  BY <1>1 DEF Typed
<1>5. /\ UNCHANGED <<points, throwing, throws, calls>>
      /\ throwing /\ Top.fn = "find" /\ Top.phase # "callback"
  BY <1>1, <1>2 DEF UnwindFind, Top, Unlock, Forget, ClearDelayed
<1>6. /\ session' = session \ ({Top.obj} \cup DelayedOf(Top.cls))
      /\ loaded' = loaded \ ({Top.obj} \cup DelayedOf(Top.cls))
      /\ posted' = posted \ ({Top.obj} \cup DelayedOf(Top.cls))
  BY <1>1, <1>2, <1>5 DEF UnwindFind, Unlock, Forget, ClearDelayed
<1>7. dangling' = TRUE
  BY <1>1, <1>2, <1>5 DEF UnwindFind, Unlock, Forget, ClearDelayed
<1>8. locked' = [locked EXCEPT ![Top.cls] = FALSE]
  BY <1>1, <1>2, <1>5 DEF UnwindFind, Unlock, Forget, ClearDelayed
<1>9. delayed_' = [delayed_ EXCEPT ![Top.cls] = <<>>]
  BY <1>1, <1>2, <1>5 DEF UnwindFind, Unlock, Forget, ClearDelayed
<1>10. Top.cls \in Classes
  BY <1>1, <1>2, <1>5 DEF FrameSet
<1>11. /\ Inner(Depth) /\ Top.dls = <<>>
      /\ \A i \in 1..(Depth - 1) :
           stack[i].cls = Top.cls /\ (\A k \in 1..(Depth - 1) : i < k => stack[k].cls # Top.cls)
             => stack[i].phase = "callback"
  BY <1>1, <1>2, <1>5, <1>6, <1>7, <1>8, <1>9, <1>10, UnderFind DEF Inner, Finds
<1>12. Busy(Depth)
  BY <1>1, <1>2, <1>5 DEF Bottom, Busy, Finds
<1>13. /\ ~locked'[Top.cls] /\ locked' \in [Classes -> BOOLEAN]
      /\ \A c \in Classes \ {Top.cls} : locked'[c] = locked[c]
  BY <1>1, <1>2, <1>5, <1>6, <1>7, <1>8, <1>9, <1>10, <1>11, <1>12 DEF Typed
<1>14. /\ delayed_'[Top.cls] = <<>> /\ delayed_' \in [Classes -> Seq(Objects)]
      /\ \A c \in Classes \ {Top.cls} : delayed_'[c] = delayed_[c]
  BY <1>1, <1>2, <1>5, <1>6, <1>7, <1>8, <1>9, <1>10, <1>11, <1>12, <1>13, EmptySeq
     DEF Typed
<1>15. \A c \in Classes : c = Top.cls => DelayedOf(c)' = {} /\ Distinct(delayed_'[c])
  BY <1>14, MembersOfNone DEF DelayedOf
<1>16. \A c \in Classes \ {Top.cls} : DelayedOf(c)' = DelayedOf(c) /\ delayed_'[c] = delayed_[c]
  BY <1>14 DEF DelayedOf
<1>17. Popped
  BY <1>1, <1>2, <1>5, PoppedBelow DEF UnwindFind
<1>18. Depth' = Depth - 1
  BY <1>17 DEF Popped, Depth
<1>19. \A i \in 1..(Depth - 1) : stack'[i].fn = stack[i].fn
  BY <1>2, <1>17 DEF Popped, Depth
<1>20. \A i \in 1..(Depth - 1) : stack'[i].cls = stack[i].cls
  BY <1>2, <1>17 DEF Popped, Depth
<1>21. \A i \in 1..(Depth - 1) : stack'[i].obj = stack[i].obj
  BY <1>2, <1>17 DEF Popped, Depth
<1>22. \A i \in 1..(Depth - 1) : stack'[i].phase = stack[i].phase
  BY <1>2, <1>17 DEF Popped, Depth
<1>23. \A i \in 1..(Depth - 1) : stack'[i].todo = stack[i].todo
  BY <1>2, <1>17 DEF Popped, Depth
<1>24. \A i \in 1..(Depth - 1) : stack'[i].dls = stack[i].dls
  BY <1>2, <1>17 DEF Popped, Depth
<1>25. \A i \in 1..(Depth - 1) : stack[i].cls # stack[Depth].cls /\ Inner(i)' => Inner(i)
  BY <1>2, <1>18, <1>20 DEF Inner, Idle
<1>26. \A c \in Classes : c # stack[Depth].cls /\ Idle(c)' => Idle(c)
  BY <1>2, <1>18, <1>20 DEF Inner, Idle
<1>27. \A i \in 1..(Depth - 1) :
        stack[i].cls = stack[Depth].cls /\ Inner(i)' => stack[i].phase = "callback"
  BY <1>2, <1>18, <1>20, <1>1, <1>2, <1>5, <1>6, <1>7, <1>8, <1>9, <1>10, <1>11, <1>12,
     <1>13, <1>14, <1>15, <1>16 DEF Inner
<1>28. Typed'
  BY <1>1, <1>2, <1>5, <1>6, <1>7, <1>8, <1>9, <1>13, <1>14, <1>17 DEF Typed, Popped
<1>29. Bottom'
  BY <1>1, <1>2, <1>5, <1>10, <1>18, <1>19, <1>22 DEF Bottom, Finds, OnTop, Top
<1>30. Finds'
  BY <1>1, <1>2, <1>5, <1>10, <1>18, <1>19, <1>22, <1>24 DEF Finds
<1>31. OnTop'
  <2> SUFFICES ASSUME NEW i \in 1..Depth', NEW k \in 1..Depth', k = i + 1
               PROVE  /\ stack'[i].phase \in {"init", "post", "callback"}
                      /\ stack'[i].phase = "post" <=> stack'[k].fn = "load_delayed"
                      /\ stack'[i].phase = "post" => stack'[k].cls = stack'[i].cls
    BY DEF OnTop
  <2>1. /\ i \in 1..Depth /\ k \in 1..Depth /\ i # Depth
        /\ stack[i].phase \in {"init", "post", "callback"}
        /\ stack[i].phase = "post" <=> stack[k].fn = "load_delayed"
        /\ stack[i].phase = "post" => stack[k].cls = stack[i].cls
    BY <1>1, <1>2, <1>18 DEF OnTop
  <2>2. QED BY <2>1, <1>18, <1>19, <1>20, <1>22
<1>32. Alone'
  BY <1>1, <1>2, <1>5, <1>10, <1>18, <1>20, <1>22 DEF Alone
<1>33. Locks'
  BY <1>1, <1>2, <1>3, <1>5, <1>10, <1>11, <1>13, <1>18, <1>20, <1>22, <1>25, <1>26, <1>27
     DEF Locks
<1>34. Delays'
  <2>1. ASSUME NEW i \in 1..Depth', Inner(i)', delayed_'[stack'[i].cls] # <<>>
        PROVE  \/ stack'[i].phase \in {"init", "delayed"}
               \/ throwing' /\ i = Depth' /\ stack'[i].phase = "post"
    <3>1. CASE stack'[i].cls = stack[Depth].cls
      BY <1>1, <1>2, <1>3, <1>5, <1>10, <1>11, <1>13, <1>14, <1>18, <1>20, <1>22, <1>25,
         <1>26, <1>27, <2>1, <3>1 DEF Delays
    <3>2. CASE stack'[i].cls # stack[Depth].cls
      BY <1>1, <1>2, <1>3, <1>5, <1>10, <1>11, <1>13, <1>14, <1>18, <1>20, <1>22, <1>25,
         <1>26, <1>27, <2>1, <3>2 DEF Delays
    <3>3. QED BY <3>1, <3>2
  <2>2. \A c \in Classes : ~locked'[c] => delayed_'[c] = <<>>
    BY <1>1, <1>2, <1>3, <1>5, <1>10, <1>11, <1>13, <1>14, <1>18, <1>20, <1>22, <1>25,
       <1>26, <1>27 DEF Delays
  <2>3. QED BY <2>1, <2>2 DEF Delays
<1>35. Holds'
  BY <1>1, <1>2, <1>4, <1>5, <1>6, <1>10, <1>12, <1>18, <1>20, <1>21, <1>22, SMTT(30)
     DEF Holds, Busy, Reading, Apart, Delayed, Unheld, DelayedOf
<1>36. Apart'
  BY <1>1, <1>2, <1>4, <1>5, <1>6, <1>10, <1>12, <1>18, <1>21, <1>22 DEF Apart, Busy, Holds
<1>37. Waiting'
  BY <1>1, <1>2, <1>3, <1>4, <1>5, <1>6, <1>10, <1>11, <1>12, <1>15, <1>16, <1>18, <1>20,
     <1>21, <1>22, <1>24, SMTT(30) DEF Waiting, Unheld, Busy, Reading, Holds, DelayedOf,
     Delayed
<1>38. Delayed'
  BY <1>1, <1>2, <1>3, <1>4, <1>5, <1>6, <1>10, <1>12, <1>15, <1>16, <1>18, <1>21, <1>22
     DEF Delayed, Unheld, Busy, Reading, Holds, DelayedOf, Waiting
<1>39. Pending'
  BY <1>1, <1>2, <1>4, <1>5, <1>6, <1>10, <1>11, <1>12, <1>15, <1>16, <1>18, <1>21, <1>22,
     <1>24, MembersOfNone DEF Pending, Busy, Reading, DelayedOf, Holds
<1>40. Reached'
  BY <1>1, <1>2, <1>4, <1>5, <1>6, <1>7, <1>10, <1>12, <1>18, <1>19, <1>21, <1>22, <1>23
     DEF Reached, Asked, Busy, Holds
<1>41. QED BY <1>28, <1>29, <1>30, <1>31, <1>32, <1>33, <1>34, <1>35, <1>36, <1>37, <1>38,
              <1>39, <1>40 DEF IInv, Nesting, OnePlace

------------------------------------------------------------------------------
\* The induction.

LEMMA InitInv ==
  ASSUME Init
  PROVE  IInv
<1>1. /\ stack = <<>> /\ Depth = 0 /\ session = {} /\ loaded = {} /\ posted = {}
      /\ \A c \in Classes : ~locked[c] /\ delayed_[c] = <<>>
  BY DEF Init, Depth
<1>2. Typed
  <2>1. points \in Graphs /\ points \in [Objects -> SUBSET Objects]
    BY DelayedLoadingAssumption DEF Init
  <2>2. stack \in Seq(FrameSet)
    BY <1>1, EmptySeq
  <2>3. /\ locked \in [Classes -> BOOLEAN]
        /\ delayed_ \in [Classes -> Seq(Objects)]
    BY EmptySeq DEF Init
  <2>4. throws \in 0..MaxThrows /\ calls \in 0..MaxCalls
    BY DelayedLoadingAssumption DEF Init
  <2>5. QED BY <1>1, <2>1, <2>2, <2>3, <2>4 DEF Init, Typed
<1>3. Nesting /\ Locks /\ Delays
  BY <1>1 DEF Nesting, Bottom, Finds, OnTop, Alone, Locks, Delays
<1>4. OnePlace
  <2>1. \A c \in Classes : DelayedOf(c) = {} /\ Distinct(delayed_[c])
    BY <1>1, MembersOfNone DEF DelayedOf
  <2>2. QED BY <1>1, <2>1 DEF OnePlace, Holds, Apart, Waiting, Delayed
<1>5. Pending /\ Reached
  BY <1>1 DEF Pending, Reached
<1>6. QED BY <1>2, <1>3, <1>4, <1>5 DEF IInv

\* Nothing changes.
LEMMA StutterInv ==
  ASSUME IInv, UNCHANGED vars
  PROVE  IInv'
<1>1. UNCHANGED <<points, stack, locked, delayed_, session, loaded, posted, throwing,
                  throws, calls, dangling>>
  BY DEF vars
<1>2. Typed'
  BY <1>1 DEF IInv, Typed
<1>3. Nesting'
  BY <1>1 DEF IInv, Nesting, Bottom, Finds, OnTop, Alone, Depth, Top
<1>4. Locks' /\ Delays'
  BY <1>1 DEF IInv, Locks, Delays, Depth, Inner, Idle
<1>5. OnePlace'
  <2>1. Holds' /\ Apart'
    BY <1>1 DEF IInv, OnePlace, Holds, Apart, Depth, Busy, Reading
  <2>2. Waiting' /\ Delayed'
    BY <1>1 DEF IInv, OnePlace, Holds, Waiting, Delayed, Depth, Busy, Reading, Unheld,
       DelayedOf
  <2>3. QED BY <2>1, <2>2 DEF OnePlace
<1>6. Pending' /\ Reached'
  BY <1>1 DEF IInv, Holds, Pending, Reached, Depth, Busy, Reading, DelayedOf, Asked
<1>7. QED BY <1>2, <1>3, <1>4, <1>5, <1>6 DEF IInv

\* Every step, by the operation and the branch it takes.
LEMMA StepInv ==
  ASSUME IInv, [Next]_vars
  PROVE  IInv'
<1>1. CASE TakeDelayed
  BY <1>1, TakeDelayedEnds, TakeDelayedTakes
<1>2. CASE Read
  BY <1>2, ReadInv
<1>3. CASE ReadNothing
  BY <1>3, ReadNothingReturns, ReadNothingThrows
<1>4. CASE \E p \in Objects : InitPointer(p)
  BY <1>4, InitPointerKnown, InitPointerDelays, InitPointerLoads
<1>5. CASE InitDone
  BY <1>5, InitDoneInv
<1>6. CASE LoadDelayed
  BY <1>6, LoadDelayedNone, LoadDelayedLoads
<1>7. CASE PostLoad
  BY <1>7, PostLoadInv
<1>8. CASE Return
  BY <1>8, ReturnFind, ReturnLoadDelayed
<1>9. CASE UnwindLoadDelayed
  BY <1>9, UnwindLoadDelayedInv
<1>10. CASE UnwindFind
  BY <1>10, UnwindFindCallback, UnwindFindLoading
<1>11. CASE Throw
  BY <1>11, ThrowInv
<1>12. CASE Catch
  BY <1>12, CatchInv
<1>13. CASE \E o \in Objects : Find(o)
  BY <1>13, FindDelays, FindLoads
<1>14. CASE \E o \in Objects : LoadRow(o)
  BY <1>14, LoadRowInv
<1>15. CASE UNCHANGED vars
  BY <1>15, StutterInv
<1>16. QED BY <1>1, <1>2, <1>3, <1>4, <1>5, <1>6, <1>7, <1>8, <1>9, <1>10, <1>11, <1>12,
              <1>13, <1>14, <1>15 DEF Next, Step

LEMMA Invariance == Spec => []IInv
<1>1. Init => IInv
  BY InitInv
<1>2. IInv /\ [Next]_vars => IInv'
  BY StepInv
<1>3. QED BY <1>1, <1>2, PTL DEF Spec

------------------------------------------------------------------------------
\* What follows.

\* Every variable has its type, and what a class delays are objects of the session
\* that are not loaded, of that class.
THEOREM TypeCorrect == Spec => []TypeOK
<1>1. IInv => TypeOK
  <2> SUFFICES ASSUME IInv PROVE TypeOK
    OBVIOUS
  <2>1. Typed /\ Delayed
    BY DEF IInv, OnePlace
  <2>2. \A i \in 1..Depth : stack[i] \in FrameSet
    BY <2>1, TopIsFrame
  <2>3. \A c \in Classes : Members(delayed_[c]) \subseteq {o \in session \ loaded : ClassOf[o] = c}
    BY <2>1 DEF Delayed, Unheld, DelayedOf
  <2>4. QED BY <2>1, <2>2, <2>3 DEF TypeOK, Typed, FrameSet
<1>2. QED BY <1>1, Invariance, PTL

\* The innermost frame of a class has no frame of the class on top of it.
LEMMA InnermostIsInner ==
  ASSUME Typed, NEW c \in Classes, FramesOf(c) # {}
  PROVE  Innermost(c) \in FramesOf(c) /\ Inner(Innermost(c))
<1>1. Depth \in Nat /\ FramesOf(c) \in SUBSET (1..Depth)
  BY TopIsFrame DEF FramesOf
<1>2. \E i \in FramesOf(c) : \A k \in FramesOf(c) : k <= i
  BY <1>1, Greatest
<1>3. /\ Innermost(c) \in FramesOf(c)
      /\ \A k \in FramesOf(c) : k <= Innermost(c)
  BY <1>2, Zenon DEF Innermost
<1>4. Innermost(c) \in 1..Depth /\ stack[Innermost(c)].cls = c
  BY <1>3 DEF FramesOf
<1>5. ASSUME NEW k \in 1..Depth, Innermost(c) < k, stack[k].cls = stack[Innermost(c)].cls
      PROVE  FALSE
  <2>1. k \in FramesOf(c)
    BY <1>4, <1>5 DEF FramesOf
  <2>2. QED BY <1>1, <1>3, <1>4, <1>5, <2>1
<1>6. QED BY <1>3, <1>5 DEF Inner

\* One object at a time is initialised from a class's image; the statements are
\* locked exactly while the innermost call of the class is not in a callback; and
\* nothing is delayed for statements that are not locked, whatever was thrown
\* (find_(), load_delayed_() and the guards of both).
THEOREM TheLockGuardsTheImage == Spec => []LockGuardsTheImage
<1>1. IInv => LockGuardsTheImage
  <2> SUFFICES ASSUME IInv, NEW c \in Classes
               PROVE  /\ Cardinality({i \in FramesOf(c) : stack[i].phase = "init"}) <= 1
                      /\ locked[c] <=> FramesOf(c) # {} /\ stack[Innermost(c)].phase # "callback"
                      /\ ~locked[c] => delayed_[c] = <<>>
    BY DEF LockGuardsTheImage
  <2>1. Typed /\ Alone /\ Locks /\ Delays /\ Depth \in Nat
    BY TopIsFrame DEF IInv, Nesting
  <2>2. Cardinality({i \in FramesOf(c) : stack[i].phase = "init"}) <= 1
    <3> DEFINE T == {i \in FramesOf(c) : stack[i].phase = "init"}
    <3>1. \A i, k \in T : i \in 1..Depth /\ k \in 1..Depth /\ ~(i < k) /\ ~(k < i)
      BY <2>1 DEF Alone, FramesOf
    <3>2. \A i, k \in T : i = k
      BY <2>1, <3>1
    <3>3. CASE T = {}
      BY <3>3, FS_EmptySet
    <3>4. CASE T # {}
      <4>1. PICK i \in T : TRUE
        BY <3>4
      <4>2. T = {i}
        BY <3>2, <4>1
      <4> HIDE DEF T
      <4>3. Cardinality(T) = 1
        BY <4>2, FS_Singleton
      <4>4. QED BY <4>3 DEF T
    <3>5. QED BY <3>3, <3>4
  <2>3. CASE FramesOf(c) = {}
    <3>1. Idle(c)
      BY <2>3 DEF FramesOf, Idle
    <3>2. QED BY <2>1, <2>2, <2>3, <3>1 DEF Locks, Delays
  <2>4. CASE FramesOf(c) # {}
    <3>1. Innermost(c) \in 1..Depth /\ stack[Innermost(c)].cls = c /\ Inner(Innermost(c))
      BY <2>1, <2>4, InnermostIsInner DEF FramesOf
    <3>2. locked[c] <=> stack[Innermost(c)].phase # "callback"
      BY <2>1, <3>1 DEF Locks
    <3>3. QED BY <2>1, <2>2, <2>4, <3>2 DEF Delays
  <2>5. QED BY <2>3, <2>4
<1>2. QED BY <1>1, Invariance, PTL

\* Once the outermost call is over, whatever was thrown, the session holds only
\* objects that were loaded and had their callback.
THEOREM TheSessionIsSound == Spec => []SessionIsSound
<1>1. IInv => SessionIsSound
  <2> SUFFICES ASSUME IInv, stack = <<>> PROVE session = posted
    BY DEF SessionIsSound
  <2>1. Typed /\ Locks /\ Delays /\ Pending /\ Depth = 0
    BY DEF IInv, Depth
  <2>2. \A c \in Classes : delayed_[c] = <<>>
    BY <2>1 DEF Locks, Delays, Idle
  <2>3. \A c \in Classes : DelayedOf(c) = {}
    BY <2>2, MembersOfNone DEF DelayedOf
  <2>4. session \ loaded = {} /\ loaded \ posted = {}
    BY <2>1, <2>3 DEF Pending
  <2>5. QED BY <2>1, <2>4 DEF Typed
<1>2. QED BY <1>1, Invariance, PTL

\* When an object's post_load callback is called, what the object points to is
\* loaded, or some call that is still active is to load it.
THEOREM CallbacksSeePointees == Spec => []CallbackSeesPointees
<1>1. IInv => CallbackSeesPointees
  <2> SUFFICES ASSUME IInv, ~dangling, Depth > 0, Top.phase = "callback",
                      NEW p \in points[Top.obj], p \notin loaded
               PROVE  p \in PutOff
    BY DEF CallbackSeesPointees
  <2>1. Typed /\ Pending /\ Reached /\ Delays /\ Depth \in 1..Depth /\ Top = stack[Depth]
    BY TopIsFrame DEF IInv, Top
  <2>2. p \in session \ loaded
    BY <2>1 DEF Reached
  <2>3. ASSUME NEW i \in 1..Depth, stack[i].obj = p \/ p \in Members(stack[i].dls)
        PROVE  p \in PutOff
    <3> DEFINE S == Members(stack[i].dls) \cup {stack[i].obj}
    <3>1. p \in S
      BY <2>3
    <3>2. S \in {Members(stack[k].dls) \cup {stack[k].obj} : k \in 1..Depth}
      OBVIOUS
    <3>3. QED BY <3>1, <3>2, Zenon DEF PutOff
  <2>4. ASSUME NEW c \in Classes, p \in DelayedOf(c)
        PROVE  p \in PutOff
    <3>1. locked[c]
      BY <2>1, <2>4, MembersOfNone DEF Delays, DelayedOf
    <3>2. QED BY <2>4, <3>1 DEF PutOff
  <2>5. QED BY <2>1, <2>2, <2>3, <2>4 DEF Pending
<1>2. QED BY <1>1, Invariance, PTL
==============================================================================
