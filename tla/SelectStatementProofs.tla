------------------------- MODULE SelectStatementProofs -------------------------
(****************************************************************************)
(* The safety of select statements, for any columns, any ways to bind them, *)
(* and any joins.  What a pass over the bind array lists is proved by the   *)
(* least column for which it would be wrong; that the pass over the JOINs   *)
(* keeps just the needed ones, from its order.                              *)
(****************************************************************************)
EXTENDS SelectStatement, Integers, SequenceTheorems, FiniteSetTheorems,
        WellFoundedInduction, TLAPS

------------------------------------------------------------------------------
\* That something holds of every number is proved by the least for which it does not.

\* A set of natural numbers has a least one.
LEMMA Least ==
  ASSUME NEW T \in SUBSET Nat, T # {}
  PROVE  \E x \in T : \A y \in T : x <= y
<1>1. PICK x \in T : \A y \in T : ~(<<y, x>> \in OpToRel(<, Nat))
  BY NatLessThanWellFounded, WFMin
<1>2. \A y \in T : ~(y < x)
  BY <1>1 DEF OpToRel
<1>3. QED BY <1>2

------------------------------------------------------------------------------
\* What a pass over the bind array lists.

\* How many of the columns of C there are up to c.
Rank(C, c) == Cardinality(C \cap (1..c))

\* q lists the columns of C up to m in their order.
Lists(C, m, q) ==
  /\ q \in Seq(Columns) /\ Len(q) = Rank(C, m)
  /\ \A c \in C : c <= m => Rank(C, c) \in 1..Len(q) /\ q[Rank(C, c)] = c
  /\ \A i \in 1..Len(q) : q[i] \in C /\ Rank(C, q[i]) = i

LEMMA Numbers == Len(ColumnOf) \in Nat /\ Columns = 1..Len(ColumnOf)
BY SelectStatementAssumption DEF Columns

LEMMA RankStep ==
  ASSUME NEW C \in SUBSET Columns
  PROVE  /\ Rank(C, 0) = 0
         /\ \A c \in Nat : Rank(C, c) \in Nat
         /\ \A c \in Columns :
              Rank(C, c) = (IF c \in C THEN Rank(C, c - 1) + 1 ELSE Rank(C, c - 1))
<1>1. ASSUME NEW c \in Nat PROVE IsFiniteSet(C \cap (1..c)) /\ Rank(C, c) \in Nat
  <2>1. IsFiniteSet(1..c)
    BY FS_Interval
  <2>2. IsFiniteSet(C \cap (1..c))
    BY <2>1, FS_Intersection
  <2>3. QED BY <2>2, FS_CardinalityType DEF Rank
<1>2. Rank(C, 0) = 0
  <2>1. C \cap (1..0) = {}
    OBVIOUS
  <2>2. QED BY <2>1, FS_EmptySet DEF Rank
<1>3. ASSUME NEW c \in Columns
      PROVE  Rank(C, c) = (IF c \in C THEN Rank(C, c - 1) + 1 ELSE Rank(C, c - 1))
  <2> DEFINE B == C \cap (1..(c - 1))
             D == C \cap (1..c)
  <2>1. c \in Nat /\ c - 1 \in Nat /\ c > 0
    BY Numbers
  <2>2. c \notin B /\ D = (IF c \in C THEN B \cup {c} ELSE B)
    BY <2>1
  <2>3. IsFiniteSet(B)
    BY <1>1, <2>1
  <2>4. Cardinality(B \cup {c}) = Cardinality(B) + 1
    <3> HIDE DEF B
    <3>1. QED BY <2>2, <2>3, FS_AddElement
  <2>5. QED BY <2>2, <2>4 DEF Rank
<1>4. QED BY <1>1, <1>2, <1>3

\* A later column of the list does not come before.
LEMMA RankGrows ==
  ASSUME NEW C \in SUBSET Columns, NEW c \in Nat, NEW d \in Nat, c <= d
  PROVE  Rank(C, c) <= Rank(C, d)
<1>1. IsFiniteSet(C \cap (1..d)) /\ C \cap (1..c) \in SUBSET (C \cap (1..d))
  <2>1. IsFiniteSet(1..d)
    BY FS_Interval
  <2>2. IsFiniteSet(C \cap (1..d))
    BY <2>1, FS_Intersection
  <2>3. \A i \in 1..c : i \in 1..d
    OBVIOUS
  <2>4. QED BY <2>2, <2>3
<1>2. QED BY <1>1, FS_Subset DEF Rank

\* All the columns are columns up to the last.
LEMMA RankOfAll ==
  ASSUME NEW C \in SUBSET Columns
  PROVE  Rank(C, Len(ColumnOf)) = Cardinality(C)
<1>1. C \cap (1..Len(ColumnOf)) = C
  BY Numbers
<1>2. QED BY <1>1 DEF Rank

Pass(C, m, f) ==
  f = [c \in 0..m |->
         IF c = 0 THEN <<>> ELSE IF c \in C THEN Append(f[c - 1], c) ELSE f[c - 1]]

\* The recursive function exists.
LEMMA PassExists ==
  ASSUME NEW C, NEW m \in Nat
  PROVE  \E f : Pass(C, m, f)
<1> DEFINE T == {n \in Nat : ~(\E f : Pass(C, n, f))}
<1>1. SUFFICES ASSUME T # {} PROVE FALSE
  OBVIOUS
<1>2. PICK n \in T : \A y \in T : n <= y
  BY <1>1, Least
<1>3. n # 0
  <2> DEFINE f == [c \in 0..0 |-> <<>>]
  <2>1. Pass(C, 0, f)
    BY DEF Pass
  <2>2. QED BY <2>1
<1>4. n - 1 \in Nat /\ n - 1 \notin T
  BY <1>2, <1>3
<1>5. PICK g : Pass(C, n - 1, g)
  BY <1>4
<1> DEFINE last == IF n \in C THEN Append(g[n - 1], n) ELSE g[n - 1]
           f == [c \in 0..n |-> IF c = n THEN last ELSE g[c]]
<1>6. Pass(C, n, f)
  <2>1. f[n] = last /\ \A c \in 0..(n - 1) : f[c] = g[c]
    BY <1>2
  <2>2. f = [c \in 0..n |-> f[c]]
    OBVIOUS
  <2> HIDE DEF f
  <2>3. ASSUME NEW c \in 0..n
        PROVE  f[c] = IF c = 0 THEN <<>>
                      ELSE IF c \in C THEN Append(f[c - 1], c) ELSE f[c - 1]
    <3>1. CASE c = n
      <4>1. n - 1 \in 0..(n - 1)
        BY <1>4
      <4>2. QED BY <1>3, <2>1, <3>1, <4>1
    <3>2. CASE c # n
      <4>1. c \in 0..(n - 1) /\ (c # 0 => c - 1 \in 0..(n - 1))
        BY <3>2
      <4>2. g[c] = IF c = 0 THEN <<>>
                   ELSE IF c \in C THEN Append(g[c - 1], c) ELSE g[c - 1]
        BY <1>5, <4>1 DEF Pass
      <4>3. f[c] = g[c] /\ (c # 0 => f[c - 1] = g[c - 1])
        BY <2>1, <4>1
      <4>4. QED BY <4>2, <4>3
    <3>3. QED BY <3>1, <3>2
  <2>4. QED BY <2>2, <2>3 DEF Pass
<1>7. QED BY <1>6

\* One more column.
LEMMA ListsOneMore ==
  ASSUME NEW C \in SUBSET Columns, NEW c \in Columns, NEW q, Lists(C, c - 1, q)
  PROVE  Lists(C, c, IF c \in C THEN Append(q, c) ELSE q)
<1>1. /\ c \in Nat /\ c - 1 \in Nat /\ c > 0
      /\ \A d \in C : d \in Nat /\ d <= c <=> d <= c - 1 \/ d = c
  BY Numbers
<1>2. /\ Rank(C, c - 1) \in Nat
      /\ Rank(C, c) = (IF c \in C THEN Rank(C, c - 1) + 1 ELSE Rank(C, c - 1))
  BY <1>1, RankStep
<1>3. /\ q \in Seq(Columns) /\ Len(q) = Rank(C, c - 1)
      /\ \A d \in C : d <= c - 1 => Rank(C, d) \in 1..Len(q) /\ q[Rank(C, d)] = d
      /\ \A i \in 1..Len(q) : q[i] \in C /\ Rank(C, q[i]) = i
  BY DEF Lists
<1>4. CASE c \in C
  <2> DEFINE r == Append(q, c)
  <2>1. /\ r \in Seq(Columns) /\ Len(r) = Len(q) + 1 /\ r[Len(q) + 1] = c
        /\ \A i \in 1..Len(q) : r[i] = q[i]
    BY <1>3
  <2> HIDE DEF r
  <2>2. Len(r) = Rank(C, c) /\ Len(q) \in Nat
    BY <1>2, <1>3, <1>4, <2>1
  <2>3. ASSUME NEW d \in C, d <= c
        PROVE  Rank(C, d) \in 1..Len(r) /\ r[Rank(C, d)] = d
    <3>1. CASE d = c
      BY <2>1, <2>2, <3>1
    <3>2. CASE d <= c - 1
      BY <1>3, <2>1, <2>2, <3>2
    <3>3. QED BY <1>1, <2>3, <3>1, <3>2
  <2>4. ASSUME NEW i \in 1..Len(r)
        PROVE  r[i] \in C /\ Rank(C, r[i]) = i
    <3>1. CASE i = Len(q) + 1
      BY <1>4, <2>1, <2>2, <3>1
    <3>2. CASE i \in 1..Len(q)
      BY <1>3, <2>1, <3>2
    <3>3. QED BY <2>1, <2>2, <3>1, <3>2
  <2>5. QED BY <1>4, <2>1, <2>2, <2>3, <2>4 DEF Lists, r
<1>5. CASE c \notin C
  BY <1>1, <1>2, <1>3, <1>5 DEF Lists
<1>6. QED BY <1>4, <1>5

\* A pass lists what has been asked for.
LEMMA InOrderLists ==
  ASSUME NEW C \in SUBSET Columns
  PROVE  Lists(C, Len(ColumnOf), InOrder(C))
<1> DEFINE m == Len(ColumnOf)
           f == CHOOSE f : f = [c \in 0..m |->
                  IF c = 0 THEN <<>> ELSE IF c \in C THEN Append(f[c - 1], c) ELSE f[c - 1]]
           T == {n \in 0..m : ~Lists(C, n, f[n])}
<1>1. InOrder(C) = f[m]
  BY DEF InOrder
<1>2. m \in Nat
  BY Numbers
<1>3. \E g : Pass(C, m, g)
  BY <1>2, PassExists
<1>4. f = [c \in 0..m |->
            IF c = 0 THEN <<>> ELSE IF c \in C THEN Append(f[c - 1], c) ELSE f[c - 1]]
  BY <1>3, Zenon DEF Pass
<1> HIDE DEF f
<1>5. \A c \in 0..m :
        f[c] = IF c = 0 THEN <<>> ELSE IF c \in C THEN Append(f[c - 1], c) ELSE f[c - 1]
  BY <1>4
<1>6. SUFFICES ASSUME T # {} PROVE FALSE
  BY <1>1, <1>2
<1>7. T \in SUBSET Nat
  BY <1>2
<1>8. PICK n \in T : \A y \in T : n <= y
  BY <1>6, <1>7, Least
<1>9. n # 0
  <2>1. f[0] = <<>> /\ Lists(C, 0, <<>>)
    <3>1. Len(<<>>) = Rank(C, 0) /\ <<>> \in Seq(Columns)
      BY RankStep
    <3>2. \A c \in C : ~(c <= 0)
      BY Numbers
    <3>3. QED BY <1>2, <1>5, <3>1, <3>2 DEF Lists
  <2>2. QED BY <1>8, <2>1
<1>10. n \in Columns /\ n - 1 \in 0..m /\ n - 1 \notin T
  BY <1>2, <1>8, <1>9, Numbers
<1>11. Lists(C, n - 1, f[n - 1])
  BY <1>10
<1>12. f[n] = IF n \in C THEN Append(f[n - 1], n) ELSE f[n - 1]
  BY <1>5, <1>8, <1>9
<1>13. Lists(C, n, f[n])
  BY <1>10, <1>11, <1>12, ListsOneMore
<1>14. QED BY <1>8, <1>13
------------------------------------------------------------------------------
\* The inductive invariant.

Kinds == {"absent", "plain", "long"}
Plains == InList("plain")
Longs == InList("long")

Typed ==
  /\ kind \in [Columns -> Kinds]
  /\ on \in [Range(Joins) -> SUBSET Range(Joins)]
  /\ trailer \subseteq Range(Joins) /\ optimize \in BOOLEAN
  /\ pc \in Steps
  /\ streamed \in [entry : Nat, column : Nat]

\* The three places agree: the text has the plain columns, then the long data, and
\* the bound columns are those that come first in it.
TextAndBuffers ==
  /\ text = (IF pc \in {"process", "empty"} THEN <<>> ELSE Plains \o Longs)
  /\ boundTo = (IF pc \in {"execute", "stream", "done"} THEN Plains ELSE <<>>)

\* stream_result() has filled the long data that it has been through, and is at the
\* column behind them.
Filled ==
  IF pc \in {"stream", "done"}
  THEN /\ streamed.entry \in 0..Len(ColumnOf)
       /\ streamed.column = Len(Plains) + Rank(Of("long"), streamed.entry)
       /\ buffer = [c \in Columns |->
            IF kind[c] = "plain" \/ (kind[c] = "long" /\ c <= streamed.entry)
            THEN c ELSE NoColumn]
       /\ pc = "stream" => streamed.entry < Len(ColumnOf)
       /\ pc = "done" => \A c \in Of("long") : c <= streamed.entry
  ELSE /\ streamed.entry = 0 /\ streamed.column = 0
       /\ buffer = [c \in Columns |-> NoColumn]

\* The JOINs that pass 2 has been through are there if they are needed.
JoinsSoFar ==
  /\ \A j \in Range(Joins) : on[j] \subseteq UpTo(j)
  /\ Len(todo) <= Len(Joins) /\ todo = SubSeq(Joins, 1, Len(todo))
  /\ kept \subseteq Range(Joins)
  /\ pc \in {"process", "joins"} =>
       kept = {a \in Needed : \E m \in (Len(todo) + 1)..Len(Joins) : Joins[m] = a}
  /\ pc = "process" => todo = Joins
  /\ JoinsAreTheNeeded

IInv == Typed /\ TextAndBuffers /\ Filled /\ JoinsSoFar

------------------------------------------------------------------------------
\* What the text and the buffers say of the columns.

LEMMA ThePasses ==
  ASSUME NEW k \in Kinds
  PROVE  Lists(Of(k), Len(ColumnOf), InList(k)) /\ Len(InList(k)) = Cardinality(Of(k))
<1>1. Of(k) \in SUBSET Columns
  BY DEF Of
<1>2. Lists(Of(k), Len(ColumnOf), InList(k))
  BY <1>1, InOrderLists DEF InList
<1>3. QED BY <1>1, <1>2, RankOfAll DEF Lists

\* The columns of a statement are the plain ones and then the long data, and none
\* is there twice.
LEMMA TheText ==
  /\ Plains \in Seq(Columns) /\ Longs \in Seq(Columns)
  /\ Len(Plains) \in Nat /\ Len(Longs) = LongCount /\ LongCount \in Nat
  /\ Plains \o Longs \in Seq(Columns) /\ Len(Plains \o Longs) = Len(Plains) + Len(Longs)
  /\ \A i \in 1..Len(Plains) : (Plains \o Longs)[i] = Plains[i] /\ kind[Plains[i]] = "plain"
  /\ \A i \in 1..Len(Longs) :
       (Plains \o Longs)[Len(Plains) + i] = Longs[i] /\ kind[Longs[i]] = "long"
  /\ IsInjective(Plains \o Longs)
<1>1. /\ Lists(Of("plain"), Len(ColumnOf), Plains)
      /\ Lists(Of("long"), Len(ColumnOf), Longs) /\ Len(Longs) = LongCount
  BY ThePasses DEF Kinds, Plains, Longs, LongCount
<1> DEFINE t == Plains \o Longs
<1>2. Plains \in Seq(Columns) /\ Longs \in Seq(Columns)
  BY <1>1 DEF Lists
<1>3. /\ t \in Seq(Columns) /\ Len(t) = Len(Plains) + Len(Longs)
      /\ Len(Plains) \in Nat /\ Len(Longs) \in Nat
      /\ \A i \in 1..Len(Plains) : t[i] = Plains[i]
      /\ \A i \in 1..Len(Longs) : t[Len(Plains) + i] = Longs[i]
  BY <1>2
<1>4. /\ \A i \in 1..Len(Plains) :
           kind[Plains[i]] = "plain" /\ Rank(Of("plain"), Plains[i]) = i
      /\ \A i \in 1..Len(Longs) : kind[Longs[i]] = "long" /\ Rank(Of("long"), Longs[i]) = i
  BY <1>1 DEF Lists, Of
<1> HIDE DEF t
<1>5. ASSUME NEW i \in 1..Len(t)
      PROVE  \/ /\ kind[t[i]] = "plain" /\ Rank(Of("plain"), t[i]) = i
             \/ /\ kind[t[i]] = "long" /\ Rank(Of("long"), t[i]) = i - Len(Plains)
  <2>1. CASE i \in 1..Len(Plains)
    BY <1>3, <1>4, <2>1
  <2>2. CASE i \notin 1..Len(Plains)
    <3> DEFINE j == i - Len(Plains)
    <3>1. j \in 1..Len(Longs) /\ Len(Plains) + j = i
      BY <1>3, <2>2
    <3>2. t[i] = Longs[j]
      BY <1>3, <3>1
    <3> HIDE DEF j
    <3>3. kind[t[i]] = "long" /\ Rank(Of("long"), t[i]) = j
      BY <1>4, <3>1, <3>2
    <3>4. QED BY <3>3 DEF j
  <2>3. QED BY <2>1, <2>2
<1>6. ASSUME NEW i \in 1..Len(t), NEW j \in 1..Len(t), t[i] = t[j]
      PROVE  i = j
  <2>1. CASE kind[t[i]] = "plain"
    <3>1. Rank(Of("plain"), t[i]) = i /\ Rank(Of("plain"), t[j]) = j
      BY <1>5, <1>6, <2>1
    <3>2. QED BY <1>6, <3>1
  <2>2. CASE kind[t[i]] # "plain"
    <3>1. /\ Rank(Of("long"), t[i]) = i - Len(Plains)
          /\ Rank(Of("long"), t[j]) = j - Len(Plains)
      BY <1>5, <1>6, <2>2
    <3>2. i - Len(Plains) = j - Len(Plains)
      BY <1>6, <3>1
    <3>3. QED BY <1>3, <3>2
  <2>3. QED BY <2>1, <2>2
<1>7. IsInjective(t)
  BY <1>3, <1>6 DEF IsInjective
<1>8. QED BY <1>1, <1>2, <1>3, <1>4, <1>7 DEF t

\* While the bind array is what it was, so is what a pass lists.
LEMMA SamePasses ==
  ASSUME UNCHANGED kind
  PROVE  Plains' = Plains /\ Longs' = Longs /\ Of("long")' = Of("long") /\ Fast' = Fast
BY DEF Plains, Longs, InList, InOrder, Of, Fast

------------------------------------------------------------------------------
\* The JOINs.

\* What is needed is closed, too.
LEMMA NeededIsClosed == Closed(Needed)
<1>1. ASSUME NEW a \in Range(Joins), NEW j \in Needed, a \in on[j] \ {j}
      PROVE  a \in Needed
  <2>1. ASSUME NEW S \in SUBSET Range(Joins), Closed(S) PROVE a \in S
    <3>1. j \in S
      BY <2>1 DEF Needed
    <3>2. QED BY <1>1, <2>1, <3>1 DEF Closed
  <2>2. QED BY <2>1 DEF Needed
<1>2. ASSUME NEW a \in Range(Joins), a \in trailer \/ \E c \in Range(text) : ColumnOf[c] = a
      PROVE  a \in Needed
  BY <1>2 DEF Needed, Closed
<1>3. QED BY <1>1, <1>2 DEF Closed

\* Needed changes with the text and what the statement mentions only.
LEMMA SameNeeded ==
  ASSUME UNCHANGED <<input, text>>
  PROVE  Needed' = Needed
BY DEF input, Needed, Closed

\* An ON condition mentions no alias that comes later.
LEMMA OnBefore ==
  ASSUME JoinsSoFar, NEW k \in 1..Len(Joins), NEW m \in 1..Len(Joins), Joins[k] \in on[Joins[m]]
  PROVE  k <= m
<1>1. Joins[m] \in Range(Joins) /\ Joins[k] \in UpTo(Joins[m]) /\ DOMAIN Joins = 1..Len(Joins)
  BY SelectStatementAssumption DEF JoinsSoFar, Range
<1>2. \A x, y \in 1..Len(Joins) : Joins[x] = Joins[y] => x = y
  BY <1>1, SelectStatementAssumption DEF IsInjective
<1>3. (CHOOSE x \in DOMAIN Joins : Joins[x] = Joins[m]) = m
  BY <1>1, <1>2
<1>4. PICK x \in 1..m : Joins[k] = Joins[x]
  BY <1>1, <1>3 DEF UpTo
<1>5. x \in 1..Len(Joins)
  OBVIOUS
<1>6. QED BY <1>2, <1>4, <1>5

\* The JOIN that is looked at is used by the statement so far if it is needed.
LEMMA UsedIsNeeded ==
  ASSUME JoinsSoFar, pc = "joins", NEW t \in 1..Len(Joins), t = Len(todo)
  PROVE  Used(Joins[t]) <=> Joins[t] \in Needed
<1> DEFINE a == Joins[t]
<1>1. /\ DOMAIN Joins = 1..Len(Joins) /\ a \in Range(Joins)
      /\ \A x, y \in 1..Len(Joins) : Joins[x] = Joins[y] => x = y
      /\ \A b \in Range(Joins) : \E m \in 1..Len(Joins) : b = Joins[m]
  BY SelectStatementAssumption DEF Range, IsInjective
<1>2. kept = {b \in Needed : \E m \in (t + 1)..Len(Joins) : Joins[m] = b}
  BY DEF JoinsSoFar
<1>3. Closed(Needed) /\ Needed \subseteq Range(Joins)
  BY NeededIsClosed DEF Needed
<1>4. ASSUME Used(a) PROVE a \in Needed
  <2>1. CASE \E j \in kept : a \in on[j]
    <3>1. PICK j \in kept : a \in on[j]
      BY <2>1
    <3>2. PICK m \in (t + 1)..Len(Joins) : Joins[m] = j
      BY <1>2, <3>1
    <3>3. j \in Needed /\ j # a
      BY <1>1, <1>2, <3>1, <3>2
    <3>4. QED BY <1>1, <1>3, <3>1, <3>3 DEF Closed
  <2>2. CASE a \in trailer \/ \E c \in Range(text) : ColumnOf[c] = a
    BY <1>1, <1>3, <2>2 DEF Closed
  <2>3. QED BY <1>4, <2>1, <2>2 DEF Used
<1>5. ASSUME a \in Needed, ~Used(a) PROVE FALSE
  <2> DEFINE S == Needed \ {a}
  <2>1. ASSUME NEW b \in Range(Joins), NEW j \in S, b \in on[j] \ {j}
        PROVE  b \in S
    <3>1. b \in Needed
      BY <1>3, <2>1 DEF Closed
    <3>2. ASSUME b = a PROVE FALSE
      <4>1. PICK m \in 1..Len(Joins) : j = Joins[m]
        BY <1>1, <1>3
      <4>2. t <= m /\ t # m
        BY <2>1, <3>2, <4>1, OnBefore
      <4>3. j \in kept
        BY <1>2, <4>1, <4>2
      <4>4. QED BY <1>5, <2>1, <3>2, <4>3 DEF Used
    <3>3. QED BY <3>1, <3>2
  <2>2. ASSUME NEW b \in Range(Joins), b \in trailer \/ \E c \in Range(text) : ColumnOf[c] = b
        PROVE  b \in S
    <3>1. b \in Needed
      BY <1>3, <2>2 DEF Closed
    <3>2. b # a
      BY <1>5, <2>2 DEF Used
    <3>3. QED BY <3>1, <3>2
  <2>3. S \in SUBSET Range(Joins) /\ a \notin S
    BY <1>3
  <2>4. Closed(S)
    <3> HIDE DEF S, a
    <3>1. QED BY <2>1, <2>2 DEF Closed
  <2>5. QED BY <1>5, <2>3, <2>4 DEF Needed
<1>6. QED BY <1>4, <1>5

------------------------------------------------------------------------------
\* The induction.

LEMMA InitInv ==
  ASSUME Init
  PROVE  IInv
<1>1. Typed
  BY DEF Init, Typed, Kinds, Steps
<1>2. TextAndBuffers /\ Filled
  BY DEF Init, TextAndBuffers, Filled
<1>3. JoinsSoFar
  <2>1. Joins \in Seq(Aliases) /\ Len(Joins) \in Nat
    BY SelectStatementAssumption
  <2>2. todo = Joins /\ SubSeq(Joins, 1, Len(Joins)) = Joins
    BY <2>1, SubSeqFull DEF Init
  <2>3. kept = {a \in Needed : \E m \in (Len(todo) + 1)..Len(Joins) : Joins[m] = a}
    BY <2>1, <2>2 DEF Init
  <2>4. QED BY <2>1, <2>2, <2>3 DEF Init, JoinsSoFar, JoinsAreTheNeeded
<1>4. QED BY <1>1, <1>2, <1>3 DEF IInv

\* Nothing changes.
LEMMA StutterInv ==
  ASSUME IInv, UNCHANGED vars
  PROVE  IInv'
<1>1. UNCHANGED <<kind, on, trailer, optimize, pc, text, kept, todo, boundTo, streamed, buffer>>
  BY DEF vars, input
<1>2. Plains' = Plains /\ Longs' = Longs /\ Of("long")' = Of("long") /\ Fast' = Fast /\ Needed' = Needed
  BY <1>1, SamePasses, SameNeeded DEF input
<1>3. Typed'
  BY <1>1 DEF IInv, Typed
<1>4. TextAndBuffers'
  BY <1>1, <1>2 DEF IInv, TextAndBuffers
<1>5. Filled'
  BY <1>1, <1>2 DEF IInv, Filled, Rank
<1>6. JoinsSoFar'
  BY <1>1, <1>2 DEF IInv, JoinsSoFar, JoinsAreTheNeeded, UpTo
<1>7. QED BY <1>3, <1>4, <1>5, <1>6 DEF IInv

\* No column is bound.
LEMMA ProcessEmptyInv ==
  ASSUME IInv, ProcessEmpty
  PROVE  IInv'
<1>1. /\ UNCHANGED <<kind, on, trailer, optimize, text, kept, todo, boundTo, streamed, buffer>>
      /\ pc = "process" /\ pc' = "empty"
  BY DEF ProcessEmpty, input
<1>2. Plains' = Plains /\ Longs' = Longs /\ Of("long")' = Of("long")
  BY <1>1, SamePasses
<1>3. Typed'
  BY <1>1 DEF IInv, Typed, Steps
<1>4. TextAndBuffers' /\ Filled'
  BY <1>1, <1>2 DEF IInv, TextAndBuffers, Filled
<1>5. JoinsSoFar'
  BY <1>1 DEF IInv, JoinsSoFar, JoinsAreTheNeeded, UpTo
<1>6. QED BY <1>3, <1>4, <1>5 DEF IInv

\* If nothing is left out the text is the plain columns in their order, as pass 1
\* would have written it.
LEMMA ProcessFastInv ==
  ASSUME IInv, ProcessFast
  PROVE  IInv'
<1>1. /\ UNCHANGED <<kind, on, trailer, optimize, boundTo, streamed, buffer>>
      /\ pc = "process" /\ pc' = "bind" /\ Fast /\ (~optimize \/ Joins = <<>>)
      /\ text' = Plains /\ kept' = Range(Joins) /\ todo' = <<>>
  BY DEF ProcessFast, input, Plains
<1>2. Plains' = Plains /\ Longs' = Longs /\ Of("long")' = Of("long") /\ Fast' = Fast
  BY <1>1, SamePasses
<1>3. Typed'
  BY <1>1 DEF IInv, Typed, Steps
<1>4. Longs = <<>>
  <2>1. Of("long") = {}
    BY <1>1 DEF Fast, Of
  <2>2. Len(Longs) = 0 /\ Longs \in Seq(Columns)
    BY <2>1, TheText, FS_EmptySet DEF LongCount
  <2>3. QED BY <2>2
<1>5. Plains \o Longs = Plains
  BY <1>4, TheText
<1>6. TextAndBuffers' /\ Filled'
  BY <1>1, <1>2, <1>5 DEF IInv, TextAndBuffers, Filled
<1>7. JoinsSoFar'
  <2>1. Len(Joins) \in Nat /\ SubSeq(Joins, 1, 0) = <<>> /\ Len(todo') = 0
    BY <1>1, SelectStatementAssumption, SubSeqEmpty
  <2>2. JoinsAreTheNeeded'
    <3>1. CASE optimize
      <4>1. Range(Joins) = {}
        BY <1>1, <3>1 DEF Range
      <4>2. Needed' = {} /\ kept' = {}
        BY <1>1, <4>1 DEF Needed
      <4>3. QED BY <4>2 DEF JoinsAreTheNeeded
    <3>2. CASE ~optimize
      BY <1>1, <1>2, <3>2 DEF JoinsAreTheNeeded
    <3>3. QED BY <3>1, <3>2
  <2>3. QED BY <1>1, <2>1, <2>2 DEF IInv, JoinsSoFar, UpTo
<1>8. QED BY <1>3, <1>6, <1>7 DEF IInv

\* Pass 1 writes the column list.
LEMMA ProcessColumnsInv ==
  ASSUME IInv, ProcessColumns
  PROVE  IInv'
<1>1. /\ UNCHANGED <<kind, on, trailer, optimize, kept, todo, boundTo, streamed, buffer>>
      /\ pc = "process" /\ pc' = "joins" /\ text' = Plains \o Longs
  BY DEF ProcessColumns, input, ColumnList, Plains, Longs
<1>2. Plains' = Plains /\ Longs' = Longs /\ Of("long")' = Of("long")
  BY <1>1, SamePasses
<1>3. Typed'
  BY <1>1 DEF IInv, Typed, Steps
<1>4. TextAndBuffers' /\ Filled'
  BY <1>1, <1>2 DEF IInv, TextAndBuffers, Filled
<1>5. JoinsSoFar'
  <2>1. Len(Joins) \in Nat /\ todo = Joins
    BY <1>1, SelectStatementAssumption DEF IInv, JoinsSoFar
  <2>2. kept = {}
    BY <1>1, <2>1 DEF IInv, JoinsSoFar
  <2>3. kept' = {a \in Needed' : \E m \in (Len(todo') + 1)..Len(Joins) : Joins[m] = a}
    BY <1>1, <2>1, <2>2
  <2>4. QED BY <1>1, <2>3 DEF IInv, JoinsSoFar, JoinsAreTheNeeded, UpTo
<1>6. QED BY <1>3, <1>4, <1>5 DEF IInv

\* Pass 2 looks at the last JOIN that it has not looked at.
LEMMA ProcessJoinInv ==
  ASSUME IInv, ProcessJoin
  PROVE  IInv'
<1> DEFINE t == Len(todo)
<1>1. /\ UNCHANGED <<kind, on, trailer, optimize, pc, text, boundTo, streamed, buffer>>
      /\ pc = "joins" /\ todo # <<>>
      /\ kept' = kept \cup {j \in {Last(todo)} : Used(j)} /\ todo' = Front(todo)
  BY DEF ProcessJoin, input
<1>2. Plains' = Plains /\ Longs' = Longs /\ Of("long")' = Of("long") /\ Needed' = Needed
  BY <1>1, SamePasses, SameNeeded DEF input
<1>3. Typed' /\ TextAndBuffers' /\ Filled'
  BY <1>1, <1>2 DEF IInv, Typed, TextAndBuffers, Filled
<1>4. /\ Joins \in Seq(Aliases) /\ Len(Joins) \in Nat /\ Len(todo) <= Len(Joins)
      /\ todo = SubSeq(Joins, 1, Len(todo)) /\ DOMAIN Joins = 1..Len(Joins)
  BY SelectStatementAssumption DEF IInv, JoinsSoFar
<1>5. t \in 1..Len(Joins) /\ Last(todo) = Joins[t] /\ todo \in Seq(Aliases)
  <2>1. Len(todo) \in Nat
    BY <1>4
  <2>2. todo \in Seq(Aliases)
    BY <1>4, <2>1, SubSeqProperties
  <2>3. Len(todo) > 0
    BY <1>1, <2>2
  <2>4. todo[Len(todo)] = Joins[Len(todo)]
    BY <1>4, <2>1, <2>3, SubSeqProperties
  <2>5. QED BY <1>4, <2>1, <2>2, <2>3, <2>4 DEF Last
<1>6. Len(todo') = t - 1 /\ todo' = SubSeq(Joins, 1, t - 1)
  <2>1. Front(todo) = SubSeq(todo, 1, t - 1)
    BY DEF Front
  <2>2. SubSeq(SubSeq(Joins, 1, t), 1, t - 1) = SubSeq(Joins, 1, t - 1)
    BY <1>4, <1>5, SubSeqOfSubSeq
  <2>3. Len(SubSeq(Joins, 1, t - 1)) = t - 1
    BY <1>4, <1>5, SubSeqProperties
  <2>4. QED BY <1>1, <1>4, <2>1, <2>2, <2>3
<1> HIDE DEF t
<1>7. Used(Joins[t]) <=> Joins[t] \in Needed
  BY <1>1, <1>5, UsedIsNeeded DEF IInv, t
<1>8. kept' = {a \in Needed' : \E m \in (Len(todo') + 1)..Len(Joins) : Joins[m] = a}
  <2>1. kept = {a \in Needed : \E m \in (t + 1)..Len(Joins) : Joins[m] = a}
    BY <1>1 DEF IInv, JoinsSoFar, t
  <2>2. kept' = kept \cup {a \in Needed : a = Joins[t]}
    BY <1>1, <1>5, <1>7
  <2>3. \A m : m \in t..Len(Joins) <=> m = t \/ m \in (t + 1)..Len(Joins)
    BY <1>4, <1>5
  <2>4. \A a : (\E m \in t..Len(Joins) : Joins[m] = a)
               <=> (a = Joins[t] \/ \E m \in (t + 1)..Len(Joins) : Joins[m] = a)
    BY <2>3
  <2>5. Len(todo') + 1 = t
    BY <1>4, <1>5, <1>6
  <2>6. QED BY <1>2, <2>1, <2>2, <2>4, <2>5
<1>9. Len(todo') <= Len(Joins) /\ kept' \subseteq Range(Joins)
  <2>1. Needed' \subseteq Range(Joins)
    BY DEF Needed
  <2>2. QED BY <1>4, <1>5, <1>6, <1>8, <2>1
<1>10. JoinsSoFar'
  <2>1. todo' = SubSeq(Joins, 1, Len(todo'))
    BY <1>6
  <2>2. QED BY <1>1, <1>8, <1>9, <2>1 DEF IInv, JoinsSoFar, JoinsAreTheNeeded, UpTo
<1>11. QED BY <1>3, <1>10 DEF IInv

\* Pass 2 has been through the JOINs.
LEMMA JoinsDoneInv ==
  ASSUME IInv, JoinsDone
  PROVE  IInv'
<1>1. /\ UNCHANGED <<kind, on, trailer, optimize, text, kept, todo, boundTo, streamed, buffer>>
      /\ pc = "joins" /\ pc' = "bind" /\ todo = <<>>
  BY DEF JoinsDone, input
<1>2. Plains' = Plains /\ Longs' = Longs /\ Of("long")' = Of("long") /\ Needed' = Needed
  BY <1>1, SamePasses, SameNeeded DEF input
<1>3. Typed' /\ TextAndBuffers' /\ Filled'
  BY <1>1, <1>2 DEF IInv, Typed, TextAndBuffers, Filled, Steps
<1>4. kept = Needed
  <2>1. kept = {a \in Needed : \E m \in 1..Len(Joins) : Joins[m] = a}
    BY <1>1 DEF IInv, JoinsSoFar
  <2>2. \A a \in Needed : \E m \in 1..Len(Joins) : Joins[m] = a
    BY SelectStatementAssumption DEF Needed, Range
  <2>3. QED BY <2>1, <2>2
<1>5. JoinsSoFar'
  BY <1>1, <1>2, <1>4 DEF IInv, JoinsSoFar, JoinsAreTheNeeded, UpTo
<1>6. QED BY <1>3, <1>5 DEF IInv

\* The plain columns are bound in their order.
LEMMA BindResultInv ==
  ASSUME IInv, BindResult
  PROVE  IInv'
<1>1. /\ UNCHANGED <<kind, on, trailer, optimize, text, kept, todo, streamed, buffer>>
      /\ pc = "bind" /\ pc' = "execute" /\ boundTo' = Plains
  BY DEF BindResult, input, Plains
<1>2. Plains' = Plains /\ Longs' = Longs /\ Of("long")' = Of("long")
  BY <1>1, SamePasses
<1>3. Typed' /\ TextAndBuffers' /\ Filled'
  BY <1>1, <1>2 DEF IInv, Typed, TextAndBuffers, Filled, Steps
<1>4. JoinsSoFar'
  BY <1>1 DEF IInv, JoinsSoFar, JoinsAreTheNeeded, UpTo
<1>5. QED BY <1>3, <1>4 DEF IInv

\* A row: the columns that come first in the text are those that are bound.
LEMMA FetchInv ==
  ASSUME IInv, Fetch
  PROVE  IInv'
<1>1. /\ UNCHANGED <<kind, on, trailer, optimize, text, kept, todo, boundTo>>
      /\ pc = "execute" /\ pc' = (IF LongCount # 0 THEN "stream" ELSE "done")
      /\ streamed' = [entry |-> 0, column |-> Len(boundTo)]
      /\ buffer' = [c \in Columns |->
           LET n == {k \in DOMAIN boundTo : boundTo[k] = c}
           IN  IF n = {} THEN NoColumn ELSE text[CHOOSE k \in n : TRUE]]
  BY DEF Fetch, input
<1>2. Plains' = Plains /\ Longs' = Longs /\ Of("long")' = Of("long")
  BY <1>1, SamePasses
<1>3. boundTo = Plains /\ text = Plains \o Longs
  BY <1>1 DEF IInv, TextAndBuffers
<1>4. /\ Plains \in Seq(Columns) /\ Len(Plains) \in Nat /\ LongCount \in Nat
      /\ \A i \in 1..Len(Plains) : text[i] = Plains[i] /\ kind[Plains[i]] = "plain"
  BY <1>3, TheText
<1>5. Typed'
  BY <1>1, <1>3, <1>4 DEF IInv, Typed, Steps
<1>6. TextAndBuffers'
  BY <1>1, <1>2 DEF IInv, TextAndBuffers
<1>7. ASSUME NEW c \in Columns
      PROVE  buffer'[c] = IF kind[c] = "plain" THEN c ELSE NoColumn
  <2> DEFINE n == {k \in DOMAIN boundTo : boundTo[k] = c}
  <2>1. buffer'[c] = IF n = {} THEN NoColumn ELSE text[CHOOSE k \in n : TRUE]
    BY <1>1
  <2>2. DOMAIN boundTo = 1..Len(Plains)
    BY <1>3, <1>4
  <2>3. \A k \in n : text[k] = c /\ kind[c] = "plain"
    BY <1>3, <1>4, <2>2
  <2>4. kind[c] = "plain" => n # {}
    <3>1. Lists(Of("plain"), Len(ColumnOf), Plains)
      BY ThePasses DEF Kinds, Plains
    <3>2. ASSUME kind[c] = "plain"
          PROVE  Rank(Of("plain"), c) \in 1..Len(Plains) /\ Plains[Rank(Of("plain"), c)] = c
      <4>1. c \in Of("plain") /\ c <= Len(ColumnOf)
        BY <3>2, Numbers DEF Of
      <4>2. QED BY <3>1, <4>1 DEF Lists
    <3>3. QED BY <1>3, <2>2, <3>2
  <2> HIDE DEF n
  <2>5. n # {} => (CHOOSE k \in n : TRUE) \in n
    OBVIOUS
  <2>6. QED BY <2>1, <2>3, <2>4, <2>5
<1>8. Rank(Of("long"), 0) = 0
  <2>1. Of("long") \in SUBSET Columns
    BY DEF Of
  <2>2. QED BY <2>1, RankStep
<1>9. Filled'
  <2>1. streamed'.entry = 0 /\ streamed'.column = Len(Plains)
    BY <1>1, <1>3
  <2>2. LongCount # 0 => Len(ColumnOf) > 0
    <3>1. Of("long") # {} => Len(ColumnOf) > 0
      BY Numbers DEF Of
    <3>2. QED BY <3>1, FS_EmptySet DEF LongCount
  <2>3. LongCount = 0 => Of("long") = {}
    <3>1. IsFiniteSet(Columns)
      BY Numbers, FS_Interval
    <3>2. Of("long") \in SUBSET Columns
      BY DEF Of
    <3>3. IsFiniteSet(Of("long"))
      BY <3>1, <3>2, FS_Subset
    <3>4. QED BY <3>3, FS_EmptySet DEF LongCount
  <2>4. \A c \in Columns : ~(c <= 0)
    BY Numbers
  <2>5. buffer' = [c \in Columns |-> IF kind[c] = "plain" THEN c ELSE NoColumn]
    <3>1. buffer' = [c \in Columns |-> buffer'[c]]
      BY <1>1
    <3>2. QED BY <1>7, <3>1
  <2>6. buffer' = [c \in Columns |->
          IF kind'[c] = "plain" \/ (kind'[c] = "long" /\ c <= streamed'.entry)
          THEN c ELSE NoColumn]
    BY <1>1, <2>1, <2>4, <2>5
  <2>7. streamed'.column = Len(Plains) + Rank(Of("long"), streamed'.entry)
    BY <1>4, <1>8, <2>1
  <2>8. pc' \in {"stream", "done"} /\ (pc' = "stream" => Len(ColumnOf) > 0)
    BY <1>1, <2>2
  <2>9. pc' = "done" => Of("long") = {}
    BY <1>1, <2>3
  <2>10. streamed'.entry \in 0..Len(ColumnOf)
    BY <2>1, Numbers
  <2>11. QED BY <1>2, <2>1, <2>6, <2>7, <2>8, <2>9, <2>10 DEF Filled, Rank
<1>10. JoinsSoFar'
  BY <1>1 DEF IInv, JoinsSoFar, JoinsAreTheNeeded, UpTo
<1>11. QED BY <1>5, <1>6, <1>9, <1>10 DEF IInv

\* The next entry of the bind array: if it is long data, the next column is its own.
LEMMA StreamResultInv ==
  ASSUME IInv, StreamResult
  PROVE  IInv'
<1> DEFINE c == streamed.entry + 1
<1>1. /\ UNCHANGED <<kind, on, trailer, optimize, text, kept, todo, boundTo>>
      /\ pc = "stream" /\ pc' = (IF c = Len(ColumnOf) THEN "done" ELSE "stream")
      /\ IF kind[c] = "long" /\ streamed.column < Len(text)
         THEN /\ buffer' = [buffer EXCEPT ![c] = text[streamed.column + 1]]
              /\ streamed' = [entry |-> c, column |-> streamed.column + 1]
         ELSE /\ streamed' = [streamed EXCEPT !.entry = c]
              /\ buffer' = buffer
  BY DEF StreamResult, Streams, input
<1>2. Plains' = Plains /\ Longs' = Longs /\ Of("long")' = Of("long")
  BY <1>1, SamePasses
<1>3. /\ streamed \in [entry : Nat, column : Nat] /\ kind \in [Columns -> Kinds]
      /\ streamed.entry < Len(ColumnOf)
      /\ streamed.column = Len(Plains) + Rank(Of("long"), streamed.entry)
      /\ buffer = [d \in Columns |->
           IF kind[d] = "plain" \/ (kind[d] = "long" /\ d <= streamed.entry)
           THEN d ELSE NoColumn]
      /\ text = Plains \o Longs
  BY <1>1 DEF IInv, Typed, TextAndBuffers, Filled
<1>4. c \in Columns /\ c \in Nat /\ c - 1 = streamed.entry
  BY <1>3, Numbers
<1>5. /\ Len(Plains) \in Nat /\ Len(text) = Len(Plains) + Len(Longs) /\ Len(Longs) \in Nat
      /\ \A i \in 1..Len(Longs) : text[Len(Plains) + i] = Longs[i]
  BY <1>3, TheText
<1>6. /\ Rank(Of("long"), streamed.entry) \in Nat /\ Rank(Of("long"), c) \in Nat
      /\ Rank(Of("long"), c) = (IF kind[c] = "long" THEN Rank(Of("long"), streamed.entry) + 1
                               ELSE Rank(Of("long"), streamed.entry))
  <2>1. Of("long") \in SUBSET Columns /\ (c \in Of("long") <=> kind[c] = "long")
    BY <1>4 DEF Of
  <2> HIDE DEF c
  <2>2. /\ Rank(Of("long"), c - 1) \in Nat /\ Rank(Of("long"), c) \in Nat
        /\ Rank(Of("long"), c) = (IF c \in Of("long") THEN Rank(Of("long"), c - 1) + 1
                                 ELSE Rank(Of("long"), c - 1))
    <3> DEFINE L == Of("long")
    <3>1. L \in SUBSET Columns
      BY <2>1
    <3> HIDE DEF L
    <3>2. /\ \A d \in Nat : Rank(L, d) \in Nat
          /\ \A d \in Columns :
               Rank(L, d) = (IF d \in L THEN Rank(L, d - 1) + 1 ELSE Rank(L, d - 1))
      BY <3>1, RankStep, Zenon
    <3>3. c \in Columns /\ c \in Nat /\ c - 1 \in Nat
      BY <1>3, <1>4
    <3>4. QED BY <3>2, <3>3, Zenon DEF L
  <2>3. QED BY <1>4, <2>1, <2>2
<1> HIDE DEF c
<1>7. /\ streamed' \in [entry : Nat, column : Nat] /\ streamed'.entry = c
      /\ streamed'.column = Len(Plains) + Rank(Of("long"), c)
      /\ buffer' = [d \in Columns |->
           IF kind[d] = "plain" \/ (kind[d] = "long" /\ d <= c) THEN d ELSE NoColumn]
  <2>1. \A d \in Columns : d # c => (d <= c <=> d <= streamed.entry)
    BY <1>3, <1>4, Numbers
  <2>2. CASE kind[c] = "long"
    <3>1. Rank(Of("long"), c) \in 1..Len(Longs) /\ Longs[Rank(Of("long"), c)] = c
      <4>1. Lists(Of("long"), Len(ColumnOf), Longs)
        BY ThePasses DEF Kinds, Longs
      <4>2. c \in Of("long") /\ c <= Len(ColumnOf)
        BY <1>4, <2>2, Numbers DEF Of
      <4>3. QED BY <4>1, <4>2 DEF Lists
    <3>2. /\ streamed.column + 1 = Len(Plains) + Rank(Of("long"), c)
          /\ streamed.column < Len(text)
      BY <1>3, <1>5, <1>6, <2>2, <3>1
    <3>3. text[streamed.column + 1] = c
      BY <1>5, <3>1, <3>2
    <3>4. /\ streamed' = [entry |-> c, column |-> streamed.column + 1]
          /\ buffer' = [buffer EXCEPT ![c] = c]
      BY <1>1, <2>2, <3>2, <3>3
    <3>5. \A d \in Columns :
            buffer'[d] = IF kind[d] = "plain" \/ (kind[d] = "long" /\ d <= c) THEN d ELSE NoColumn
      BY <1>3, <1>4, <2>1, <2>2, <3>4
    <3>6. buffer' = [d \in Columns |-> buffer'[d]]
      BY <1>3, <3>4
    <3>7. streamed' \in [entry : Nat, column : Nat] /\ streamed'.entry = c
      BY <1>3, <1>4, <3>4
    <3>8. streamed'.column = Len(Plains) + Rank(Of("long"), c)
      BY <3>2, <3>4
    <3>9. QED BY <3>5, <3>6, <3>7, <3>8
  <2>3. CASE kind[c] # "long"
    <3>1. streamed' = [streamed EXCEPT !.entry = c] /\ buffer' = buffer
      BY <1>1, <2>3
    <3>2. \A d \in Columns :
            buffer'[d] = IF kind[d] = "plain" \/ (kind[d] = "long" /\ d <= c) THEN d ELSE NoColumn
      BY <1>3, <1>4, <2>1, <2>3, <3>1
    <3>3. buffer' = [d \in Columns |-> buffer'[d]]
      BY <1>3, <3>1
    <3>4. streamed' \in [entry : Nat, column : Nat] /\ streamed'.entry = c
      BY <1>3, <1>4, <3>1
    <3>5. streamed'.column = Len(Plains) + Rank(Of("long"), c)
      BY <1>3, <1>6, <2>3, <3>1
    <3>6. QED BY <3>2, <3>3, <3>4, <3>5
  <2>4. QED BY <2>2, <2>3
<1>8. Typed'
  BY <1>1, <1>7 DEF IInv, Typed, Steps
<1>9. TextAndBuffers'
  BY <1>1, <1>2 DEF IInv, TextAndBuffers
<1>10. Filled'
  <2>1. c \in 0..Len(ColumnOf) /\ (pc' = "stream" => c < Len(ColumnOf))
    BY <1>1, <1>4, Numbers
  <2>2. pc' = "done" => \A d \in Of("long") : d <= c
    BY <1>1, Numbers DEF Of
  <2>3. pc' \in {"stream", "done"}
    BY <1>1
  <2>4. QED BY <1>1, <1>2, <1>7, <2>1, <2>2, <2>3 DEF Filled, Rank
<1>11. JoinsSoFar'
  BY <1>1 DEF IInv, JoinsSoFar, JoinsAreTheNeeded, UpTo
<1>12. QED BY <1>8, <1>9, <1>10, <1>11 DEF IInv

LEMMA Inductive == Spec => []IInv
<1>1. IInv /\ [Next]_vars => IInv'
  BY StutterInv, ProcessEmptyInv, ProcessFastInv, ProcessColumnsInv, ProcessJoinInv,
     JoinsDoneInv, BindResultInv, FetchInv, StreamResultInv DEF Next
<1>2. QED BY <1>1, InitInv, PTL DEF Spec

------------------------------------------------------------------------------
\* The theorems.

\* Every variable keeps its type; no column is selected twice, and stream_result()
\* stays within the bind array and the columns.
THEOREM TypeCorrect == Spec => []TypeOK
<1>1. ASSUME IInv PROVE TypeOK
  <2>1. /\ Plains \in Seq(Columns) /\ Len(Plains) \in Nat /\ Len(Longs) = LongCount
        /\ Plains \o Longs \in Seq(Columns) /\ IsInjective(Plains \o Longs)
        /\ Len(Plains \o Longs) = Len(Plains) + Len(Longs) /\ LongCount \in Nat
    BY TheText
  <2>2. text \in Seq(Columns) /\ IsInjective(text) /\ boundTo \in Seq(Columns)
    BY <1>1, <2>1 DEF IInv, TextAndBuffers, IsInjective
  <2>3. IsPrefix(todo, Joins)
    <3>1. Joins \in Seq(Aliases) /\ Len(todo) <= Len(Joins) /\ Len(todo) \in Nat
          /\ todo = SubSeq(Joins, 1, Len(todo))
      BY <1>1, SelectStatementAssumption DEF IInv, JoinsSoFar
    <3>2. SubSeq(todo, 1, Len(todo)) = todo
      <4>1. todo \in Seq(Aliases)
        BY <3>1, SubSeqProperties
      <4>2. QED BY <4>1, SubSeqFull
    <3>3. QED BY <3>1, <3>2 DEF IsPrefix
  <2>4. streamed.entry \in 0..Len(ColumnOf)
    BY <1>1, Numbers DEF IInv, Filled
  <2>5. streamed.column \in 0..Len(text)
    <3>1. CASE pc \in {"stream", "done"}
      <4>1. Of("long") \in SUBSET Columns
        BY DEF Of
      <4>2. /\ streamed.column = Len(Plains) + Rank(Of("long"), streamed.entry)
            /\ text = Plains \o Longs
        BY <1>1, <3>1 DEF IInv, Filled, TextAndBuffers
      <4>3. /\ Rank(Of("long"), streamed.entry) <= LongCount
            /\ Rank(Of("long"), streamed.entry) \in Nat
        <5> DEFINE e == streamed.entry
        <5>1. e \in Nat /\ Len(ColumnOf) \in Nat /\ e <= Len(ColumnOf)
          BY <2>4, Numbers
        <5> HIDE DEF e
        <5>2. Rank(Of("long"), e) <= Rank(Of("long"), Len(ColumnOf)) /\ Rank(Of("long"), e) \in Nat
          BY <4>1, <5>1, RankGrows, RankStep
        <5>3. Rank(Of("long"), Len(ColumnOf)) = LongCount
          BY <4>1, RankOfAll DEF LongCount
        <5>4. QED BY <5>2, <5>3 DEF e
      <4>4. QED BY <2>1, <4>2, <4>3
    <3>2. CASE pc \notin {"stream", "done"}
      BY <1>1, <2>2, <3>2 DEF IInv, Filled
    <3>3. QED BY <3>1, <3>2
  <2>6. buffer \in [Columns -> Columns \cup {NoColumn}]
    BY <1>1 DEF IInv, Filled
  <2>7. kept \subseteq Range(Joins)
    BY <1>1 DEF IInv, JoinsSoFar
  <2>8. QED BY <1>1, <2>2, <2>3, <2>4, <2>5, <2>6, <2>7 DEF IInv, Typed, TypeOK, Kinds
<1>2. QED BY <1>1, Inductive, PTL

\* SQLGetData() is only used for columns behind the last bound one, and execute()'s
\* assertion on the numbers of columns holds.
THEOREM LongDataComesLast == Spec => []LongDataLast
<1>1. ASSUME IInv, pc = "execute"
      PROVE  /\ Len(text) = Len(boundTo) + LongCount
             /\ \A k \in DOMAIN text : kind[text[k]] = "long" => k > Len(boundTo)
  <2>1. boundTo = Plains /\ text = Plains \o Longs
    BY <1>1 DEF IInv, TextAndBuffers
  <2>2. /\ Len(text) = Len(boundTo) + LongCount /\ text \in Seq(Columns) /\ Len(boundTo) \in Nat
        /\ \A k \in 1..Len(boundTo) : kind[text[k]] = "plain"
    BY <2>1, TheText
  <2>3. QED BY <2>2
<1>2. IInv => LongDataLast
  BY <1>1 DEF LongDataLast
<1>3. QED BY <1>2, Inductive, PTL

\* The statement joins the tables that it needs and no others.
THEOREM OnlyNeededJoins == Spec => []JoinsAreTheNeeded
<1>1. IInv => JoinsAreTheNeeded
  BY DEF IInv, JoinsSoFar
<1>2. QED BY <1>1, Inductive, PTL

\* When a row has been read, every member has its own column.
THEOREM ColumnsReachTheirMembers == Spec => []MembersGetTheirColumns
<1>1. ASSUME IInv, pc = "done", NEW c \in Columns
      PROVE  buffer[c] = (IF kind[c] = "absent" THEN NoColumn ELSE c)
  <2>1. /\ buffer[c] = IF kind[c] = "plain" \/ (kind[c] = "long" /\ c <= streamed.entry)
                       THEN c ELSE NoColumn
        /\ \A d \in Of("long") : d <= streamed.entry
    BY <1>1 DEF IInv, Filled
  <2>2. kind[c] \in Kinds /\ (kind[c] = "long" => c <= streamed.entry)
    BY <1>1, <2>1 DEF IInv, Typed, Of
  <2>3. QED BY <2>1, <2>2 DEF Kinds
<1>2. IInv => MembersGetTheirColumns
  BY <1>1 DEF MembersGetTheirColumns
<1>3. QED BY <1>2, Inductive, PTL
==============================================================================
