--------------------------- MODULE QueriesProofs ---------------------------
(****************************************************************************)
(* Proofs about Queries: what the operators write, for all columns, values, *)
(* operands and bounds, is what the server reads as the application meant   *)
(* it, and the translation of a common query is, too.                       *)
(*                                                                          *)
(* A query stands for pieces: words, columns and open places for parameters *)
(* (Built).  The pieces of a condition mean a function of the variables if  *)
(* the server reads that wherever they stand (Reads, Means), and each       *)
(* operator of the library is shown to build pieces that mean what it is    *)
(* said to (Sound).  The common query makes the same pieces (Makes).  The   *)
(* inductive invariant keeps this from the first condition to the answer.   *)
(****************************************************************************)
EXTENDS Queries, SequenceTheorems, FiniteSetTheorems, WellFoundedInduction, TLAPS

\* A set of natural numbers has a least one.
LEMMA Least ==
  ASSUME NEW T \in SUBSET Nat, T # {}
  PROVE  \E x \in T : \A y \in T : x <= y
<1>1. PICK x \in T : \A y \in T : ~(<<y, x>> \in OpToRel(<, Nat))
  BY NatLessThanWellFounded, WFMin
<1>2. \A y \in T : ~(y < x)
  BY <1>1 DEF OpToRel
<1>3. QED BY <1>2

\* Marks are counted part by part.
LEMMA MarksAreNat ==
  ASSUME NEW s, NEW n \in Nat
  PROVE  Marks(s, n) \in Nat /\ Marks(s, n) <= n
<1>1. IsFiniteSet(1..n) /\ Cardinality(1..n) = n
  BY FS_Interval
<1>2. {i \in 1..n : s[i] = Param} \in SUBSET (1..n)
  OBVIOUS
<1>3. QED BY <1>1, <1>2, FS_Subset, FS_CardinalityType DEF Marks

\* One token more
LEMMA MarksStep ==
  ASSUME NEW s, NEW n \in Nat
  PROVE  Marks(s, n + 1) = Marks(s, n) + (IF s[n + 1] = Param THEN 1 ELSE 0)
<1> DEFINE A == {i \in 1..n : s[i] = Param}
           B == {i \in 1..(n + 1) : s[i] = Param}
<1>1. IsFiniteSet(A)
  <2>1. IsFiniteSet(1..n) /\ A \in SUBSET (1..n)
    BY FS_Interval
  <2>2. QED BY <2>1, FS_Subset
<1>2. CASE s[n + 1] = Param
  <2>1. B = A \cup {n + 1} /\ n + 1 \notin A
    BY <1>2
  <2>2. Cardinality(A \cup {n + 1}) = Cardinality(A) + 1
    BY <1>1, <2>1, FS_AddElement
  <2>3. QED BY <1>2, <2>1, <2>2 DEF Marks
<1>3. CASE s[n + 1] # Param
  <2>1. B = A
    BY <1>3
  <2>2. Cardinality(A) \in Nat
    BY <1>1, FS_CardinalityType
  <2>3. QED BY <1>3, <2>1, <2>2 DEF Marks
<1>4. QED BY <1>2, <1>3

\* No token
LEMMA MarksNone ==
  ASSUME NEW s
  PROVE  Marks(s, 0) = 0
<1>1. {i \in 1..0 : s[i] = Param} = {}
  OBVIOUS
<1>2. QED BY <1>1, FS_EmptySet DEF Marks

\* The marks of two texts one after the other: a beginning counts the same, ...
LEMMA MarksSame ==
  ASSUME NEW s, NEW t, NEW n \in Nat, \A i \in 1..n : (s[i] = Param) <=> (t[i] = Param)
  PROVE  Marks(s, n) = Marks(t, n)
<1>1. {i \in 1..n : s[i] = Param} = {i \in 1..n : t[i] = Param}
  OBVIOUS
<1>2. QED BY <1>1 DEF Marks

\* ... as often after other tokens as alone.
LEMMA MarksShift ==
  ASSUME NEW s, NEW t, NEW m \in Nat, NEW n \in Nat,
         \A i \in 1..n : (s[m + i] = Param) <=> (t[i] = Param)
  PROVE  Marks(s, m + n) = Marks(s, m) + Marks(t, n)
<1> DEFINE T == {k \in 0..n : Marks(s, m + k) # Marks(s, m) + Marks(t, k)}
<1>1. SUFFICES ASSUME T # {} PROVE FALSE
  OBVIOUS
<1>2. T \in SUBSET Nat
  OBVIOUS
<1>3. PICK k \in T : \A y \in T : k <= y
  BY <1>1, <1>2, Least
<1>4. k # 0
  <2>1. Marks(s, m) \in Nat /\ m + 0 = m
    BY MarksAreNat
  <2>2. QED BY <1>3, <2>1, MarksNone
<1>5. k - 1 \in 0..n /\ k - 1 \in Nat /\ m + (k - 1) \in Nat /\ k \in 1..n
  BY <1>3, <1>4
<1>6. Marks(s, m + (k - 1)) = Marks(s, m) + Marks(t, k - 1)
  BY <1>3, <1>5
<1>7. /\ m + (k - 1) + 1 = m + k /\ k - 1 + 1 = k
      /\ Marks(s, m) \in Nat /\ Marks(t, k - 1) \in Nat
  BY <1>5, MarksAreNat
<1>8. Marks(s, m + k) = Marks(s, m + (k - 1)) + (IF s[m + k] = Param THEN 1 ELSE 0)
  BY <1>5, <1>7, MarksStep
<1>9. Marks(t, k) = Marks(t, k - 1) + (IF t[k] = Param THEN 1 ELSE 0)
  BY <1>5, <1>7, MarksStep
<1>10. QED BY <1>3, <1>5, <1>6, <1>7, <1>8, <1>9

\* s goes on with t after m places.
Follows(s, m, t, n) == \A i \in 1..n : s[m + i] = t[i]

\* Marks of a text and of what it goes on with
LEMMA MarksAfter ==
  ASSUME NEW s, NEW t, NEW m \in Nat, NEW n \in Nat, Follows(s, m, t, n)
  PROVE  Marks(s, m + n) = Marks(s, m) + Marks(t, n)
BY MarksShift, SMTT(40) DEF Follows

\* Marks of a text that begins like another
LEMMA MarksBefore ==
  ASSUME NEW s, NEW t, NEW n \in Nat, Follows(s, 0, t, n)
  PROVE  Marks(s, n) = Marks(t, n)
<1>1. \A i \in 1..n : (s[i] = Param) <=> (t[i] = Param)
  BY DEF Follows
<1>2. QED BY <1>1, MarksSame

------------------------------------------------------------------------------
\* Texts put together

IsFlat(s, n, f) == f = [i \in 1..n |-> IF i = 1 THEN s[i] ELSE f[i - 1] \o s[i]]

\* FlattenSeq is defined by recursion: there is such a function,
LEMMA FlatExists ==
  ASSUME NEW s, NEW m \in Nat
  PROVE  \E f : IsFlat(s, m, f)
<1> DEFINE T == {n \in Nat : ~(\E f : IsFlat(s, n, f))}
<1>1. SUFFICES ASSUME T # {} PROVE FALSE
  OBVIOUS
<1>2. PICK n \in T : \A y \in T : n <= y
  BY <1>1, Least
<1>3. n # 0
  <2> DEFINE f == [i \in 1..0 |-> <<>>]
  <2>1. IsFlat(s, 0, f)
    BY DEF IsFlat
  <2>2. QED BY <2>1
<1>4. n - 1 \in Nat /\ n - 1 \notin T
  BY <1>2, <1>3
<1>5. PICK g : IsFlat(s, n - 1, g)
  BY <1>4
<1> DEFINE f == [i \in 1..n |-> IF i < n THEN g[i] ELSE IF n = 1 THEN s[n] ELSE g[n - 1] \o s[n]]
<1>6. DOMAIN f = 1..n /\ f = [i \in 1..n |-> f[i]]
  OBVIOUS
<1>7. \A i \in 1..(n - 1) : f[i] = g[i]
  OBVIOUS
<1>8. f[n] = IF n = 1 THEN s[n] ELSE f[n - 1] \o s[n]
  BY <1>3
<1> HIDE DEF f
<1>9. \A i \in 1..(n - 1) : g[i] = IF i = 1 THEN s[i] ELSE g[i - 1] \o s[i]
  BY <1>5 DEF IsFlat
<1>10. ASSUME NEW i \in 1..n PROVE f[i] = IF i = 1 THEN s[i] ELSE f[i - 1] \o s[i]
  <2>1. CASE i = n
    BY <1>8, <2>1
  <2>2. CASE i # n
    <3>1. i \in 1..(n - 1) /\ (i # 1 => i - 1 \in 1..(n - 1))
      BY <2>2
    <3>2. QED BY <1>7, <1>9, <3>1
  <2>3. QED BY <2>1, <2>2
<1>11. IsFlat(s, n, f)
  BY <1>6, <1>10 DEF IsFlat
<1>12. QED BY <1>2, <1>11

\* What texts that begin alike come to is alike.
LEMMA FlatSame ==
  ASSUME NEW s, NEW t, NEW m \in Nat, NEW n \in Nat, NEW f, NEW g,
         IsFlat(s, m, f), IsFlat(t, n, g), NEW k \in 1..m, k <= n,
         \A i \in 1..k : s[i] = t[i]
  PROVE  f[k] = g[k]
<1> DEFINE T == {i \in 1..k : f[i] # g[i]}
<1>1. SUFFICES ASSUME T # {} PROVE FALSE
  OBVIOUS
<1>2. T \in SUBSET Nat
  OBVIOUS
<1>3. PICK i \in T : \A y \in T : i <= y
  BY <1>1, <1>2, Least
<1>4. i \in 1..m /\ i \in 1..n /\ i \in 1..k
  OBVIOUS
<1>5. f[i] = IF i = 1 THEN s[i] ELSE f[i - 1] \o s[i]
  BY <1>4 DEF IsFlat
<1>6. g[i] = IF i = 1 THEN t[i] ELSE g[i - 1] \o t[i]
  BY <1>4 DEF IsFlat
<1>7. i # 1 => f[i - 1] = g[i - 1]
  BY <1>3, <1>4
<1>8. QED BY <1>3, <1>4, <1>5, <1>6, <1>7

\* and FlattenSeq is its last value.
LEMMA FlattenIs ==
  ASSUME NEW S, NEW s \in Seq(S), s # <<>>, NEW f, IsFlat(s, Len(s), f)
  PROVE  FlattenSeq(s) = f[Len(s)]
<1> DEFINE g == CHOOSE g : g = [i \in 1..Len(s) |-> IF i = 1 THEN s[i] ELSE g[i - 1] \o s[i]]
<1>1. Len(s) \in Nat /\ Len(s) # 0
  BY EmptySeq
<1>2. \E h : h = [i \in 1..Len(s) |-> IF i = 1 THEN s[i] ELSE h[i - 1] \o s[i]]
  BY DEF IsFlat
<1>3. g = [i \in 1..Len(s) |-> IF i = 1 THEN s[i] ELSE g[i - 1] \o s[i]]
  BY <1>2, Zenon
<1>4. FlattenSeq(s) = g[Len(s)]
  BY <1>1 DEF FlattenSeq
<1> HIDE DEF g
<1>5. IsFlat(s, Len(s), g)
  BY <1>3 DEF IsFlat
<1>6. g[Len(s)] = f[Len(s)]
  BY <1>1, <1>5, FlatSame
<1>7. QED BY <1>4, <1>6

\* The last sequence comes last.
LEMMA FlatLast ==
  ASSUME NEW s, NEW m \in Nat, NEW n \in Nat, m = n + 1, NEW f, IsFlat(s, m, f)
  PROVE  f[m] = IF n = 0 THEN s[m] ELSE f[n] \o s[m]
<1>1. \A i \in 1..m : f[i] = IF i = 1 THEN s[i] ELSE f[i - 1] \o s[i]
  BY DEF IsFlat
<1>2. m \in 1..m /\ m - 1 = n /\ (m = 1 <=> n = 0)
  OBVIOUS
<1>3. f[m] = IF m = 1 THEN s[m] ELSE f[m - 1] \o s[m]
  BY <1>1, <1>2
<1>4. QED BY <1>2, <1>3, Zenon

\* Flattening one sequence more
LEMMA FlattenAppend ==
  ASSUME NEW S, NEW s \in Seq(Seq(S)), NEW x \in Seq(S)
  PROVE  FlattenSeq(Append(s, x)) = FlattenSeq(s) \o x
<1>1. PICK n \in Nat : n = Len(s)
  BY LenProperties
<1>2. PICK a \in Seq(Seq(S)) : a = Append(s, x)
  BY AppendProperties
<1>3. PICK m \in Nat : m = n + 1
  OBVIOUS
<1>4. /\ a # <<>> /\ Len(a) = m
      /\ (\A i \in 1..n : a[i] = s[i]) /\ a[m] = x
  BY <1>1, <1>2, <1>3, AppendProperties
<1>5. PICK f : IsFlat(a, m, f)
  BY FlatExists
<1>6. FlattenSeq(a) = f[m]
  BY <1>4, <1>5, FlattenIs
<1>7. f[m] = IF n = 0 THEN a[m] ELSE f[n] \o a[m]
  BY <1>1, <1>3, <1>5, FlatLast
<1>8. CASE n = 0
  <2>1. s = <<>> /\ FlattenSeq(s) = <<>>
    BY <1>1, <1>8, EmptySeq DEF FlattenSeq
  <2>2. <<>> \o x = x
    OBVIOUS
  <2>3. f[m] = x
    BY <1>4, <1>7, <1>8
  <2>4. QED BY <1>2, <1>6, <2>1, <2>2, <2>3
<1>9. CASE n # 0
  <2>1. PICK g : IsFlat(s, n, g)
    BY FlatExists
  <2>2. s # <<>>
    BY <1>1, <1>9, EmptySeq
  <2>3. FlattenSeq(s) = g[n]
    BY <1>1, <2>1, <2>2, FlattenIs
  <2>4. n \in 1..m /\ n <= n
    BY <1>3, <1>9
  <2>5. f[n] = g[n]
    <3>1. \A i \in 1..n : a[i] = s[i]
      BY <1>4
    <3>2. QED BY <1>5, <2>1, <2>4, <3>1, FlatSame
  <2>6. f[m] = f[n] \o x
    BY <1>4, <1>7, <1>9
  <2>7. QED BY <1>2, <1>6, <2>3, <2>5, <2>6
<1>10. QED BY <1>8, <1>9

------------------------------------------------------------------------------
\* The parts of a query, its pieces and the tokens of its text.

Vocabulary == SqlWords \cup Keywords \cup Columns
Parts == {Native(ws) : ws \in Seq(Vocabulary) \ {<<>>}} \cup {Bool(b) : b \in BOOLEAN}
           \cup {Column(c) : c \in Columns} \cup {Param}
Token == {Word(w) : w \in Vocabulary} \cup {Column(c) : c \in Columns} \cup {Param}
Words(ws) == [i \in 1..Len(ws) |-> Word(ws[i])]
Tokens(clause) == FlattenSeq([i \in DOMAIN clause |-> Written(clause[i])])

\* Words are tokens.
LEMMA WordsType ==
  ASSUME NEW ws \in Seq(Vocabulary)
  PROVE  /\ Words(ws) \in Seq(Token) /\ Len(Words(ws)) = Len(ws)
         /\ \A i \in 1..Len(ws) : Words(ws)[i] = Word(ws[i])
<1>1. Len(ws) \in Nat /\ \A i \in 1..Len(ws) : Word(ws[i]) \in Token
  BY DEF Token
<1>2. QED BY <1>1 DEF Words

\* How each kind of part is written
LEMMA WrittenParts ==
  /\ \A ws \in Seq(Vocabulary) : Written(Native(ws)) = Words(ws)
  /\ \A b \in BOOLEAN : Written(Bool(b)) = <<Word(IF b THEN "1 = 1" ELSE "1 = 0")>>
  /\ \A c : Written(Column(c)) = <<Column(c)>>
  /\ Written(Param) = <<Param>>
<1>1. ASSUME NEW ws \in Seq(Vocabulary) PROVE Written(Native(ws)) = Words(ws)
  <2>1. Native(ws)[1] = "native" /\ Native(ws)[2] = ws /\ DOMAIN ws = 1..Len(ws)
    BY DEF Native
  <2>2. Written(Native(ws)) = [i \in DOMAIN ws |-> Word(ws[i])]
    BY <2>1 DEF Written, Kind
  <2>3. QED BY <2>1, <2>2 DEF Words
<1>2. QED BY <1>1 DEF Written, Kind, Bool, Column, Param

\* A sequence of one token
LEMMA SingleType ==
  \A x \in Token : <<x>> \in Seq(Token) /\ <<x>> # <<>> /\ Len(<<x>>) = 1 /\ <<x>>[1] = x
OBVIOUS

\* A part is written as some tokens, with a question mark for a parameter only.
LEMMA WrittenType ==
  ASSUME NEW x \in Parts
  PROVE  Written(x) \in Seq(Token) /\ Written(x) # <<>>
<1>1. CASE x \in {Native(ws) : ws \in Seq(Vocabulary) \ {<<>>}}
  <2>1. PICK ws \in Seq(Vocabulary) \ {<<>>} : x = Native(ws)
    BY <1>1
  <2>2. Written(x) = Words(ws) /\ Len(ws) # 0
    BY <2>1, WrittenParts, EmptySeq
  <2>3. Words(ws) \in Seq(Token) /\ Len(Words(ws)) # 0
    BY <2>1, <2>2, WordsType
  <2>4. QED BY <2>2, <2>3, EmptySeq, Zenon
<1>2. CASE x \in {Bool(b) : b \in BOOLEAN}
  <2>1. PICK b \in BOOLEAN : x = Bool(b)
    BY <1>2
  <2>2. Word(IF b THEN "1 = 1" ELSE "1 = 0") \in Token
    BY DEF Token, Vocabulary, SqlWords
  <2>3. Written(x) = <<Word(IF b THEN "1 = 1" ELSE "1 = 0")>>
    BY <2>1, WrittenParts
  <2>4. QED BY <2>2, <2>3, SingleType
<1>3. CASE x \in {Column(c) : c \in Columns}
  <2>1. PICK c \in Columns : x = Column(c)
    BY <1>3
  <2>2. Column(c) \in Token
    BY DEF Token
  <2>3. Written(x) = <<Column(c)>>
    BY <2>1, WrittenParts
  <2>4. QED BY <2>2, <2>3, SingleType
<1>4. CASE x = Param
  <2>1. Param \in Token
    BY DEF Token
  <2>2. Written(x) = <<Param>>
    BY <1>4, WrittenParts
  <2>3. QED BY <2>1, <2>2, SingleType
<1>5. QED BY <1>1, <1>2, <1>3, <1>4 DEF Parts

\* The tokens of one part more
LEMMA TokensAppend ==
  ASSUME NEW clause \in Seq(Parts), NEW x \in Parts
  PROVE  Tokens(Append(clause, x)) = Tokens(clause) \o Written(x)
<1> DEFINE W(c) == [i \in DOMAIN c |-> Written(c[i])]
<1>1. \A c \in Seq(Parts) : W(c) \in Seq(Seq(Token)) /\ Len(W(c)) = Len(c)
  <2>1. SUFFICES ASSUME NEW c \in Seq(Parts) PROVE W(c) \in Seq(Seq(Token)) /\ Len(W(c)) = Len(c)
    OBVIOUS
  <2>2. Len(c) \in Nat /\ DOMAIN c = 1..Len(c)
    OBVIOUS
  <2>3. \A i \in 1..Len(c) : Written(c[i]) \in Seq(Token)
    BY <2>2, WrittenType
  <2>4. QED BY <2>2, <2>3
<1>2. Append(clause, x) \in Seq(Parts) /\ Len(Append(clause, x)) = Len(clause) + 1
  BY AppendProperties
<1>3. Written(x) \in Seq(Token)
  BY WrittenType
<1>4. W(Append(clause, x)) = Append(W(clause), Written(x))
  <2>1. /\ W(Append(clause, x)) \in Seq(Seq(Token)) /\ W(clause) \in Seq(Seq(Token))
        /\ Len(W(Append(clause, x))) = Len(clause) + 1 /\ Len(W(clause)) = Len(clause)
    BY <1>1, <1>2
  <2>2. /\ Append(W(clause), Written(x)) \in Seq(Seq(Token))
        /\ Len(Append(W(clause), Written(x))) = Len(clause) + 1
    BY <1>3, <2>1, AppendProperties
  <2>3. ASSUME NEW i \in 1..(Len(clause) + 1)
        PROVE  W(Append(clause, x))[i] = Append(W(clause), Written(x))[i]
    OBVIOUS
  <2> HIDE DEF W
  <2>4. QED BY <2>1, <2>2, <2>3, SeqEqual
<1>5. FlattenSeq(Append(W(clause), Written(x))) = FlattenSeq(W(clause)) \o Written(x)
  <2>1. W(clause) \in Seq(Seq(Token))
    BY <1>1
  <2> HIDE DEF W
  <2>2. QED BY <1>3, <2>1, FlattenAppend
<1>6. QED BY <1>4, <1>5 DEF Tokens

\* No part has no tokens.
LEMMA TokensEmpty == Tokens(<<>>) = <<>>
BY EmptySeq DEF Tokens, FlattenSeq

\* Concatenation is associative.
LEMMA Assoc ==
  ASSUME NEW s \in Seq(Token), NEW t \in Seq(Token), NEW u \in Seq(Token)
  PROVE  (s \o t) \o u = s \o (t \o u)
BY ConcatAssociative

\* The tokens of parts that are put together are those of each, in their order.
LEMMA TokensConcat ==
  ASSUME NEW clause \in Seq(Parts), NEW more \in Seq(Parts)
  PROVE  Tokens(more) \in Seq(Token) /\ Tokens(clause \o more) = Tokens(clause) \o Tokens(more)
<1> DEFINE Fine(c, d) == /\ Tokens(d) \in Seq(Token)
                         /\ Tokens(c) \in Seq(Token) => Tokens(c \o d) = Tokens(c) \o Tokens(d)
           T == {n \in Nat : \E c, d \in Seq(Parts) : Len(d) = n /\ ~Fine(c, d)}
<1>1. T = {}
  <2>1. SUFFICES ASSUME T # {} PROVE FALSE
    OBVIOUS
  <2>2. PICK n \in T : \A y \in T : n <= y
    BY <2>1, Least
  <2>3. PICK c \in Seq(Parts), d \in Seq(Parts) : Len(d) = n /\ ~Fine(c, d)
    BY <2>2
  <2>4. CASE d = <<>>
    <3>1. Tokens(d) = <<>> /\ <<>> \in Seq(Token) /\ c \o <<>> = c
      BY <2>4, TokensEmpty, EmptySeq, ConcatEmptySeq
    <3>2. Tokens(c) \in Seq(Token) => Tokens(c) \o <<>> = Tokens(c)
      BY ConcatEmptySeq
    <3>3. QED BY <2>3, <2>4, <3>1, <3>2
  <2>5. CASE d # <<>>
    <3>1. PICK e \in Seq(Parts), x \in Parts : d = Append(e, x)
      BY <2>5, SequenceEmptyOrAppend
    <3>2. Len(e) \in Nat /\ Len(e) + 1 = Len(d)
      BY <3>1, AppendProperties, LenProperties
    <3>3. Len(e) \notin T
      BY <2>2, <2>3, <3>2
    <3>4. Fine(c, e)
      BY <3>2, <3>3
    <3>5. Tokens(d) = Tokens(e) \o Written(x) /\ Written(x) \in Seq(Token)
      BY <3>1, TokensAppend, WrittenType
    <3>6. Tokens(e) \in Seq(Token)
      BY <3>4
    <3>7. Tokens(d) \in Seq(Token)
      BY <3>5, <3>6, ConcatProperties
    <3>8. c \o d = Append(c \o e, x) /\ c \o e \in Seq(Parts)
      BY <3>1, ConcatProperties
    <3>9. Tokens(c \o d) = Tokens(c \o e) \o Written(x)
      BY <3>8, TokensAppend
    <3>10. ASSUME Tokens(c) \in Seq(Token) PROVE Tokens(c \o d) = Tokens(c) \o Tokens(d)
      <4>1. Tokens(c \o e) = Tokens(c) \o Tokens(e)
        BY <3>4, <3>10
      <4>2. (Tokens(c) \o Tokens(e)) \o Written(x) = Tokens(c) \o (Tokens(e) \o Written(x))
        BY <3>5, <3>6, <3>10, Assoc
      <4>3. QED BY <3>5, <3>9, <4>1, <4>2
    <3>11. QED BY <2>3, <3>7, <3>10
  <2>6. QED BY <2>4, <2>5
<1>2. \A c, d \in Seq(Parts) : Fine(c, d)
  <2>1. SUFFICES ASSUME NEW c \in Seq(Parts), NEW d \in Seq(Parts) PROVE Fine(c, d)
    OBVIOUS
  <2>2. Len(d) \in Nat
    OBVIOUS
  <2>3. QED BY <1>1, <2>2
<1>3. QED BY <1>2

------------------------------------------------------------------------------
\* What is built: a query stands for pieces, the tokens of its text with the
\* parameters in their places.

AllParams == {ValueParam(b, n) : b \in BOOLEAN, n \in Nat}
               \cup {RefParam(b, x) : b \in BOOLEAN, x \in Vars}
Open(p) == <<"open", p>>
Pieces == {Word(w) : w \in Vocabulary} \cup {Column(c) : c \in Columns}
            \cup {Open(p) : p \in AllParams}
Shown(x) == IF x[1] = "open" THEN Param ELSE x
Text(W) == [i \in 1..Len(W) |-> Shown(W[i])]
Query == [clause : Seq(Parts), parameters : Seq(AllParams), bind : Seq(AllParams), count : Nat]

\* The parameter of a piece is in the place that its question mark has among them.
InPlace(parameters, W) ==
  /\ Len(parameters) = Marks(Text(W), Len(W))
  /\ \A i \in 1..Len(W) : \A p : W[i] = Open(p) => p = parameters[Marks(Text(W), i)]
Matched(q) ==
  /\ q \in Query /\ q.bind = q.parameters /\ q.count = Len(q.bind)
  /\ Len(q.parameters) = Marks(q.clause, Len(q.clause))
Built(q, W) ==
  /\ Matched(q) /\ W \in Seq(Pieces)
  /\ Tokens(q.clause) = Text(W) /\ InPlace(q.parameters, W)

\* Each piece is one token of the text, a question mark if it is a parameter.
LEMMA TextType ==
  ASSUME NEW W \in Seq(Pieces)
  PROVE  /\ Text(W) \in Seq(Token) /\ Len(Text(W)) = Len(W) /\ Len(W) \in Nat
         /\ \A i \in 1..Len(W) : /\ Text(W)[i] = Shown(W[i]) /\ W[i] \in Pieces
                                /\ (Text(W)[i] = Param <=> \E p \in AllParams : W[i] = Open(p))
                                /\ (Text(W)[i] # Param => Text(W)[i] = W[i])
<1>1. ASSUME NEW x \in Pieces
      PROVE  /\ Shown(x) \in Token /\ (Shown(x) = Param <=> \E p \in AllParams : x = Open(p))
             /\ (Shown(x) # Param => Shown(x) = x)
  <2>1. CASE x \in {Word(w) : w \in Vocabulary}
    <3>1. PICK w \in Vocabulary : x = <<"word", w>>
      BY <2>1 DEF Word
    <3>2. Shown(x) = x /\ Shown(x) # Param /\ \A p : x # Open(p)
      BY <3>1 DEF Shown, Param, Open
    <3>3. QED BY <2>1, <3>2 DEF Token
  <2>2. CASE x \in {Column(c) : c \in Columns}
    <3>1. PICK c \in Columns : x = <<"column", c>>
      BY <2>2 DEF Column
    <3>2. Shown(x) = x /\ Shown(x) # Param /\ \A p : x # Open(p)
      BY <3>1 DEF Shown, Param, Open
    <3>3. QED BY <2>2, <3>2 DEF Token
  <2>3. CASE x \in {Open(p) : p \in AllParams}
    BY <2>3 DEF Shown, Open, Token
  <2>4. QED BY <2>1, <2>2, <2>3 DEF Pieces
<1>2. Len(W) \in Nat /\ \A i \in 1..Len(W) : W[i] \in Pieces
  OBVIOUS
<1>3. QED BY <1>1, <1>2 DEF Text

\* The text of pieces that are put together
LEMMA TextConcat ==
  ASSUME NEW W \in Seq(Pieces), NEW V \in Seq(Pieces)
  PROVE  /\ W \o V \in Seq(Pieces) /\ Len(W \o V) = Len(W) + Len(V)
         /\ Text(W \o V) = Text(W) \o Text(V)
<1>1. W \o V \in Seq(Pieces) /\ Len(W \o V) = Len(W) + Len(V)
  BY ConcatProperties
<1>2. /\ Text(W) \in Seq(Token) /\ Text(V) \in Seq(Token) /\ Text(W \o V) \in Seq(Token)
      /\ Len(Text(W)) = Len(W) /\ Len(Text(V)) = Len(V) /\ Len(Text(W \o V)) = Len(W) + Len(V)
      /\ Len(W) \in Nat /\ Len(V) \in Nat
  BY <1>1, TextType
<1>3. Text(W) \o Text(V) \in Seq(Token) /\ Len(Text(W) \o Text(V)) = Len(W) + Len(V)
  BY <1>2, ConcatProperties
<1>4. ASSUME NEW i \in 1..(Len(W) + Len(V)) PROVE Text(W \o V)[i] = (Text(W) \o Text(V))[i]
  <2>1. (W \o V)[i] = IF i <= Len(W) THEN W[i] ELSE V[i - Len(W)]
    BY ConcatProperties
  <2>2. (Text(W) \o Text(V))[i] = IF i <= Len(W) THEN Text(W)[i] ELSE Text(V)[i - Len(W)]
    BY <1>2, ConcatProperties
  <2>3. Text(W \o V)[i] = Shown((W \o V)[i])
    BY <1>1, TextType
  <2>4. CASE i <= Len(W)
    <3>1. i \in 1..Len(W)
      BY <1>2, <2>4
    <3>2. QED BY <2>1, <2>2, <2>3, <2>4, <3>1, TextType
  <2>5. CASE ~(i <= Len(W))
    <3>1. i - Len(W) \in 1..Len(V)
      BY <1>2, <2>5
    <3>2. QED BY <2>1, <2>2, <2>3, <2>5, <3>1, TextType
  <2>6. QED BY <2>4, <2>5
<1>5. QED BY <1>1, <1>2, <1>3, <1>4, SeqEqual

\* The mark of a parameter is one of all.
LEMMA OpenIsMarked ==
  ASSUME NEW W \in Seq(Pieces), NEW i \in 1..Len(W), NEW p, W[i] = Open(p)
  PROVE  Marks(Text(W), i) \in 1..Marks(Text(W), Len(W))
<1>1. Len(W) \in Nat /\ Text(W)[i] = Param
  BY TextType DEF Text, Shown, Open
<1>2. i \in Nat /\ i - 1 \in Nat /\ Len(W) - i \in Nat /\ i + (Len(W) - i) = Len(W) /\ i - 1 + 1 = i
  BY <1>1
<1>3. Marks(Text(W), i) = Marks(Text(W), i - 1) + 1
  BY <1>1, <1>2, MarksStep
<1>4. Marks(Text(W), i - 1) \in Nat /\ Marks(Text(W), Len(W)) \in Nat
  BY <1>1, <1>2, MarksAreNat
<1>5. Marks(Text(W), i) <= Marks(Text(W), Len(W))
  <2> DEFINE A(n) == {k \in 1..n : Text(W)[k] = Param}
  <2>1. A(i) \subseteq A(Len(W)) /\ A(Len(W)) \in SUBSET (1..Len(W))
    BY <1>1
  <2>2. IsFiniteSet(1..Len(W))
    BY <1>1, FS_Interval
  <2>3. IsFiniteSet(A(Len(W)))
    BY <2>1, <2>2, FS_Subset
  <2>4. Cardinality(A(i)) <= Cardinality(A(Len(W)))
    BY <2>1, <2>3, FS_Subset
  <2>5. QED BY <2>4 DEF Marks
<1>6. QED BY <1>3, <1>4, <1>5

\* What stands for two queries, one after the other.
LEMMA InPlaceConcat ==
  ASSUME NEW W \in Seq(Pieces), NEW V \in Seq(Pieces), NEW ps \in Seq(AllParams), NEW qs \in Seq(AllParams),
         InPlace(ps, W), InPlace(qs, V)
  PROVE  InPlace(ps \o qs, W \o V)
<1> DEFINE t == Text(W \o V)
<1>1. /\ W \o V \in Seq(Pieces) /\ Len(W \o V) = Len(W) + Len(V)
      /\ t = Text(W) \o Text(V)
  BY TextConcat
<1>2. /\ Text(W) \in Seq(Token) /\ Text(V) \in Seq(Token)
      /\ Len(Text(W)) = Len(W) /\ Len(Text(V)) = Len(V)
      /\ Len(W) \in Nat /\ Len(V) \in Nat
  BY TextType
<1>3. /\ \A i \in 1..Len(W) : t[i] = Text(W)[i]
      /\ \A i \in 1..Len(V) : t[Len(W) + i] = Text(V)[i]
  BY <1>1, <1>2
<1> HIDE DEF t
<1>4. ASSUME NEW n \in Nat, n <= Len(W) PROVE Marks(t, n) = Marks(Text(W), n)
  <2>1. Follows(t, 0, Text(W), n)
    BY <1>2, <1>3, <1>4 DEF Follows
  <2>2. QED BY <1>4, <2>1, MarksBefore
<1>5. ASSUME NEW n \in Nat, n <= Len(V)
      PROVE  Marks(t, Len(W) + n) = Marks(Text(W), Len(W)) + Marks(Text(V), n)
  <2>1. Follows(t, Len(W), Text(V), n)
    BY <1>2, <1>3, <1>5 DEF Follows
  <2>2. Marks(t, Len(W) + n) = Marks(t, Len(W)) + Marks(Text(V), n)
    BY <1>2, <2>1, MarksAfter
  <2>3. QED BY <1>2, <1>4, <2>2
<1>6. /\ ps \o qs \in Seq(AllParams) /\ Len(ps \o qs) = Len(ps) + Len(qs)
      /\ \A i \in 1..(Len(ps) + Len(qs)) : (ps \o qs)[i] = IF i <= Len(ps) THEN ps[i] ELSE qs[i - Len(ps)]
      /\ Len(ps) \in Nat /\ Len(qs) \in Nat
  BY ConcatProperties, LenProperties
<1>7. Len(ps) = Marks(Text(W), Len(W)) /\ Len(qs) = Marks(Text(V), Len(V))
  BY DEF InPlace
<1>8. Len(ps \o qs) = Marks(t, Len(W \o V))
  <2>1. Marks(t, Len(W) + Len(V)) = Marks(Text(W), Len(W)) + Marks(Text(V), Len(V))
    BY <1>2, <1>5
  <2>2. QED BY <1>1, <1>6, <1>7, <2>1
<1>9. ASSUME NEW i \in 1..Len(W \o V), NEW p, (W \o V)[i] = Open(p)
      PROVE  p = (ps \o qs)[Marks(t, i)]
  <2>1. i \in 1..(Len(W) + Len(V)) /\ (W \o V)[i] = IF i <= Len(W) THEN W[i] ELSE V[i - Len(W)]
    BY <1>1, ConcatProperties
  <2>2. CASE i <= Len(W)
    <3>1. i \in 1..Len(W)
      BY <1>2, <2>1, <2>2
    <3>2. p = ps[Marks(Text(W), i)]
      BY <1>9, <2>1, <2>2, <3>1 DEF InPlace
    <3>3. Marks(t, i) = Marks(Text(W), i)
      BY <1>4, <2>2, <3>1
    <3>4. Marks(Text(W), i) \in 1..Len(ps)
      BY <1>2, <1>7, <1>9, <2>1, <2>2, <3>1, OpenIsMarked
    <3>5. QED BY <1>6, <3>2, <3>3, <3>4
  <2>3. CASE ~(i <= Len(W))
    <3>1. PICK k \in 1..Len(V) : i = Len(W) + k
      <4>1. i - Len(W) \in 1..Len(V) /\ i = Len(W) + (i - Len(W))
        BY <1>2, <2>1, <2>3
      <4>2. QED BY <4>1
    <3>2. V[k] = Open(p)
      BY <1>2, <1>9, <2>1, <2>3, <3>1
    <3>3. p = qs[Marks(Text(V), k)]
      BY <3>1, <3>2 DEF InPlace
    <3>4. Marks(t, i) = Len(ps) + Marks(Text(V), k)
      BY <1>5, <1>7, <3>1
    <3>5. Marks(Text(V), k) \in 1..Len(qs)
      BY <1>7, <3>1, <3>2, OpenIsMarked
    <3>6. QED BY <1>6, <3>3, <3>4, <3>5
  <2>4. QED BY <2>2, <2>3
<1>10. QED BY <1>8, <1>9 DEF InPlace, t

\* Question marks of two queries that are put together
LEMMA MarksConcat ==
  ASSUME NEW S, NEW s \in Seq(S), NEW t \in Seq(S)
  PROVE  Marks(s \o t, Len(s \o t)) = Marks(s, Len(s)) + Marks(t, Len(t))
<1>1. Len(s) \in Nat /\ Len(t) \in Nat /\ Len(s \o t) = Len(s) + Len(t)
  OBVIOUS
<1>2. Follows(s \o t, 0, s, Len(s)) /\ Follows(s \o t, Len(s), t, Len(t))
  BY <1>1 DEF Follows
<1>3. Marks(s \o t, Len(s)) = Marks(s, Len(s))
  BY <1>1, <1>2, MarksBefore
<1>4. Marks(s \o t, Len(s) + Len(t)) = Marks(s \o t, Len(s)) + Marks(t, Len(t))
  BY <1>1, <1>2, MarksAfter
<1>5. QED BY <1>1, <1>3, <1>4

\* x += y: the pieces of the two, and the parameters stay in place.
LEMMA BuiltPlus ==
  ASSUME NEW x, NEW W, Built(x, W), NEW y, NEW V, Built(y, V)
  PROVE  Built(Plus(x, y), W \o V)
<1> DEFINE z == Plus(x, y)
<1>1. /\ W \in Seq(Pieces) /\ V \in Seq(Pieces) /\ Matched(x) /\ Matched(y)
      /\ InPlace(x.parameters, W) /\ InPlace(y.parameters, V)
      /\ Tokens(x.clause) = Text(W) /\ Tokens(y.clause) = Text(V)
  BY DEF Built
<1>2. /\ x.clause \in Seq(Parts) /\ x.parameters \in Seq(AllParams) /\ x.bind = x.parameters
      /\ y.clause \in Seq(Parts) /\ y.parameters \in Seq(AllParams) /\ y.bind = y.parameters
      /\ x.count = Len(x.parameters) /\ y.count = Len(y.parameters)
      /\ Len(x.parameters) = Marks(x.clause, Len(x.clause))
      /\ Len(y.parameters) = Marks(y.clause, Len(y.clause))
  BY <1>1 DEF Matched, Query
<1>3. /\ x.clause \o y.clause \in Seq(Parts) /\ x.parameters \o y.parameters \in Seq(AllParams)
      /\ Len(x.parameters \o y.parameters) = Len(x.parameters) + Len(y.parameters)
      /\ Len(x.parameters) \in Nat /\ Len(y.parameters) \in Nat
  BY <1>2, ConcatProperties, LenProperties
<1>4. /\ z.clause = x.clause \o y.clause /\ z.parameters = x.parameters \o y.parameters
      /\ z.bind = x.parameters \o y.parameters /\ z.count = Len(x.parameters \o y.parameters)
  <2>1. y.bind = <<>> => Len(y.parameters) = 0
    BY <1>2, EmptySeq
  <2>2. /\ z.clause = x.clause \o y.clause /\ z.parameters = x.parameters \o y.parameters
        /\ z.bind = x.bind \o y.bind
        /\ z.count = IF y.bind = <<>> THEN x.count ELSE Len(x.bind \o y.bind)
    BY DEF Plus
  <2> HIDE DEF z
  <2>3. CASE y.bind = <<>>
    BY <1>2, <1>3, <2>1, <2>2, <2>3
  <2>4. CASE y.bind # <<>>
    BY <1>2, <2>2, <2>4
  <2>5. QED BY <2>3, <2>4
<1>5. z \in Query
  <2>1. z = [clause |-> z.clause, parameters |-> z.parameters, bind |-> z.bind, count |-> z.count]
    BY DEF Plus
  <2> HIDE DEF z
  <2>2. z.clause \in Seq(Parts) /\ z.parameters \in Seq(AllParams) /\ z.bind \in Seq(AllParams) /\ z.count \in Nat
    <3>1. Len(x.parameters \o y.parameters) \in Nat
      <4>1. x.parameters \o y.parameters \in Seq(AllParams)
        BY <1>3
      <4>2. QED BY <4>1, LenProperties
    <3>2. QED BY <1>3, <1>4, <3>1, Zenon
  <2>3. QED BY <2>1, <2>2 DEF Query
<1> HIDE DEF z
<1>6. Len(z.parameters) = Marks(z.clause, Len(z.clause))
  <2>1. Marks(z.clause, Len(z.clause)) = Marks(x.clause, Len(x.clause)) + Marks(y.clause, Len(y.clause))
    BY <1>2, <1>4, MarksConcat
  <2>2. QED BY <1>2, <1>3, <1>4, <2>1
<1>7. Tokens(z.clause) = Text(W \o V) /\ W \o V \in Seq(Pieces)
  <2>1. Tokens(z.clause) = Tokens(x.clause) \o Tokens(y.clause)
    BY <1>2, <1>4, TokensConcat
  <2>2. QED BY <1>1, <2>1, TextConcat
<1>8. InPlace(z.parameters, W \o V)
  BY <1>1, <1>2, <1>4, InPlaceConcat
<1>9. Matched(z)
  BY <1>4, <1>5, <1>6 DEF Matched
<1>10. QED BY <1>7, <1>8, <1>9 DEF Built, z

\* A copy is equal.
LEMMA CopyIs ==
  ASSUME NEW x, Matched(x)
  PROVE  Copy(x) = x
BY DEF Copy, Matched, Query

\* Without parameters there are no question marks.
LEMMA NoneOpen ==
  ASSUME NEW W \in Seq(Pieces), \A i \in 1..Len(W) : \A p : W[i] # Open(p)
  PROVE  Text(W) = W /\ InPlace(<<>>, W)
<1>1. /\ Len(W) \in Nat /\ Len(Text(W)) = Len(W)
      /\ \A i \in 1..Len(W) : Text(W)[i] = W[i] /\ Text(W)[i] # Param
  BY TextType
<1>2. Text(W) = W
  BY <1>1 DEF Text
<1>3. {i \in 1..Len(W) : Text(W)[i] = Param} = {}
  BY <1>1
<1>4. Marks(Text(W), Len(W)) = 0
  BY <1>3, FS_EmptySet DEF Marks
<1>5. QED BY <1>2, <1>4, EmptySeq DEF InPlace

\* A query without parts
LEMMA BuiltNone == Built(None, <<>>)
<1>1. <<>> \in Seq(Pieces) /\ Len(<<>>) = 0 /\ \A i \in 1..0 : \A p : <<>>[i] # Open(p)
  BY EmptySeq
<1>2. Text(<<>>) = <<>> /\ InPlace(<<>>, <<>>)
  BY <1>1, NoneOpen
<1>3. None \in Query
  BY EmptySeq DEF None, Query
<1>4. Marks(<<>>, 0) = 0
  BY MarksNone
<1>5. QED BY <1>1, <1>2, <1>3, <1>4, TokensEmpty DEF Built, Matched, None

\* The tokens of one part
LEMMA TokensOne ==
  ASSUME NEW x \in Parts
  PROVE  <<x>> \in Seq(Parts) /\ Len(<<x>>) = 1 /\ Tokens(<<x>>) = Written(x)
<1>1. <<>> \in Seq(Parts) /\ Append(<<>>, x) = <<x>>
  BY EmptySeq
<1>2. Tokens(<<x>>) = Tokens(<<>>) \o Written(x)
  BY <1>1, TokensAppend
<1>3. Written(x) \in Seq(Token)
  BY WrittenType
<1>4. <<>> \o Written(x) = Written(x)
  BY <1>3, ConcatEmptySeq
<1>5. <<x>> \in Seq(Parts) /\ Len(<<x>>) = 1
  OBVIOUS
<1>6. QED BY <1>2, <1>4, <1>5, TokensEmpty

\* A part that is not a parameter.
LEMMA BuiltPart ==
  ASSUME NEW x \in Parts \ {Param}, NEW W \in Seq(Pieces), Written(x) = W,
         \A i \in 1..Len(W) : \A p : W[i] # Open(p)
  PROVE  Built(Part(x), W)
<1>1. <<x>> \in Seq(Parts) /\ Len(<<x>>) = 1 /\ Tokens(<<x>>) = W /\ <<x>>[1] = x
  BY TokensOne
<1>2. Text(W) = W /\ InPlace(<<>>, W)
  BY NoneOpen
<1>3. Part(x) = [clause |-> <<x>>, parameters |-> <<>>, bind |-> <<>>, count |-> 0]
  BY DEF Part, None
<1>4. Part(x) \in Query
  BY <1>1, <1>3, EmptySeq DEF Query
<1>5. Marks(<<x>>, 1) = 0
  <2>1. {i \in 1..1 : <<x>>[i] = Param} = {}
    BY <1>1
  <2>2. QED BY <2>1, FS_EmptySet DEF Marks
<1>6. Matched(Part(x))
  BY <1>1, <1>3, <1>4, <1>5, EmptySeq DEF Matched
<1>7. QED BY <1>1, <1>2, <1>3, <1>6 DEF Built

\* Words are pieces, and are shown as they are.
LEMMA WordPieces ==
  ASSUME NEW ws \in Seq(Vocabulary)
  PROVE  /\ Words(ws) \in Seq(Pieces) /\ Len(Words(ws)) = Len(ws) /\ Text(Words(ws)) = Words(ws)
         /\ \A i \in 1..Len(Words(ws)) : \A p : Words(ws)[i] # Open(p)
<1>1. Len(ws) \in Nat /\ \A i \in 1..Len(ws) : Word(ws[i]) \in Pieces /\ \A p : Word(ws[i]) # Open(p)
  BY DEF Pieces, Word, Open
<1>2. /\ Words(ws) \in Seq(Pieces) /\ Len(Words(ws)) = Len(ws)
      /\ \A i \in 1..Len(ws) : Words(ws)[i] = Word(ws[i])
  BY <1>1 DEF Words
<1>3. \A i \in 1..Len(Words(ws)) : \A p : Words(ws)[i] # Open(p)
  BY <1>1, <1>2
<1>4. QED BY <1>2, <1>3, NoneOpen

\* A query of one native part
LEMMA NativePart ==
  ASSUME NEW ws \in Seq(Vocabulary) \ {<<>>}
  PROVE  /\ Native(ws) \in Parts \ {Param} /\ Written(Native(ws)) = Words(ws)
         /\ Built(Part(Native(ws)), Words(ws))
<1>1. Native(ws) \in Parts /\ Native(ws) # Param
  BY DEF Parts, Native, Param
<1>2. Written(Native(ws)) = Words(ws)
  BY WrittenParts
<1>3. Built(Part(Native(ws)), Words(ws))
  BY <1>1, <1>2, WordPieces, BuiltPart
<1>4. QED BY <1>1, <1>2, <1>3

\* Words go on with words.
LEMMA WordsGoOn ==
  ASSUME NEW us \in Seq(Vocabulary) \ {<<>>}, NEW ws \in Seq(Vocabulary) \ {<<>>}
  PROVE  us \o ws \in Seq(Vocabulary) \ {<<>>} /\ Words(us \o ws) = Words(us) \o Words(ws)
<1>1. us \o ws \in Seq(Vocabulary) /\ us \o ws # <<>> /\ Len(us \o ws) = Len(us) + Len(ws)
  BY ConcatProperties, ConcatEqualIffEmpty
<1>2. /\ Words(us) \in Seq(Token) /\ Words(ws) \in Seq(Token) /\ Words(us \o ws) \in Seq(Token)
      /\ Len(Words(us)) = Len(us) /\ Len(Words(ws)) = Len(ws)
      /\ Len(Words(us \o ws)) = Len(us) + Len(ws)
      /\ Len(us) \in Nat /\ Len(ws) \in Nat
  BY <1>1, WordsType, LenProperties
<1>3. /\ Words(us) \o Words(ws) \in Seq(Token)
      /\ Len(Words(us) \o Words(ws)) = Len(us) + Len(ws)
  <2>1. Words(us) \in Seq(Token) /\ Words(ws) \in Seq(Token)
    BY <1>2
  <2>2. /\ Words(us) \o Words(ws) \in Seq(Token)
        /\ Len(Words(us) \o Words(ws)) = Len(Words(us)) + Len(Words(ws))
    BY <2>1, ConcatProperties
  <2>3. QED BY <1>2, <2>2
<1>4. ASSUME NEW i \in 1..(Len(us) + Len(ws))
      PROVE  Words(us \o ws)[i] = (Words(us) \o Words(ws))[i]
  <2>1. Words(us \o ws)[i] = Word((us \o ws)[i])
    BY <1>1, WordsType
  <2>2. (us \o ws)[i] = IF i <= Len(us) THEN us[i] ELSE ws[i - Len(us)]
    BY ConcatProperties
  <2>3. (Words(us) \o Words(ws))[i] =
          IF i <= Len(us) THEN Words(us)[i] ELSE Words(ws)[i - Len(us)]
    BY <1>2, ConcatProperties
  <2>4. CASE i <= Len(us)
    <3>1. i \in 1..Len(us)
      BY <1>2, <2>4
    <3>2. Words(us)[i] = Word(us[i])
      BY <3>1, WordsType
    <3>3. QED BY <2>1, <2>2, <2>3, <2>4, <3>2
  <2>5. CASE ~(i <= Len(us))
    <3>1. i - Len(us) \in 1..Len(ws)
      BY <1>2, <2>5
    <3>2. Words(ws)[i - Len(us)] = Word(ws[i - Len(us)])
      BY <3>1, WordsType
    <3>3. QED BY <2>1, <2>2, <2>3, <2>5, <3>2
  <2>6. QED BY <2>4, <2>5
<1>5. Words(us \o ws) = Words(us) \o Words(ws)
  BY <1>2, <1>3, <1>4, SeqEqual
<1>6. QED BY <1>1, <1>5

\* A part of the native kind is native text.
LEMMA KindIsNative ==
  ASSUME NEW x \in Parts, Kind(x) = "native"
  PROVE  \E ws \in Seq(Vocabulary) \ {<<>>} : x = Native(ws) /\ x[2] = ws
BY DEF Parts, Kind, Native, Bool, Column, Param

\* With no native part before it, native text is a part of its own.
LEMMA AppendNativeAlone ==
  ASSUME NEW x, x \in Query, NEW ws, ~(x.clause # <<>> /\ Kind(Last(x.clause)) = "native")
  PROVE  AppendNative(x, ws) = Plus(x, Part(Native(ws)))
<1>1. AppendNative(x, ws) = [x EXCEPT !.clause = Append(@, Native(ws))]
  BY DEF AppendNative
<1>2. /\ Part(Native(ws)).clause = <<Native(ws)>> /\ Part(Native(ws)).parameters = <<>>
      /\ Part(Native(ws)).bind = <<>>
  BY DEF Part, None
<1>3. /\ x = [clause |-> x.clause, parameters |-> x.parameters, bind |-> x.bind, count |-> x.count]
      /\ x.parameters \o <<>> = x.parameters /\ x.bind \o <<>> = x.bind
      /\ Append(x.clause, Native(ws)) = x.clause \o <<Native(ws)>>
  BY DEF Query
<1>4. QED BY <1>1, <1>2, <1>3 DEF Plus

\* Native text is added, whether or not it goes into the part before.
LEMMA BuiltNative ==
  ASSUME NEW x, NEW W, Built(x, W), NEW ws \in Seq(Vocabulary) \ {<<>>}
  PROVE  Built(AppendNative(x, ws), W \o Words(ws))
<1>1. /\ W \in Seq(Pieces) /\ Matched(x) /\ InPlace(x.parameters, W)
      /\ Tokens(x.clause) = Text(W)
  BY DEF Built
<1>2. /\ x \in Query /\ x.clause \in Seq(Parts) /\ x.parameters \in Seq(AllParams)
      /\ x.bind = x.parameters /\ x.count = Len(x.bind)
      /\ Len(x.parameters) = Marks(x.clause, Len(x.clause))
  BY <1>1 DEF Matched, Query
<1>3. CASE x.clause # <<>> /\ Kind(Last(x.clause)) = "native"
  <2>1. PICK e \in Seq(Parts), l \in Parts : x.clause = Append(e, l)
    <3>1. x.clause \in Seq(Parts) /\ x.clause # <<>>
      BY <1>2, <1>3
    <3>2. QED BY <3>1, SequenceEmptyOrAppend
  <2>2. PICK n \in Nat : n = Len(x.clause)
    BY <1>2, LenProperties
  <2>3. /\ n = Len(e) + 1 /\ Len(e) \in Nat /\ x.clause[n] = l /\ Last(x.clause) = l
        /\ \A i \in 1..Len(e) : x.clause[i] = e[i]
    BY <2>1, <2>2, AppendProperties, LenProperties DEF Last
  <2>4. PICK us \in Seq(Vocabulary) \ {<<>>} : l = Native(us) /\ l[2] = us
    BY <1>3, <2>3, KindIsNative
  <2>5. us \o ws \in Seq(Vocabulary) \ {<<>>} /\ Words(us \o ws) = Words(us) \o Words(ws)
    BY WordsGoOn
  <2> DEFINE z == AppendNative(x, ws)
  <2>6. z = [x EXCEPT !.clause = [x.clause EXCEPT ![n] = Native(us \o ws)]]
    BY <1>2, <1>3, <2>2, <2>3, <2>4 DEF AppendNative, Query
  <2>7. Native(us \o ws) \in Parts \ {Param} /\ l \in Parts \ {Param}
    BY <2>4, <2>5, NativePart
  <2>8. [x.clause EXCEPT ![n] = Native(us \o ws)] = Append(e, Native(us \o ws))
    <3>1. n \in 1..Len(x.clause)
      BY <2>2, <2>3
    <3>2. /\ [x.clause EXCEPT ![n] = Native(us \o ws)] \in Seq(Parts)
          /\ Len([x.clause EXCEPT ![n] = Native(us \o ws)]) = n
          /\ \A i \in 1..n : [x.clause EXCEPT ![n] = Native(us \o ws)][i]
                              = IF i = n THEN Native(us \o ws) ELSE x.clause[i]
      BY <1>2, <2>2, <2>7, <3>1, ExceptSeq
    <3>3. /\ Append(e, Native(us \o ws)) \in Seq(Parts)
          /\ Len(Append(e, Native(us \o ws))) = n
          /\ \A i \in 1..n : Append(e, Native(us \o ws))[i]
                              = IF i = n THEN Native(us \o ws) ELSE e[i]
      BY <2>3, <2>7, AppendProperties
    <3>4. \A i \in 1..n : i # n => i \in 1..Len(e)
      BY <2>3
    <3>5. \A i \in 1..n : [x.clause EXCEPT ![n] = Native(us \o ws)][i]
                          = Append(e, Native(us \o ws))[i]
      BY <2>3, <3>2, <3>3, <3>4, Zenon
    <3>6. QED BY <3>2, <3>3, <3>5, SeqEqual
  <2>9. /\ z \in Query /\ z.clause = Append(e, Native(us \o ws))
        /\ z.parameters = x.parameters /\ z.bind = x.bind /\ z.count = x.count
    <3>1. Append(e, Native(us \o ws)) \in Seq(Parts)
      BY <2>7, AppendProperties
    <3>2. QED BY <1>2, <2>6, <2>8, <3>1 DEF Query
  <2> HIDE DEF z
  <2>10. Tokens(z.clause) = Tokens(x.clause) \o Words(ws)
    <3>1. Tokens(x.clause) = Tokens(e) \o Words(us)
      BY <2>1, <2>4, <2>7, TokensAppend, NativePart
    <3>2. Tokens(z.clause) = Tokens(e) \o (Words(us) \o Words(ws))
      BY <2>5, <2>7, <2>9, TokensAppend, NativePart
    <3>3. Tokens(e) \in Seq(Token) /\ Words(us) \in Seq(Token) /\ Words(ws) \in Seq(Token)
      BY TokensConcat, WordsType
    <3>4. (Tokens(e) \o Words(us)) \o Words(ws) = Tokens(e) \o (Words(us) \o Words(ws))
      BY <3>3, Assoc
    <3>5. QED BY <3>1, <3>2, <3>4
  <2>11. Len(z.parameters) = Marks(z.clause, Len(z.clause))
    <3>1. Len(z.clause) = n
      BY <2>3, <2>7, <2>9, AppendProperties
    <3>2. \A i \in 1..n : (z.clause[i] = Param) <=> (x.clause[i] = Param)
      <4>1. ASSUME NEW i \in 1..n PROVE (z.clause[i] = Param) <=> (x.clause[i] = Param)
        <5>1. z.clause[i] = IF i = n THEN Native(us \o ws) ELSE e[i]
          BY <2>3, <2>7, <2>9, AppendProperties
        <5>2. i # n => i \in 1..Len(e)
          BY <2>3
        <5>3. QED BY <2>3, <2>7, <5>1, <5>2
      <4>2. QED BY <4>1
    <3>3. Marks(z.clause, n) = Marks(x.clause, n)
      BY <3>2, MarksSame
    <3>4. QED BY <1>2, <2>2, <2>9, <3>1, <3>3
  <2>12. Matched(z)
    BY <1>2, <2>9, <2>11 DEF Matched
  <2>13. W \o Words(ws) \in Seq(Pieces) /\ Tokens(z.clause) = Text(W \o Words(ws))
    BY <1>1, <2>10, WordPieces, TextConcat
  <2>14. InPlace(z.parameters, W \o Words(ws))
    <3>1. InPlace(<<>>, Words(ws)) /\ <<>> \in Seq(AllParams) /\ Words(ws) \in Seq(Pieces)
      BY WordPieces, NoneOpen, EmptySeq
    <3>2. InPlace(x.parameters \o <<>>, W \o Words(ws))
      BY <1>1, <1>2, <3>1, InPlaceConcat
    <3>3. x.parameters \o <<>> = x.parameters
      BY <1>2, ConcatEmptySeq
    <3>4. QED BY <2>9, <3>2, <3>3
  <2>15. QED BY <2>12, <2>13, <2>14 DEF Built, z
<1>4. CASE ~(x.clause # <<>> /\ Kind(Last(x.clause)) = "native")
  <2>1. AppendNative(x, ws) = Plus(x, Part(Native(ws)))
    BY <1>2, <1>4, AppendNativeAlone
  <2>2. Built(Part(Native(ws)), Words(ws))
    BY NativePart
  <2>3. QED BY <2>1, <2>2, BuiltPlus
<1>5. QED BY <1>3, <1>4

------------------------------------------------------------------------------
\* The constructors and append(): what they build of what they are given.

IsPlain(W) == \A i \in 1..Len(W) : \A p : W[i] # Open(p)

\* A sequence of one piece
LEMMA SinglePiece ==
  \A x \in Pieces : <<x>> \in Seq(Pieces) /\ <<x>> # <<>> /\ Len(<<x>>) = 1 /\ <<x>>[1] = x
OBVIOUS

\* What a part that is not a parameter is written as.
LEMMA PlainPart ==
  ASSUME NEW x \in Parts \ {Param}
  PROVE  Written(x) \in Seq(Pieces) /\ Written(x) # <<>> /\ IsPlain(Written(x))
<1>1. CASE x \in {Native(ws) : ws \in Seq(Vocabulary) \ {<<>>}}
  <2>1. PICK ws \in Seq(Vocabulary) \ {<<>>} : x = Native(ws)
    BY <1>1
  <2>2. Written(x) = Words(ws) /\ Written(x) # <<>>
    BY <2>1, NativePart, WrittenType
  <2>3. QED BY <2>2, WordPieces DEF IsPlain
<1>2. CASE x \in {Bool(b) : b \in BOOLEAN}
  <2>1. PICK b \in BOOLEAN : x = Bool(b)
    BY <1>2
  <2>2. PICK w \in Vocabulary : w = IF b THEN "1 = 1" ELSE "1 = 0"
    BY DEF Vocabulary, SqlWords
  <2>3. Written(x) = <<Word(w)>> /\ Word(w) \in Pieces /\ \A p : Word(w) # Open(p)
    BY <2>1, <2>2, WrittenParts DEF Pieces, Word, Open
  <2>4. QED BY <2>3, SinglePiece DEF IsPlain
<1>3. CASE x \in {Column(c) : c \in Columns}
  <2>1. PICK c \in Columns : x = Column(c)
    BY <1>3
  <2>2. Written(x) = <<Column(c)>> /\ Column(c) \in Pieces /\ \A p : Column(c) # Open(p)
    BY <2>1, WrittenParts DEF Pieces, Column, Open
  <2>3. QED BY <2>2, SinglePiece DEF IsPlain
<1>4. QED BY <1>1, <1>2, <1>3 DEF Parts

\* A query of one column
LEMMA ColumnPart ==
  ASSUME NEW c \in Columns
  PROVE  Column(c) \in Parts \ {Param} /\ Built(Part(Column(c)), <<Column(c)>>)
<1>1. Column(c) \in Parts \ {Param} /\ Written(Column(c)) = <<Column(c)>>
  BY WrittenParts DEF Parts, Column, Param
<1>2. QED BY <1>1, PlainPart, BuiltPart DEF IsPlain

\* A query of TRUE or FALSE
LEMMA BoolPart ==
  ASSUME NEW b \in BOOLEAN
  PROVE  Bool(b) \in Parts \ {Param} /\ Built(Part(Bool(b)), <<Word(IF b THEN "1 = 1" ELSE "1 = 0")>>)
<1>1. Bool(b) \in Parts \ {Param} /\ Written(Bool(b)) = <<Word(IF b THEN "1 = 1" ELSE "1 = 0")>>
  BY WrittenParts DEF Parts, Bool, Param
<1>2. QED BY <1>1, PlainPart, BuiltPart DEF IsPlain

\* A column is added.
LEMMA BuiltColumn ==
  ASSUME NEW x, NEW W, Built(x, W), NEW c \in Columns
  PROVE  Built(AppendColumn(x, c), W \o <<Column(c)>>)
<1>1. x \in Query
  BY DEF Built, Matched
<1>2. AppendColumn(x, c) = Plus(x, Part(Column(c)))
  <2>1. AppendColumn(x, c) = [x EXCEPT !.clause = Append(@, Column(c))]
    BY DEF AppendColumn
  <2>2. /\ Part(Column(c)).clause = <<Column(c)>> /\ Part(Column(c)).parameters = <<>>
        /\ Part(Column(c)).bind = <<>>
    BY DEF Part, None
  <2>3. /\ x = [clause |-> x.clause, parameters |-> x.parameters, bind |-> x.bind, count |-> x.count]
        /\ x.parameters \o <<>> = x.parameters /\ x.bind \o <<>> = x.bind
        /\ Append(x.clause, Column(c)) = x.clause \o <<Column(c)>>
    BY <1>1 DEF Query
  <2>4. QED BY <2>1, <2>2, <2>3 DEF Plus
<1>3. QED BY <1>2, ColumnPart, BuiltPlus

\* A query of one parameter
LEMMA BuiltOpen ==
  ASSUME NEW p \in AllParams
  PROVE  Built(AppendParam(None, p), <<Open(p)>>)
<1> DEFINE W == <<Open(p)>>
<1>1. W \in Seq(Pieces) /\ Len(W) = 1 /\ W[1] = Open(p)
  BY SinglePiece DEF Pieces
<1>2. Text(W) = <<Param>>
  BY <1>1 DEF Text, Shown, Open
<1>3. AppendParam(None, p) = [clause |-> <<Param>>, parameters |-> <<p>>, bind |-> <<p>>, count |-> 1]
  BY DEF AppendParam, None
<1>4. Param \in Parts /\ Tokens(<<Param>>) = <<Param>> /\ <<Param>> \in Seq(Parts)
  BY TokensOne, WrittenParts DEF Parts
<1>5. <<p>> \in Seq(AllParams) /\ Len(<<p>>) = 1 /\ <<p>>[1] = p
  OBVIOUS
<1>6. Marks(<<Param>>, 1) = 1
  <2>1. {i \in 1..1 : <<Param>>[i] = Param} = {1}
    OBVIOUS
  <2>2. QED BY <2>1, FS_Singleton DEF Marks
<1>7. AppendParam(None, p) \in Query
  BY <1>3, <1>4, <1>5 DEF Query
<1>8. Matched(AppendParam(None, p))
  BY <1>3, <1>5, <1>6, <1>7 DEF Matched
<1>9. InPlace(<<p>>, W)
  <2>1. \A r : W[1] = Open(r) => r = p
    BY <1>1 DEF Open
  <2> HIDE DEF W
  <2>2. QED BY <1>1, <1>2, <1>5, <1>6, <2>1 DEF InPlace
<1>10. QED BY <1>1, <1>2, <1>3, <1>4, <1>8, <1>9 DEF Built

\* Appending a parameter is adding a query of it.
LEMMA ParamAdds ==
  ASSUME NEW x, NEW W, Built(x, W), NEW p \in AllParams
  PROVE  AppendParam(x, p) = Plus(x, AppendParam(None, p))
<1>1. Matched(x) /\ x.bind \in Seq(AllParams) /\ x.clause \in Seq(Parts) /\ x.parameters \in Seq(AllParams)
  BY DEF Built, Matched, Query
<1>2. AppendParam(x, p) = Plus(x, AppendParam(None, p))
  <2>1. AppendParam(None, p) = [clause |-> <<Param>>, parameters |-> <<p>>, bind |-> <<p>>, count |-> 1]
    BY DEF AppendParam, None
  <2>2. /\ Append(x.clause, Param) = x.clause \o <<Param>>
        /\ Append(x.parameters, p) = x.parameters \o <<p>> /\ Append(x.bind, p) = x.bind \o <<p>>
        /\ Len(x.bind \o <<p>>) = Len(x.bind) + 1 /\ <<p>> # <<>>
    <3>1. Param \in Parts
      BY DEF Parts
    <3>2. Append(x.clause, Param) = x.clause \o <<Param>>
      BY <1>1, <3>1, AppendIsConcat
    <3>3. /\ Append(x.parameters, p) = x.parameters \o <<p>> /\ Append(x.bind, p) = x.bind \o <<p>>
          /\ Len(Append(x.bind, p)) = Len(x.bind) + 1
      BY <1>1, AppendIsConcat, AppendProperties, ZenonT(40)
    <3>4. QED BY <3>2, <3>3
  <2>3. QED BY <2>1, <2>2 DEF Plus, AppendParam
<1>3. QED BY <1>2

\* A parameter is added.
LEMMA BuiltParam ==
  ASSUME NEW x, NEW W, Built(x, W), NEW p \in AllParams
  PROVE  Built(AppendParam(x, p), W \o <<Open(p)>>)
BY ParamAdds, BuiltOpen, BuiltPlus

\* A sequence is its head and its tail.
LEMMA HeadThenTail ==
  ASSUME NEW S, NEW s \in Seq(S), s # <<>>
  PROVE  s = <<Head(s)>> \o Tail(s)
<1>1. Len(s) \in Nat /\ Len(s) # 0 /\ s[1] \in S
  BY EmptySeq
<1>2. SubSeq(s, 1, Len(s)) = <<s[1]>> \o SubSeq(s, 2, Len(s))
  <2>1. 1 \in 1..Len(s) /\ Len(s) \in 1..Len(s) /\ 1 + 1 = 2
    BY <1>1
  <2>2. QED BY <2>1, SubSeqRecursiveFirst
<1>3. QED BY <1>2, SubSeqFull, TailIsSubSeq

\* Without its first part a query stands for what it stood for without what that
\* part was written as.
LEMMA BuiltTail ==
  ASSUME NEW x, NEW W, Built(x, W), x.clause # <<>>, Head(x.clause) # Param
  PROVE  /\ Head(x.clause) \in Parts \ {Param}
         /\ \E V \in Seq(Pieces) : /\ W = Written(Head(x.clause)) \o V
                                   /\ Built([x EXCEPT !.clause = Tail(@)], V)
<1>1. /\ W \in Seq(Pieces) /\ Matched(x) /\ InPlace(x.parameters, W)
      /\ Tokens(x.clause) = Text(W)
  BY DEF Built
<1>2. /\ x \in Query /\ x.clause \in Seq(Parts) /\ x.parameters \in Seq(AllParams)
      /\ x.bind = x.parameters /\ x.count = Len(x.bind)
      /\ Len(x.parameters) = Marks(x.clause, Len(x.clause))
  BY <1>1 DEF Matched, Query
<1>3. PICK h \in Parts \ {Param}, e \in Seq(Parts) :
        h = Head(x.clause) /\ e = Tail(x.clause) /\ x.clause = <<h>> \o e
  <2>1. Head(x.clause) \in Parts \ {Param} /\ Tail(x.clause) \in Seq(Parts)
    BY <1>2, HeadTailProperties
  <2>2. x.clause = <<Head(x.clause)>> \o Tail(x.clause)
    BY <1>2, HeadThenTail
  <2>3. QED BY <2>1, <2>2
<1>4. PICK u \in Seq(Pieces) : u = Written(h) /\ IsPlain(u)
  BY PlainPart
<1>5. Text(u) = u /\ InPlace(<<>>, u) /\ Text(u) \in Seq(Token)
  BY <1>4, NoneOpen, TextType DEF IsPlain
<1>6. Tokens(x.clause) = u \o Tokens(e) /\ Tokens(e) \in Seq(Token)
  BY <1>3, <1>4, TokensOne, TokensConcat, ZenonT(40)
<1>7. PICK k \in Nat, n \in Nat : k = Len(u) /\ n = Len(Tokens(e)) /\ Len(W) = k + n
  <2>1. u \in Seq(Token) /\ Tokens(e) \in Seq(Token) /\ Len(Text(W)) = Len(W)
    BY <1>1, <1>5, <1>6, TextType
  <2>2. Len(u \o Tokens(e)) = Len(u) + Len(Tokens(e)) /\ Len(u) \in Nat /\ Len(Tokens(e)) \in Nat
    BY <2>1, ConcatProperties, LenProperties
  <2>3. QED BY <1>1, <1>6, <2>1, <2>2
<1> DEFINE V == [i \in 1..n |-> W[k + i]]
           y == [x EXCEPT !.clause = Tail(@)]
<1>8. \A i \in 1..k : W[i] = u[i]
  <2>1. ASSUME NEW i \in 1..k PROVE W[i] = u[i]
    <3>1. i \in 1..Len(W) /\ i \in 1..Len(u)
      BY <1>7
    <3>2. Text(W)[i] = u[i]
      <4>1. u \in Seq(Token) /\ Tokens(e) \in Seq(Token)
        BY <1>5, <1>6
      <4>2. (u \o Tokens(e))[i] = u[i]
        BY <1>7, <3>1, <4>1
      <4>3. QED BY <1>1, <1>6, <4>2
    <3>3. u[i] # Param
      BY <1>4, <1>5, <3>1, TextType DEF IsPlain
    <3>4. QED BY <1>1, <3>1, <3>2, <3>3, TextType
  <2>2. QED BY <2>1
<1>9. V \in Seq(Pieces) /\ Len(V) = n
  <2>1. \A i \in 1..n : k + i \in 1..Len(W)
    BY <1>7
  <2>2. QED BY <1>1, <2>1
<1>10. W = u \o V
  <2>1. /\ u \o V \in Seq(Pieces) /\ Len(u \o V) = k + n
        /\ \A i \in 1..(k + n) : (u \o V)[i] = IF i <= k THEN u[i] ELSE V[i - k]
    <3> HIDE DEF V
    <3>1. /\ u \o V \in Seq(Pieces) /\ Len(u \o V) = Len(u) + Len(V)
          /\ \A i \in 1..(Len(u) + Len(V)) : (u \o V)[i] = IF i <= Len(u) THEN u[i] ELSE V[i - Len(u)]
      BY <1>9, ConcatProperties
    <3>2. QED BY <1>7, <1>9, <3>1
  <2>2. \A i \in 1..(k + n) : ~(i <= k) => V[i - k] = W[i]
    BY <1>7
  <2> HIDE DEF V
  <2>3. \A i \in 1..(k + n) : W[i] = (u \o V)[i]
    <3>1. ASSUME NEW i \in 1..(k + n) PROVE W[i] = (u \o V)[i]
      <4>1. CASE i <= k
        BY <1>8, <2>1, <4>1
      <4>2. CASE ~(i <= k)
        BY <2>1, <2>2, <4>2
      <4>3. QED BY <4>1, <4>2
    <3>2. QED BY <3>1
  <2>4. QED BY <1>1, <1>7, <2>1, <2>3, SeqEqual
<1> HIDE DEF V
<1>11. Text(W) = u \o Text(V) /\ Text(V) \in Seq(Token)
  <2>1. Text(W) = Text(u) \o Text(V)
    BY <1>9, <1>10, TextConcat
  <2>2. Text(V) \in Seq(Token)
    BY <1>9, TextType
  <2>3. QED BY <1>5, <2>1, <2>2
<1>12. Text(V) = Tokens(e)
  <2>1. u \in Seq(Token)
    BY <1>5
  <2>2. u \o Text(V) = u \o Tokens(e)
    BY <1>1, <1>6, <1>11
  <2>3. Len(u) \in Nat /\ Len(Text(V)) = n /\ n \in Nat
    BY <1>7, <1>9, TextType
  <2>4. \A i \in 1..n : Text(V)[i] = Tokens(e)[i]
    <3>1. ASSUME NEW i \in 1..n PROVE Text(V)[i] = Tokens(e)[i]
      <4>1. (u \o Text(V))[k + i] = Text(V)[i] /\ (u \o Tokens(e))[k + i] = Tokens(e)[i]
        BY <1>6, <1>7, <1>11, <2>1, <2>3
      <4>2. QED BY <2>2, <4>1
    <3>2. QED BY <3>1
  <2>5. QED BY <1>6, <1>7, <1>11, <2>3, <2>4, SeqEqual
<1>13. ASSUME NEW m \in Nat, m <= n PROVE Marks(Text(W), k + m) = Marks(Text(V), m)
  <2>1. Marks(Text(W), k) = Marks(u, k) /\ Marks(u, k) = 0
    <3>1. Marks(u, k) = 0
      BY <1>5, <1>7, EmptySeq DEF InPlace
    <3>2. u \in Seq(Token) /\ Text(V) \in Seq(Token)
      BY <1>5, <1>11
    <3>3. Follows(Text(W), 0, u, k)
      BY <1>7, <1>11, <3>2 DEF Follows
    <3>4. QED BY <3>1, <3>3, MarksBefore
  <2>2. Follows(Text(W), k, Text(V), m)
    <3>1. u \in Seq(Token) /\ Text(V) \in Seq(Token) /\ Len(Text(V)) = n
      BY <1>5, <1>9, <1>11, TextType
    <3>2. QED BY <1>7, <1>11, <1>13, <3>1 DEF Follows
  <2>3. Marks(Text(W), k + m) = Marks(Text(W), k) + Marks(Text(V), m)
    BY <2>2, MarksAfter
  <2>4. Marks(Text(V), m) \in Nat
    BY MarksAreNat
  <2>5. QED BY <2>1, <2>3, <2>4
<1>14. InPlace(x.parameters, V)
  <2>1. Len(x.parameters) = Marks(Text(V), Len(V))
    <3>1. Marks(Text(W), k + n) = Marks(Text(V), n)
      BY <1>13
    <3>2. QED BY <1>1, <1>7, <1>9, <3>1 DEF InPlace
  <2>2. ASSUME NEW i \in 1..Len(V), NEW p, V[i] = Open(p) PROVE p = x.parameters[Marks(Text(V), i)]
    <3>1. i \in Nat /\ i <= n /\ k + i \in 1..Len(W)
      BY <1>7, <1>9
    <3>2. W[k + i] = Open(p)
      BY <1>9, <2>2 DEF V
    <3>3. p = x.parameters[Marks(Text(W), k + i)]
      BY <1>1, <3>1, <3>2 DEF InPlace
    <3>4. Marks(Text(W), k + i) = Marks(Text(V), i)
      BY <1>13, <3>1
    <3>5. QED BY <3>3, <3>4
  <2>3. QED BY <2>1, <2>2 DEF InPlace
<1>15. /\ y \in Query /\ y.clause = e /\ y.parameters = x.parameters /\ y.bind = x.bind
       /\ y.count = x.count
  BY <1>2, <1>3 DEF Query
<1> HIDE DEF y
<1>16. Len(y.parameters) = Marks(y.clause, Len(y.clause))
  <2>1. <<h>> \in Seq(Parts) /\ Len(<<h>>) = 1 /\ <<h>>[1] # Param
    OBVIOUS
  <2>2. Marks(<<h>>, 1) = 0
    <3>1. {i \in 1..1 : <<h>>[i] = Param} = {}
      BY <2>1
    <3>2. QED BY <3>1, FS_EmptySet DEF Marks
  <2>3. Marks(x.clause, Len(x.clause)) = Marks(<<h>>, 1) + Marks(e, Len(e))
    BY <1>3, <2>1, MarksConcat
  <2>4. Len(e) \in Nat /\ Marks(e, Len(e)) \in Nat
    BY LenProperties, MarksAreNat
  <2>5. QED BY <1>2, <1>15, <2>2, <2>3, <2>4
<1>17. Matched(y)
  BY <1>2, <1>15, <1>16 DEF Matched
<1>18. Built(y, V)
  BY <1>9, <1>12, <1>14, <1>15, <1>17 DEF Built
<1>19. QED BY <1>3, <1>4, <1>9, <1>10, <1>18 DEF y

\* Putting pieces together is associative.
LEMMA AssocPieces ==
  ASSUME NEW s \in Seq(Pieces), NEW t \in Seq(Pieces), NEW u \in Seq(Pieces)
  PROVE  (s \o t) \o u = s \o (t \o u)
BY ConcatAssociative

\* What the translation appends, as pieces
LEMMA BuiltGlued ==
  ASSUME NEW x, NEW W, Built(x, W), NEW y, NEW V, Built(y, V)
  PROVE  Built(Glued(x, y), W \o V)
<1> DEFINE native == /\ x.clause # <<>> /\ Kind(Last(x.clause)) = "native"
                     /\ y.clause # <<>> /\ Kind(Head(y.clause)) = "native"
           rest == [y EXCEPT !.clause = Tail(@)]
<1>1. CASE native
  <2>1. y.clause \in Seq(Parts) /\ y.clause # <<>> /\ W \in Seq(Pieces)
    BY <1>1 DEF Built, Matched, Query
  <2>2. PICK ws \in Seq(Vocabulary) \ {<<>>} : Head(y.clause) = Native(ws) /\ Head(y.clause)[2] = ws
    BY <1>1, <2>1, HeadTailProperties, KindIsNative
  <2>3. Head(y.clause) # Param /\ Written(Head(y.clause)) = Words(ws) /\ Words(ws) \in Seq(Pieces)
    BY <2>2, NativePart, WordPieces
  <2>4. PICK U \in Seq(Pieces) : V = Words(ws) \o U /\ Built(rest, U)
    <3> HIDE DEF rest
    <3>1. \E U \in Seq(Pieces) : V = Written(Head(y.clause)) \o U /\ Built(rest, U)
      BY <2>1, <2>3, BuiltTail DEF rest
    <3>2. QED BY <2>3, <3>1
  <2>5. Built(AppendNative(x, ws), W \o Words(ws))
    BY BuiltNative
  <2>6. Built(Plus(AppendNative(x, ws), rest), (W \o Words(ws)) \o U)
    BY <2>4, <2>5, BuiltPlus
  <2>7. (W \o Words(ws)) \o U = W \o V
    BY <2>1, <2>3, <2>4, AssocPieces
  <2>8. Glued(x, y) = Plus(AppendNative(x, ws), rest)
    BY <1>1, <2>2 DEF Glued
  <2>9. QED BY <2>6, <2>7, <2>8
<1>2. CASE ~native
  <2>1. Glued(x, y) = Plus(x, y)
    BY <1>2 DEF Glued
  <2>2. QED BY <2>1, BuiltPlus
<1>3. QED BY <1>1, <1>2

\* Text of one word
LEMMA OneWord ==
  ASSUME NEW w \in Vocabulary
  PROVE  <<w>> \in Seq(Vocabulary) \ {<<>>} /\ Words(<<w>>) = <<Word(w)>>
<1>1. <<w>> \in Seq(Vocabulary) /\ Len(<<w>>) = 1 /\ <<w>>[1] = w /\ <<w>> # <<>>
  OBVIOUS
<1>2. QED BY <1>1 DEF Words

\* One word is added.
LEMMA BuiltWord ==
  ASSUME NEW x, NEW W, Built(x, W), NEW w \in Vocabulary
  PROVE  Built(AppendNative(x, <<w>>), W \o <<Word(w)>>)
BY OneWord, BuiltNative

------------------------------------------------------------------------------
\* The operators of query_base and query_column.

\* Parentheses and the words between them.
Opening == Words(<<"(">>)
Closing == Words(<<")">>)
Joint(word) == Words(<<")", word, "(">>)
InParentheses(W, joint, V) == (((Opening \o W) \o joint) \o V) \o Closing

\* The words that the library writes
LEMMA SqlWordsAre ==
  /\ \A w \in SqlWords : w \in Vocabulary
  /\ \A w \in Comparisons : w \in SqlWords
  /\ {"(", ")", ",", "IN", "LIKE", "ESCAPE", "NOT", "AND", "OR", "IS NULL", "IS NOT NULL",
      "ORDER BY", "WHERE", "1 = 1", "1 = 0"} \subseteq SqlWords
BY DEF Vocabulary, SqlWords

\* The words between two conditions
LEMMA JointWords ==
  ASSUME NEW w \in {"AND", "OR"}
  PROVE  <<")", w, "(">> \in Seq(Vocabulary) \ {<<>>}
<1>1. {"(", ")", w} \subseteq Vocabulary
  BY SqlWordsAre
<1>2. QED BY <1>1

\* Two conditions in parentheses, with AND or OR between
LEMMA BuiltJoined ==
  ASSUME NEW x, NEW W, Built(x, W), NEW y, NEW V, Built(y, V), NEW w \in {"AND", "OR"}
  PROVE  Built(Joined(x, <<")", w, "(">>, y), InParentheses(W, Joint(w), V))
<1> DEFINE ws == <<")", w, "(">>
<1>1. <<"(">> \in Seq(Vocabulary) \ {<<>>} /\ <<")">> \in Seq(Vocabulary) \ {<<>>}
  BY SqlWordsAre, OneWord
<1>2. ws \in Seq(Vocabulary) \ {<<>>}
  BY JointWords
<1> HIDE DEF ws
<1>3. Built(Plus(Part(Native(<<"(">>)), x), Opening \o W)
  BY <1>1, NativePart, BuiltPlus DEF Opening
<1>4. Built(AppendNative(Plus(Part(Native(<<"(">>)), x), ws), (Opening \o W) \o Words(ws))
  BY <1>2, <1>3, BuiltNative
<1>5. Built(Plus(AppendNative(Plus(Part(Native(<<"(">>)), x), ws), y), ((Opening \o W) \o Words(ws)) \o V)
  BY <1>4, BuiltPlus
<1>6. Built(Joined(x, ws, y), (((Opening \o W) \o Words(ws)) \o V) \o Words(<<")">>))
  BY <1>1, <1>5, BuiltNative DEF Joined
<1>7. QED BY <1>6 DEF InParentheses, Closing, Joint, ws

\* The same pieces, put together by the translation.
LEMMA BuiltLogic ==
  ASSUME NEW x, NEW W, Built(x, W), NEW y, NEW V, Built(y, V), NEW w \in {"AND", "OR"}
  PROVE  Built(AppendNative(Glued(Part(Native(<<"(">>)), Glued(AppendNative(x, <<")", w, "(">>), y)), <<")">>),
               InParentheses(W, Joint(w), V))
<1> DEFINE ws == <<")", w, "(">>
<1>1. <<"(">> \in Seq(Vocabulary) \ {<<>>} /\ <<")">> \in Seq(Vocabulary) \ {<<>>}
  BY SqlWordsAre, OneWord
<1>2. ws \in Seq(Vocabulary) \ {<<>>}
  BY JointWords
<1> HIDE DEF ws
<1>3. Built(Glued(AppendNative(x, ws), y), (W \o Words(ws)) \o V)
  BY <1>2, BuiltNative, BuiltGlued
<1>4. Built(Glued(Part(Native(<<"(">>)), Glued(AppendNative(x, ws), y)), Opening \o ((W \o Words(ws)) \o V))
  BY <1>1, <1>3, NativePart, BuiltGlued DEF Opening
<1>5. Built(AppendNative(Glued(Part(Native(<<"(">>)), Glued(AppendNative(x, ws), y)), <<")">>),
            (Opening \o ((W \o Words(ws)) \o V)) \o Closing)
  BY <1>1, <1>4, BuiltNative DEF Closing
<1>6. Opening \o ((W \o Words(ws)) \o V) = ((Opening \o W) \o Words(ws)) \o V
  <2>1. W \in Seq(Pieces) /\ V \in Seq(Pieces)
    BY DEF Built
  <2>2. Opening \in Seq(Pieces) /\ Words(ws) \in Seq(Pieces)
    BY <1>1, <1>2, WordPieces DEF Opening
  <2>3. W \o Words(ws) \in Seq(Pieces)
    BY <2>1, <2>2, TextConcat
  <2>4. Opening \o ((W \o Words(ws)) \o V) = (Opening \o (W \o Words(ws))) \o V
    BY <2>1, <2>2, <2>3, AssocPieces, SMTT(40)
  <2>5. Opening \o (W \o Words(ws)) = (Opening \o W) \o Words(ws)
    BY <2>1, <2>2, AssocPieces
  <2>6. QED BY <2>4, <2>5
<1>7. QED BY <1>5, <1>6 DEF InParentheses, Joint, ws

Negation(W) == (Words(<<"NOT", "(">>) \o W) \o Closing

\* NOT and an opening parenthesis
LEMMA NotWords == <<"NOT", "(">> \in Seq(Vocabulary) \ {<<>>}
<1>1. {"NOT", "("} \subseteq Vocabulary
  BY SqlWordsAre
<1>2. QED BY <1>1

\* A condition in parentheses after NOT
LEMMA BuiltNegated ==
  ASSUME NEW x, NEW W, Built(x, W)
  PROVE  /\ Built(Negated(x), Negation(W))
         /\ Built(AppendNative(Glued(Part(Native(<<"NOT", "(">>)), x), <<")">>), Negation(W))
<1> DEFINE ws == <<"NOT", "(">>
<1>1. ws \in Seq(Vocabulary) \ {<<>>} /\ <<")">> \in Seq(Vocabulary) \ {<<>>}
  BY NotWords, SqlWordsAre, OneWord
<1> HIDE DEF ws
<1>2. Built(Part(Native(ws)), Words(ws))
  BY <1>1, NativePart
<1>3. Built(Plus(Part(Native(ws)), x), Words(ws) \o W) /\ Built(Glued(Part(Native(ws)), x), Words(ws) \o W)
  BY <1>2, BuiltPlus, BuiltGlued
<1>4. /\ Built(AppendNative(Plus(Part(Native(ws)), x), <<")">>), (Words(ws) \o W) \o Closing)
      /\ Built(AppendNative(Glued(Part(Native(ws)), x), <<")">>), (Words(ws) \o W) \o Closing)
  BY <1>1, <1>3, BuiltNative DEF Closing
<1>5. QED BY <1>4 DEF Negated, Negation, ws

\* Two pieces and three.
LEMMA TwoPieces ==
  ASSUME NEW a \in Pieces, NEW b \in Pieces
  PROVE  <<a>> \o <<b>> = <<a, b>> /\ <<a, b>> \in Seq(Pieces)
<1>1. /\ <<a>> \in Seq(Pieces) /\ <<b>> \in Seq(Pieces) /\ <<a, b>> \in Seq(Pieces)
      /\ Len(<<a>>) = 1 /\ Len(<<b>>) = 1 /\ Len(<<a, b>>) = 2
      /\ <<a>>[1] = a /\ <<b>>[1] = b /\ <<a, b>>[1] = a /\ <<a, b>>[2] = b
  OBVIOUS
<1>2. /\ <<a>> \o <<b>> \in Seq(Pieces) /\ Len(<<a>> \o <<b>>) = 2
      /\ \A i \in 1..2 : (<<a>> \o <<b>>)[i] = <<a, b>>[i]
  BY <1>1, ConcatProperties
<1>3. QED BY <1>1, <1>2, SeqEqual

\* Three pieces
LEMMA ThreePieces ==
  ASSUME NEW a \in Pieces, NEW b \in Pieces, NEW c \in Pieces
  PROVE  (<<a>> \o <<b>>) \o <<c>> = <<a, b, c>> /\ <<a, b, c>> \in Seq(Pieces)
<1>1. /\ <<c>> \in Seq(Pieces) /\ <<a, b>> \in Seq(Pieces) /\ <<a, b, c>> \in Seq(Pieces)
      /\ Len(<<c>>) = 1 /\ Len(<<a, b>>) = 2 /\ Len(<<a, b, c>>) = 3 /\ <<c>>[1] = c
      /\ <<a, b>>[1] = a /\ <<a, b>>[2] = b
      /\ <<a, b, c>>[1] = a /\ <<a, b, c>>[2] = b /\ <<a, b, c>>[3] = c
  OBVIOUS
<1>2. /\ <<a, b>> \o <<c>> \in Seq(Pieces) /\ Len(<<a, b>> \o <<c>>) = 3
      /\ \A i \in 1..3 : (<<a, b>> \o <<c>>)[i] = <<a, b, c>>[i]
  <2>1. /\ <<a, b>> \o <<c>> \in Seq(Pieces) /\ Len(<<a, b>> \o <<c>>) = Len(<<a, b>>) + Len(<<c>>)
        /\ \A i \in 1..(Len(<<a, b>>) + Len(<<c>>)) :
             (<<a, b>> \o <<c>>)[i] = IF i <= Len(<<a, b>>) THEN <<a, b>>[i] ELSE <<c>>[i - Len(<<a, b>>)]
    BY <1>1, ConcatProperties
  <2>2. QED BY <1>1, <2>1
<1>3. QED BY <1>1, <1>2, SeqEqual, TwoPieces, ZenonT(40)

\* Five pieces
LEMMA FivePieces ==
  ASSUME NEW a \in Pieces, NEW b \in Pieces, NEW c \in Pieces, NEW d \in Pieces, NEW e \in Pieces
  PROVE  (<<a, b, c>> \o <<d>>) \o <<e>> = <<a, b, c, d, e>> /\ <<a, b, c, d, e>> \in Seq(Pieces)
<1> DEFINE s == <<a, b, c>>
           t == <<d, e>>
           u == <<a, b, c, d, e>>
<1>1. /\ s \in Seq(Pieces) /\ t \in Seq(Pieces) /\ u \in Seq(Pieces)
      /\ Len(s) = 3 /\ Len(t) = 2 /\ Len(u) = 5
      /\ s[1] = a /\ s[2] = b /\ s[3] = c /\ t[1] = d /\ t[2] = e
      /\ u[1] = a /\ u[2] = b /\ u[3] = c /\ u[4] = d /\ u[5] = e
  OBVIOUS
<1>2. <<d>> \o <<e>> = t /\ <<d>> \in Seq(Pieces) /\ <<e>> \in Seq(Pieces)
  BY TwoPieces, SinglePiece
<1> HIDE DEF s, t, u
<1>3. (s \o <<d>>) \o <<e>> = s \o t
  <2>1. (s \o <<d>>) \o <<e>> = s \o (<<d>> \o <<e>>)
    BY <1>1, <1>2, AssocPieces
  <2>2. QED BY <1>2, <2>1
<1>4. /\ s \o t \in Seq(Pieces) /\ Len(s \o t) = 5
      /\ \A i \in 1..5 : (s \o t)[i] = u[i]
  <2>1. /\ s \o t \in Seq(Pieces) /\ Len(s \o t) = Len(s) + Len(t)
        /\ \A i \in 1..(Len(s) + Len(t)) : (s \o t)[i] = IF i <= Len(s) THEN s[i] ELSE t[i - Len(s)]
    BY <1>1, ConcatProperties
  <2>2. QED BY <1>1, <2>1
<1>5. s \o t = u
  BY <1>1, <1>4, SeqEqual
<1>6. QED BY <1>1, <1>3, <1>5 DEF s, u

\* Words, columns and parameters are pieces.
LEMMA PieceTypes ==
  /\ \A c \in Columns : Column(c) \in Pieces
  /\ \A p \in AllParams : Open(p) \in Pieces
  /\ \A w \in Vocabulary : Word(w) \in Pieces
  /\ \A w \in Comparisons : Word(w) \in Pieces
BY SqlWordsAre DEF Pieces

\* column op parameter
LEMMA BuiltCompared ==
  ASSUME NEW c \in Columns, NEW op \in Comparisons, NEW p \in AllParams
  PROVE  Built(Compared(Column(c), op, <<"param", p>>), <<Column(c), Word(op), Open(p)>>)
<1>1. op \in Vocabulary
  BY SqlWordsAre
<1>2. Built(AppendNative(Part(Column(c)), <<op>>), <<Column(c)>> \o <<Word(op)>>)
  BY <1>1, ColumnPart, BuiltWord
<1>3. Built(AppendParam(AppendNative(Part(Column(c)), <<op>>), p), (<<Column(c)>> \o <<Word(op)>>) \o <<Open(p)>>)
  BY <1>2, BuiltParam
<1>4. (<<Column(c)>> \o <<Word(op)>>) \o <<Open(p)>> = <<Column(c), Word(op), Open(p)>>
  BY PieceTypes, ThreePieces
<1>5. QED BY <1>3, <1>4 DEF Compared

\* column op column
LEMMA BuiltColumnsCompared ==
  ASSUME NEW c \in Columns, NEW op \in Comparisons, NEW d \in Columns
  PROVE  Built(ColumnsCompared(Column(c), op, Column(d)), <<Column(c), Word(op), Column(d)>>)
<1>1. op \in Vocabulary
  BY SqlWordsAre
<1>2. Built(AppendNative(Part(Column(c)), <<op>>), <<Column(c)>> \o <<Word(op)>>)
  BY <1>1, ColumnPart, BuiltWord
<1>3. Built(AppendColumn(AppendNative(Part(Column(c)), <<op>>), d), (<<Column(c)>> \o <<Word(op)>>) \o <<Column(d)>>)
  BY <1>2, BuiltColumn
<1>4. (<<Column(c)>> \o <<Word(op)>>) \o <<Column(d)>> = <<Column(c), Word(op), Column(d)>>
  BY PieceTypes, ThreePieces
<1>5. Column(d)[2] = d
  BY DEF Column
<1>6. QED BY <1>3, <1>4, <1>5 DEF ColumnsCompared

\* Comparisons turned around
LEMMA OtherWays ==
  ASSUME NEW op \in Comparisons
  PROVE  OtherWay[op] \in Comparisons
BY DEF OtherWay, Comparisons

\* A comparison, with the column first
LEMMA BuiltComparison ==
  ASSUME NEW c \in Columns, NEW op \in Comparisons
  PROVE  /\ \A p \in AllParams :
              /\ Built(Comparison(op, Column(c), <<"param", p>>), <<Column(c), Word(op), Open(p)>>)
              /\ Built(Comparison(op, <<"param", p>>, Column(c)),
                       <<Column(c), Word(OtherWay[op]), Open(p)>>)
         /\ \A d \in Columns : Built(Comparison(op, Column(c), Column(d)), <<Column(c), Word(op), Column(d)>>)
<1>1. IsColumn(Column(c)) /\ \A p : ~IsColumn(<<"param", p>>)
  BY DEF IsColumn, Column
<1>2. ASSUME NEW p \in AllParams
      PROVE  Built(Comparison(op, Column(c), <<"param", p>>), <<Column(c), Word(op), Open(p)>>)
  <2>1. Comparison(op, Column(c), <<"param", p>>) = Compared(Column(c), op, <<"param", p>>)
    BY <1>1 DEF Comparison, Comparisons, Equal, Unequal, Less, Greater, LessEqual, GreaterEqual
  <2>2. QED BY <2>1, BuiltCompared
<1>3. ASSUME NEW p \in AllParams
      PROVE  Built(Comparison(op, <<"param", p>>, Column(c)), <<Column(c), Word(OtherWay[op]), Open(p)>>)
  <2>1. Comparison(op, <<"param", p>>, Column(c)) = Compared(Column(c), OtherWay[op], <<"param", p>>)
    BY <1>1 DEF Comparison, Comparisons, OtherWay, Equal, Unequal, Less, Greater, LessEqual, GreaterEqual
  <2>2. QED BY <2>1, BuiltCompared, OtherWays
<1>4. ASSUME NEW d \in Columns
      PROVE  Built(Comparison(op, Column(c), Column(d)), <<Column(c), Word(op), Column(d)>>)
  <2>1. IsColumn(Column(d))
    BY DEF IsColumn, Column
  <2>2. Comparison(op, Column(c), Column(d)) = ColumnsCompared(Column(c), op, Column(d))
    BY <1>1, <2>1 DEF Comparison
  <2>3. QED BY <2>2, BuiltColumnsCompared
<1>5. QED BY <1>2, <1>3, <1>4

\* is_null() and is_not_null()
LEMMA BuiltNullTest ==
  ASSUME NEW c \in Columns, NEW w \in {"IS NULL", "IS NOT NULL"}
  PROVE  Built(AppendNative(Part(Column(c)), <<w>>), <<Column(c), Word(w)>>)
<1>1. w \in Vocabulary
  BY SqlWordsAre
<1>2. Built(AppendNative(Part(Column(c)), <<w>>), <<Column(c)>> \o <<Word(w)>>)
  BY <1>1, ColumnPart, BuiltWord
<1>3. QED BY <1>1, <1>2, PieceTypes, TwoPieces

\* like() with a pattern
LEMMA BuiltLike ==
  ASSUME NEW c \in Columns, NEW p \in AllParams
  PROVE  Built(LikePattern(Column(c), p), <<Column(c), Word("LIKE"), Open(p)>>)
<1>1. "LIKE" \in Vocabulary
  BY SqlWordsAre
<1>2. Built(AppendNative(Part(Column(c)), <<"LIKE">>), <<Column(c)>> \o <<Word("LIKE")>>)
  BY <1>1, ColumnPart, BuiltWord
<1>3. Built(LikePattern(Column(c), p), (<<Column(c)>> \o <<Word("LIKE")>>) \o <<Open(p)>>)
  BY <1>2, BuiltParam DEF LikePattern
<1>4. QED BY <1>1, <1>3, PieceTypes, ThreePieces

\* like() with an escape character
LEMMA BuiltEscape ==
  ASSUME NEW c \in Columns, NEW p \in AllParams, NEW e \in AllParams
  PROVE  Built(LikeEscape(Column(c), p, e),
               <<Column(c), Word("LIKE"), Open(p), Word("ESCAPE"), Open(e)>>)
<1>1. {"LIKE", "ESCAPE"} \subseteq Vocabulary
  BY SqlWordsAre
<1>2. Built(AppendNative(LikePattern(Column(c), p), <<"ESCAPE">>),
            <<Column(c), Word("LIKE"), Open(p)>> \o <<Word("ESCAPE")>>)
  BY <1>1, BuiltLike, BuiltWord
<1>3. Built(LikeEscape(Column(c), p, e),
            (<<Column(c), Word("LIKE"), Open(p)>> \o <<Word("ESCAPE")>>) \o <<Open(e)>>)
  BY <1>2, BuiltParam DEF LikeEscape
<1>4. /\ Column(c) \in Pieces /\ Word("LIKE") \in Pieces /\ Open(p) \in Pieces
      /\ Word("ESCAPE") \in Pieces /\ Open(e) \in Pieces
  BY <1>1, PieceTypes
<1>5. (<<Column(c), Word("LIKE"), Open(p)>> \o <<Word("ESCAPE")>>) \o <<Open(e)>>
        = <<Column(c), Word("LIKE"), Open(p), Word("ESCAPE"), Open(e)>>
  BY <1>4, FivePieces
<1>6. QED BY <1>3, <1>5

\* The values of an in(), after the column and up to the n-th.
IsInHead(W, c, ps, n) ==
  /\ Len(W) = 2 * n + 2
  /\ W[1] = Column(c) /\ W[2] = Word("IN") /\ W[3] = Word("(")
  /\ \A k \in 1..n : W[2 * k + 2] = Open(ps[k])
  /\ \A k \in 1..(n - 1) : W[2 * k + 3] = Word(",")

\* in() with its first value
LEMMA InFirst ==
  ASSUME NEW c \in Columns, NEW ps \in Seq(AllParams), ps # <<>>,
         NEW x, Built(x, <<Column(c)>>)
  PROVE  \E W : Built(AppendParam(AppendNative(x, <<"IN", "(">>), ps[1]), W) /\ IsInHead(W, c, ps, 1)
<1>1. {"IN", "("} \subseteq Vocabulary /\ ps[1] \in AllParams
  <2>1. {"IN", "("} \subseteq Vocabulary
    BY SqlWordsAre
  <2>2. 1 \in 1..Len(ps)
    BY EmptySeq
  <2>3. ps[1] \in AllParams
    BY <2>2, ElementOfSeq
  <2>4. QED BY <2>1, <2>3
<1>2. <<"IN", "(">> \in Seq(Vocabulary) \ {<<>>} /\ Words(<<"IN", "(">>) = <<Word("IN"), Word("(")>>
  <2>1. <<"IN", "(">> \in Seq(Vocabulary) /\ <<"IN", "(">> # <<>>
        /\ Len(<<"IN", "(">>) = 2 /\ <<"IN", "(">>[1] = "IN" /\ <<"IN", "(">>[2] = "("
    BY <1>1
  <2>2. QED BY <2>1 DEF Words
<1>3. Built(AppendNative(x, <<"IN", "(">>), <<Column(c)>> \o Words(<<"IN", "(">>))
  BY <1>2, BuiltNative
<1>4. <<Column(c)>> \o Words(<<"IN", "(">>) = <<Column(c), Word("IN"), Word("(")>>
  <2>1. Column(c) \in Pieces /\ Word("IN") \in Pieces /\ Word("(") \in Pieces
    BY <1>1, PieceTypes
  <2>2. Words(<<"IN", "(">>) = <<Word("IN")>> \o <<Word("(")>>
    BY <1>2, <2>1, TwoPieces
  <2>3. <<Column(c)>> \o (<<Word("IN")>> \o <<Word("(")>>) = (<<Column(c)>> \o <<Word("IN")>>) \o <<Word("(")>>
    BY <2>1, SinglePiece, AssocPieces
  <2>4. QED BY <2>1, <2>2, <2>3, ThreePieces
<1> DEFINE V == <<Column(c), Word("IN"), Word("(")>>
<1>5. /\ V \in Seq(Pieces) /\ Len(V) = 3
      /\ V[1] = Column(c) /\ V[2] = Word("IN") /\ V[3] = Word("(")
  BY <1>1, PieceTypes, ThreePieces
<1>6. Built(AppendNative(x, <<"IN", "(">>), V)
  BY <1>3, <1>4
<1> HIDE DEF V
<1>7. Built(AppendParam(AppendNative(x, <<"IN", "(">>), ps[1]), V \o <<Open(ps[1])>>)
  BY <1>1, <1>6, BuiltParam
<1>8. IsInHead(V \o <<Open(ps[1])>>, c, ps, 1)
  <2>1. PICK o \in Pieces : o = Open(ps[1])
    BY <1>1, PieceTypes
  <2>2. <<o>> \in Seq(Pieces) /\ Len(<<o>>) = 1 /\ <<o>>[1] = o
    BY SinglePiece
  <2>3. /\ Len(V \o <<o>>) = Len(V) + Len(<<o>>)
        /\ \A i \in 1..(Len(V) + Len(<<o>>)) : (V \o <<o>>)[i] = IF i <= Len(V) THEN V[i] ELSE <<o>>[i - Len(V)]
    BY <1>5, <2>2, ConcatProperties
  <2>4. QED BY <1>5, <2>1, <2>2, <2>3 DEF IsInHead
<1>9. QED BY <1>7, <1>8

\* ... with one more
LEMMA InNext ==
  ASSUME NEW c \in Columns, NEW ps \in Seq(AllParams), NEW n \in Nat, NEW m \in 1..Len(ps), m = n + 1,
         NEW x, NEW W, Built(x, W), IsInHead(W, c, ps, n), n # 0
  PROVE  \E V : Built(AppendParam(AppendNative(x, <<",">>), ps[m]), V) /\ IsInHead(V, c, ps, m)
<1>1. "," \in Vocabulary /\ ps[m] \in AllParams
  <2>1. "," \in Vocabulary
    BY SqlWordsAre
  <2>2. ps[m] \in AllParams
    BY ElementOfSeq
  <2>3. QED BY <2>1, <2>2
<1>2. PICK a \in Pieces, o \in Pieces : a = Word(",") /\ o = Open(ps[m])
  BY <1>1, PieceTypes
<1>3. Built(AppendParam(AppendNative(x, <<",">>), ps[m]), (W \o <<a>>) \o <<o>>)
  BY <1>1, <1>2, BuiltWord, BuiltParam
<1>4. W \in Seq(Pieces) /\ <<a>> \in Seq(Pieces) /\ <<o>> \in Seq(Pieces) /\ <<a>> \o <<o>> = <<a, o>>
      /\ <<a, o>> \in Seq(Pieces)
  BY SinglePiece, TwoPieces DEF Built
<1>5. (W \o <<a>>) \o <<o>> = W \o <<a, o>>
  <2>1. (W \o <<a>>) \o <<o>> = W \o (<<a>> \o <<o>>)
    BY <1>4, AssocPieces
  <2>2. QED BY <1>4, <2>1
<1>6. PICK V : V = W \o <<a, o>>
  OBVIOUS
<1>7. /\ Len(V) = Len(W) + 2 /\ Len(W) = 2 * n + 2
      /\ \A i \in 1..(Len(W) + 2) : V[i] = IF i <= Len(W) THEN W[i] ELSE <<a, o>>[i - Len(W)]
  <2>1. Len(<<a, o>>) = 2 /\ Len(W) = 2 * n + 2
    BY DEF IsInHead
  <2>2. /\ Len(V) = Len(W) + Len(<<a, o>>)
        /\ \A i \in 1..(Len(W) + Len(<<a, o>>)) : V[i] = IF i <= Len(W) THEN W[i] ELSE <<a, o>>[i - Len(W)]
    BY <1>4, <1>6, ConcatProperties
  <2>3. QED BY <2>1, <2>2
<1>8. /\ \A i \in 1..(2 * n + 2) : V[i] = W[i]
      /\ V[2 * n + 3] = a /\ V[2 * n + 4] = o
  <2>1. <<a, o>>[1] = a /\ <<a, o>>[2] = o
    OBVIOUS
  <2>2. QED BY <1>7, <2>1
<1>9. IsInHead(V, c, ps, m)
  <2>1. Len(V) = 2 * m + 2
    BY <1>7
  <2>2. V[1] = Column(c) /\ V[2] = Word("IN") /\ V[3] = Word("(")
    <3>1. 1 \in 1..(2 * n + 2) /\ 2 \in 1..(2 * n + 2) /\ 3 \in 1..(2 * n + 2)
      OBVIOUS
    <3>2. W[1] = Column(c) /\ W[2] = Word("IN") /\ W[3] = Word("(")
      BY DEF IsInHead
    <3>3. QED BY <1>8, <3>1, <3>2
  <2>3. ASSUME NEW k \in 1..m PROVE V[2 * k + 2] = Open(ps[k])
    <3>1. CASE k = m
      <4>1. 2 * k + 2 = 2 * n + 4
        BY <3>1
      <4>2. QED BY <1>2, <1>8, <3>1, <4>1
    <3>2. CASE k # m
      <4>1. k \in 1..n /\ 2 * k + 2 \in 1..(2 * n + 2)
        BY <3>2
      <4>2. W[2 * k + 2] = Open(ps[k])
        BY <4>1 DEF IsInHead
      <4>3. QED BY <1>8, <4>1, <4>2
    <3>3. QED BY <3>1, <3>2
  <2>4. ASSUME NEW k \in 1..(m - 1) PROVE V[2 * k + 3] = Word(",")
    <3>1. CASE k = n
      BY <1>2, <1>8, <3>1
    <3>2. CASE k # n
      <4>1. k \in 1..(n - 1) /\ 2 * k + 3 \in 1..(2 * n + 2)
        BY <3>2
      <4>2. W[2 * k + 3] = Word(",")
        BY <4>1 DEF IsInHead
      <4>3. QED BY <1>8, <4>1, <4>2
    <3>3. QED BY <3>1, <3>2
  <2>5. QED BY <2>1, <2>2, <2>3, <2>4 DEF IsInHead
<1>10. QED BY <1>3, <1>5, <1>6, <1>9

IsInPieces(W, c, ps) ==
  \E V \in Seq(Pieces) : IsInHead(V, c, ps, Len(ps)) /\ W = V \o <<Word(")")>>

\* ... with its closing parenthesis.
LEMMA InLast ==
  ASSUME NEW c, NEW ps, NEW x, NEW V, Built(x, V), IsInHead(V, c, ps, Len(ps))
  PROVE  \E W : Built(AppendNative(x, <<")">>), W) /\ IsInPieces(W, c, ps)
<1>1. ")" \in Vocabulary
  BY SqlWordsAre
<1>2. Built(AppendNative(x, <<")">>), V \o <<Word(")")>>)
  BY <1>1, BuiltWord
<1>3. V \in Seq(Pieces)
  BY DEF Built
<1>4. IsInPieces(V \o <<Word(")")>>, c, ps)
  BY <1>3 DEF IsInPieces
<1>5. QED BY <1>2, <1>4

\* The queries that in() makes one after the other
InListIs(f, n, c, ps) ==
  f = [i \in 1..n |->
         IF i = 1 THEN AppendParam(AppendNative(Part(c), <<"IN", "(">>), ps[1])
         ELSE AppendParam(AppendNative(f[i - 1], <<",">>), ps[i])]

\* There are such queries,
LEMMA InListExists ==
  ASSUME NEW c \in Columns, NEW ps \in Seq(AllParams), NEW m \in 0..Len(ps)
  PROVE  \E f : /\ InListIs(f, m, Column(c), ps)
                /\ m # 0 => \E W : Built(f[m], W) /\ IsInHead(W, c, ps, m)
<1> DEFINE Fine(f, n) == /\ InListIs(f, n, Column(c), ps)
                         /\ n # 0 => \E W : Built(f[n], W) /\ IsInHead(W, c, ps, n)
           T == {n \in 0..Len(ps) : ~(\E f : Fine(f, n))}
<1>1. SUFFICES ASSUME T # {} PROVE FALSE
  OBVIOUS
<1>2. PICK n \in T : \A y \in T : n <= y
  <2>1. T \in SUBSET Nat
    OBVIOUS
  <2>2. QED BY <1>1, <2>1, Least
<1>3. n # 0
  <2> DEFINE f == [i \in 1..0 |-> <<>>]
  <2>1. InListIs(f, 0, Column(c), ps)
    <3>1. 1..0 = {}
      OBVIOUS
    <3>2. QED BY <3>1 DEF InListIs
  <2>2. Fine(f, 0)
    BY <2>1
  <2>3. QED BY <2>2
<1>4. PICK k \in Nat : n = k + 1 /\ k \in 0..Len(ps) /\ n \in 1..Len(ps) /\ k \notin T
  <2>1. n - 1 \in Nat /\ n = (n - 1) + 1 /\ n - 1 \in 0..Len(ps) /\ n \in 1..Len(ps) /\ n - 1 \notin T
    BY <1>2, <1>3
  <2>2. QED BY <2>1
<1>5. PICK g : Fine(g, k)
  BY <1>4
<1> DEFINE new == IF n = 1 THEN AppendParam(AppendNative(Part(Column(c)), <<"IN", "(">>), ps[1])
                  ELSE AppendParam(AppendNative(g[k], <<",">>), ps[n])
           f == [i \in 1..n |-> IF i < n THEN g[i] ELSE new]
<1>6. \E W : Built(new, W) /\ IsInHead(W, c, ps, n)
  <2>1. CASE n = 1
    <3>1. Built(Part(Column(c)), <<Column(c)>>) /\ ps # <<>>
      BY <1>4, ColumnPart, EmptySeq
    <3>2. QED BY <2>1, <3>1, InFirst
  <2>2. CASE n # 1
    <3>1. k # 0
      BY <1>4, <2>2
    <3>2. PICK W : Built(g[k], W) /\ IsInHead(W, c, ps, k)
      BY <1>5, <3>1
    <3>3. QED BY <1>4, <2>2, <3>1, <3>2, InNext
  <2>3. QED BY <2>1, <2>2
<1> HIDE DEF new
<1>7. DOMAIN f = 1..n /\ f = [i \in 1..n |-> f[i]] /\ f[n] = new /\ \A i \in 1..k : f[i] = g[i]
  <2>1. n \in 1..n /\ \A i \in 1..k : i \in 1..n /\ i < n
    BY <1>4
  <2>2. QED BY <2>1
<1> USE DEF new
<1>8. new = IF n = 1 THEN AppendParam(AppendNative(Part(Column(c)), <<"IN", "(">>), ps[1])
            ELSE AppendParam(AppendNative(f[n - 1], <<",">>), ps[n])
  <2>1. n # 1 => k \in 1..k /\ n - 1 = k
    BY <1>4
  <2>2. n # 1 => f[n - 1] = g[k]
    BY <1>7, <2>1
  <2> HIDE DEF f
  <2>3. QED BY <2>2
<1> HIDE DEF f, new
<1>9. \A i \in 1..k : g[i] = IF i = 1 THEN AppendParam(AppendNative(Part(Column(c)), <<"IN", "(">>), ps[1])
                             ELSE AppendParam(AppendNative(g[i - 1], <<",">>), ps[i])
  BY <1>5 DEF InListIs
<1>10. ASSUME NEW i \in 1..n
       PROVE  f[i] = IF i = 1 THEN AppendParam(AppendNative(Part(Column(c)), <<"IN", "(">>), ps[1])
                     ELSE AppendParam(AppendNative(f[i - 1], <<",">>), ps[i])
  <2>1. CASE i = n
    BY <1>7, <1>8, <2>1
  <2>2. CASE i # n
    <3>1. i \in 1..k /\ (i # 1 => i - 1 \in 1..k)
      BY <1>4, <2>2
    <3>2. QED BY <1>7, <1>9, <3>1
  <2>3. QED BY <2>1, <2>2
<1>11. InListIs(f, n, Column(c), ps)
  BY <1>7, <1>10 DEF InListIs
<1>12. Fine(f, n)
  BY <1>6, <1>7, <1>11
<1>13. QED BY <1>2, <1>12

\* and they are the only ones.
LEMMA InListSame ==
  ASSUME NEW n \in Nat, NEW c, NEW ps, NEW f, NEW g, InListIs(f, n, c, ps), InListIs(g, n, c, ps), NEW k \in 1..n
  PROVE  f[k] = g[k]
<1> DEFINE T == {i \in 1..n : f[i] # g[i]}
<1>1. SUFFICES ASSUME T # {} PROVE FALSE
  OBVIOUS
<1>2. T \in SUBSET Nat
  OBVIOUS
<1>3. PICK i \in T : \A y \in T : i <= y
  BY <1>1, <1>2, Least
<1>4. i \in 1..n
  OBVIOUS
<1>5. f[i] = IF i = 1 THEN AppendParam(AppendNative(Part(c), <<"IN", "(">>), ps[1])
             ELSE AppendParam(AppendNative(f[i - 1], <<",">>), ps[i])
  BY <1>4 DEF InListIs
<1>6. g[i] = IF i = 1 THEN AppendParam(AppendNative(Part(c), <<"IN", "(">>), ps[1])
             ELSE AppendParam(AppendNative(g[i - 1], <<",">>), ps[i])
  BY <1>4 DEF InListIs
<1>7. i # 1 => f[i - 1] = g[i - 1]
  BY <1>3, <1>4
<1>8. QED BY <1>3, <1>4, <1>5, <1>6, <1>7

\* in() with values, and with none
LEMMA BuiltIn ==
  ASSUME NEW c \in Columns, NEW ps \in Seq(AllParams)
  PROVE  IF ps = <<>> THEN Built(In(Column(c), ps), <<Word("1 = 0")>>)
         ELSE \E W : Built(In(Column(c), ps), W) /\ IsInPieces(W, c, ps)
<1>1. CASE ps = <<>>
  <2>1. Built(Part(Bool(FALSE)), <<Word("1 = 0")>>)
    BY BoolPart
  <2>2. QED BY <1>1, <2>1 DEF In
<1>2. CASE ps # <<>>
  <2>1. PICK n \in Nat : n = Len(ps) /\ n # 0 /\ DOMAIN ps = 1..n
    BY <1>2, EmptySeq
  <2> DEFINE Step(l) == [i \in DOMAIN ps |->
               IF i = 1 THEN AppendParam(AppendNative(Part(Column(c)), <<"IN", "(">>), ps[1])
               ELSE AppendParam(AppendNative(l[i - 1], <<",">>), ps[i])]
             list == CHOOSE l : l = Step(l)
  <2>2. PICK f : InListIs(f, n, Column(c), ps) /\ \E W : Built(f[n], W) /\ IsInHead(W, c, ps, n)
    BY <2>1, InListExists
  <2>3. f = Step(f)
    BY <2>1, <2>2 DEF InListIs
  <2>4. list = Step(list)
    <3> HIDE DEF Step
    <3>1. QED BY <2>3
  <2>5. In(Column(c), ps) = AppendNative(list[Len(ps)], <<")">>)
    BY <1>2 DEF In
  <2> HIDE DEF list
  <2>6. InListIs(list, n, Column(c), ps)
    BY <2>1, <2>4 DEF InListIs
  <2>7. list[n] = f[n]
    <3>1. n \in 1..n
      BY <2>1
    <3>2. QED BY <2>2, <2>6, <3>1, InListSame
  <2>8. QED BY <1>2, <2>1, <2>2, <2>5, <2>7, InLast
<1>3. QED BY <1>1, <1>2

------------------------------------------------------------------------------
\* The common query, and what translate() makes of it.

Leaves == {"column", "param", "native", "true", "false"}
Postfix == {"op_not", "IS NULL", "IS NOT NULL"}
Ops == Leaves \cup Binary \cup Postfix \cup {"op_in", "op_like", "op_like_escape"}
Info == {<<"param", p>> : p \in AllParams} \cup {Column(c) : c \in Columns} \cup Seq(Vocabulary)
CommonParts == [op : Ops, data : Nat, info : Info]

\* The parts that the part x at place p is made of are before it.
Refers(x, p) ==
  /\ x.op \in Binary => x.data \in 1..(p - 1)
  /\ x.op \in Postfix => p > 1
  /\ x.op = "op_in" => x.data + 1 < p
  /\ x.op = "op_like" => p > 2
  /\ x.op = "op_like_escape" => p > 3
\* A common query
WellFormed(s) == s \in Seq(CommonParts) /\ \A p \in 1..Len(s) : Refers(s[p], p)

Shifted(x, n) == IF x.op \in Binary THEN [x EXCEPT !.data = @ + n] ELSE x
\* s is in L, from place n + 1, with its references moved.
Placed(L, n, s) == n + Len(s) <= Len(L) /\ \A i \in 1..Len(s) : L[n + i] = Shifted(s[i], n)

\* What is appended for the first n parts.
MadeIs(L, n, f) == f = [p \in 1..n |-> Translate(L, p, f)]

\* It depends on what is appended for the parts before.
LEMMA Depends ==
  ASSUME NEW L, NEW p \in Nat, Refers(L[p], p), L[p].op \in Ops, L[p].data \in Nat,
         NEW f, NEW g, \A k \in 1..(p - 1) : f[k] = g[k]
  PROVE  Translate(L, p, f) = Translate(L, p, g)
<1> DEFINE x == L[p]
<1>1. CASE x.op \in Leaves
  BY <1>1 DEF Translate, Leaves, Binary, Comparisons
<1>2. CASE x.op \in Binary
  <2>1. x.data \in 1..(p - 1) /\ p - 1 \in 1..(p - 1)
    <3>1. x.data \in 1..(p - 1)
      BY <1>2, Zenon DEF Refers
    <3>2. QED BY <3>1
  <2>2. f[x.data] = g[x.data] /\ f[p - 1] = g[p - 1]
    BY <2>1
  <2>3. QED BY <1>2, <2>2 DEF Translate, TranslateLogic, BothSides, Binary, Comparisons
<1>3. CASE x.op \in Postfix
  <2>1. p - 1 \in 1..(p - 1)
    <3>1. p > 1
      BY <1>3, Zenon DEF Refers
    <3>2. QED BY <3>1
  <2>2. f[p - 1] = g[p - 1]
    BY <2>1
  <2>3. QED BY <1>3, <2>2 DEF Translate, Comparisons, Postfix
<1>4. CASE x.op = "op_in"
  <2>1. PICK first \in Nat : first = p - x.data /\ first - 1 \in 1..(p - 1) /\ first <= p
    BY <1>4 DEF Refers
  <2>2. f[first - 1] = g[first - 1] /\ \A i \in first..(p - 1) : f[i] = g[i]
    BY <2>1
  <2> DEFINE S(made, l) == [i \in first..(p - 1) |->
               IF i = first THEN Glued(AppendNative(made[first - 1], <<"IN", "(">>), made[i])
               ELSE Glued(AppendNative(l[i - 1], <<",">>), made[i])]
  <2>3. \A l : S(f, l) = S(g, l)
    BY <2>2
  <2>4. \A made : TranslateIn(L, p, made) =
          IF x.data = 0 THEN Part(Bool(FALSE))
          ELSE AppendNative((CHOOSE l : l = S(made, l))[p - 1], <<")">>)
    BY <2>1 DEF TranslateIn
  <2> HIDE DEF S
  <2>5. (CHOOSE l : l = S(f, l)) = (CHOOSE l : l = S(g, l))
    BY <2>3, Zenon
  <2>6. TranslateIn(L, p, f) = TranslateIn(L, p, g)
    BY <2>4, <2>5
  <2>7. QED BY <1>4, <2>6 DEF Translate, Comparisons
<1>5. CASE x.op = "op_like"
  <2>1. p - 1 \in 1..(p - 1) /\ p - 2 \in 1..(p - 1)
    BY <1>5 DEF Refers
  <2>2. f[p - 1] = g[p - 1] /\ f[p - 2] = g[p - 2]
    BY <2>1
  <2>3. QED BY <1>5, <2>2 DEF Translate, Comparisons
<1>6. CASE x.op = "op_like_escape"
  <2>1. p - 1 \in 1..(p - 1) /\ p - 2 \in 1..(p - 1) /\ p - 3 \in 1..(p - 1)
    BY <1>6 DEF Refers
  <2>2. f[p - 1] = g[p - 1] /\ f[p - 2] = g[p - 2] /\ f[p - 3] = g[p - 3]
    BY <2>1
  <2>3. QED BY <1>6, <2>2 DEF Translate, Comparisons
<1>7. QED BY <1>1, <1>2, <1>3, <1>4, <1>5, <1>6 DEF Ops

\* There is such a function.
LEMMA MadeExists ==
  ASSUME NEW L, WellFormed(L), NEW m \in 0..Len(L)
  PROVE  \E f : MadeIs(L, m, f)
<1> DEFINE T == {n \in 0..Len(L) : ~(\E f : MadeIs(L, n, f))}
<1>1. SUFFICES ASSUME T # {} PROVE FALSE
  OBVIOUS
<1>2. L \in Seq(CommonParts) /\ Len(L) \in Nat /\ \A p \in 1..Len(L) : L[p] \in CommonParts /\ Refers(L[p], p)
  BY DEF WellFormed
<1>3. PICK n \in T : \A y \in T : n <= y
  <2>1. T \in SUBSET Nat
    BY <1>2
  <2>2. QED BY <1>1, <2>1, Least
<1>4. n # 0
  <2> DEFINE f == [i \in 1..0 |-> <<>>]
  <2>1. 1..0 = {}
    OBVIOUS
  <2>2. MadeIs(L, 0, f)
    BY <2>1 DEF MadeIs
  <2>3. QED BY <2>2
<1>5. PICK k \in Nat : n = k + 1 /\ n \in 1..Len(L) /\ k \in 0..Len(L) /\ k \notin T
  <2>1. n - 1 \in Nat /\ n = (n - 1) + 1 /\ n - 1 \in 0..Len(L) /\ n \in 1..Len(L) /\ n - 1 \notin T
    BY <1>2, <1>3, <1>4
  <2>2. QED BY <2>1
<1>6. PICK g : MadeIs(L, k, g)
  BY <1>5
<1> DEFINE f == [p \in 1..n |-> Translate(L, p, g)]
<1>7. DOMAIN f = 1..n /\ f = [p \in 1..n |-> f[p]] /\ \A p \in 1..n : f[p] = Translate(L, p, g)
  OBVIOUS
<1> HIDE DEF f
<1>8. \A p \in 1..k : f[p] = g[p]
  <2>1. \A p \in 1..k : g[p] = Translate(L, p, g)
    BY <1>6 DEF MadeIs
  <2>2. QED BY <1>5, <1>7, <2>1
<1>9. ASSUME NEW p \in 1..n PROVE f[p] = Translate(L, p, f)
  <2>1. p \in Nat /\ p \in 1..Len(L) /\ \A i \in 1..(p - 1) : i \in 1..k
    BY <1>2, <1>5
  <2>2. Refers(L[p], p) /\ L[p].op \in Ops /\ L[p].data \in Nat
    BY <1>2, <2>1 DEF CommonParts
  <2>3. Translate(L, p, f) = Translate(L, p, g)
    BY <1>8, <2>1, <2>2, Depends
  <2>4. QED BY <1>7, <2>3
<1>10. MadeIs(L, n, f)
  BY <1>7, <1>9 DEF MadeIs
<1>11. QED BY <1>3, <1>10

\* Wherever s is part of a list, q is appended for it.
Makes(s, q) ==
  /\ WellFormed(s) /\ s # <<>>
  /\ \A L, f : \A n \in Nat :
       L \in Seq(CommonParts) /\ MadeIs(L, Len(L), f) /\ Placed(L, n, s) => f[n + Len(s)] = q

\* The translation of a common query that makes q is q.
LEMMA MakesTranslated ==
  ASSUME NEW s, NEW q, Makes(s, q)
  PROVE  Translated(s) = q
<1>1. WellFormed(s) /\ s # <<>> /\ s \in Seq(CommonParts)
  BY DEF Makes, WellFormed
<1>2. PICK n \in Nat : n = Len(s) /\ DOMAIN s = 1..n /\ n # 0
  BY <1>1, EmptySeq
<1> DEFINE S(f) == [p \in DOMAIN s |-> Translate(s, p, f)]
           made == CHOOSE f : f = S(f)
<1>3. \E f : f = S(f)
  <2>1. n \in 0..Len(s)
    BY <1>2
  <2>2. PICK f : MadeIs(s, n, f)
    BY <1>1, <2>1, MadeExists
  <2>3. f = S(f)
    BY <1>2, <2>2 DEF MadeIs
  <2> HIDE DEF S
  <2>4. QED BY <2>3
<1>4. made = S(made)
  <2> HIDE DEF S
  <2>1. QED BY <1>3, Zenon
<1>5. Translated(s) = made[n]
  BY <1>1, <1>2 DEF Translated
<1> HIDE DEF made
<1>6. MadeIs(s, Len(s), made)
  BY <1>2, <1>4 DEF MadeIs
<1>7. Placed(s, 0, s)
  <2>1. ASSUME NEW i \in 1..Len(s) PROVE s[0 + i] = Shifted(s[i], 0)
    <3>1. s[i] \in CommonParts /\ 0 + i = i
      BY <1>1
    <3>2. Shifted(s[i], 0) = s[i]
      BY <3>1 DEF Shifted, CommonParts
    <3>3. QED BY <3>1, <3>2
  <2>2. QED BY <1>2, <2>1 DEF Placed
<1>8. made[0 + n] = q
  BY <1>1, <1>2, <1>6, <1>7 DEF Makes
<1>9. QED BY <1>2, <1>5, <1>8

\* What is appended for a part.
LEMMA MadeAt ==
  ASSUME NEW L \in Seq(CommonParts), NEW f, MadeIs(L, Len(L), f), NEW p \in 1..Len(L)
  PROVE  f[p] = Translate(L, p, f)
BY DEF MadeIs

\* A leaf makes the same wherever it is.
LEMMA LeafMakes ==
  ASSUME NEW x \in CommonParts, x.op \in Leaves, NEW q,
         \A L, p, f : L[p] = x => Translate(L, p, f) = q
  PROVE  Makes(<<x>>, q)
<1>1. <<x>> \in Seq(CommonParts) /\ Len(<<x>>) = 1 /\ <<x>>[1] = x /\ <<x>> # <<>>
  OBVIOUS
<1>2. WellFormed(<<x>>)
  <2>1. Refers(x, 1)
    BY DEF Refers, Leaves, Binary, Comparisons, Postfix
  <2>2. QED BY <1>1, <2>1 DEF WellFormed
<1>3. ASSUME NEW L, NEW f, NEW n \in Nat, L \in Seq(CommonParts), MadeIs(L, Len(L), f), Placed(L, n, <<x>>)
      PROVE  f[n + 1] = q
  <2>1. n + 1 \in 1..Len(L) /\ L[n + 1] = Shifted(x, n)
    BY <1>1, <1>3 DEF Placed
  <2>2. Shifted(x, n) = x
    BY DEF Shifted, Leaves, Binary, Comparisons
  <2>3. f[n + 1] = Translate(L, n + 1, f)
    BY <1>3, <2>1, MadeAt
  <2>4. QED BY <2>1, <2>2, <2>3
<1>4. QED BY <1>1, <1>2, <1>3 DEF Makes

\* A column
LEMMA ColumnMakes ==
  ASSUME NEW c \in Columns
  PROVE  Makes(CommonColumn(Column(c)), Part(Column(c)))
<1> DEFINE x == CommonPart("column", 0, Column(c))
<1>1. x \in CommonParts /\ x.op = "column" /\ x.info = Column(c) /\ Column(c)[2] = c
  BY DEF CommonPart, CommonParts, Ops, Leaves, Info, Column
<1>2. AppendColumn(None, c) = Part(Column(c))
  BY DEF AppendColumn, None, Part
<1>3. ASSUME NEW L, NEW p, NEW f, L[p] = x PROVE Translate(L, p, f) = Part(Column(c))
  <2> HIDE DEF x
  <2>1. QED BY <1>1, <1>2, <1>3 DEF Translate, Comparisons
<1>4. CommonColumn(Column(c)) = <<x>>
  BY DEF CommonColumn, Leaf
<1> HIDE DEF x
<1>5. QED BY <1>1, <1>3, <1>4, LeafMakes DEF Leaves

\* A parameter
LEMMA ParamMakes ==
  ASSUME NEW p \in AllParams
  PROVE  Makes(CommonParam(p), AppendParam(None, p))
<1> DEFINE x == CommonPart("param", 0, <<"param", p>>)
<1>1. x \in CommonParts /\ x.op = "param" /\ x.info[2] = p
  BY DEF CommonPart, CommonParts, Ops, Leaves, Info
<1>2. ASSUME NEW L, NEW k, NEW f, L[k] = x PROVE Translate(L, k, f) = AppendParam(None, p)
  <2> HIDE DEF x
  <2>1. QED BY <1>1, <1>2 DEF Translate, Comparisons, Made
<1>3. CommonParam(p) = <<x>>
  BY DEF CommonParam, Leaf
<1> HIDE DEF x
<1>4. QED BY <1>1, <1>2, <1>3, LeafMakes DEF Leaves

\* Native text
LEMMA NativeMakes ==
  ASSUME NEW ws \in Seq(Vocabulary) \ {<<>>}
  PROVE  Makes(Leaf("native", ws), Part(Native(ws)))
<1> DEFINE x == CommonPart("native", 0, ws)
<1>1. x \in CommonParts /\ x.op = "native" /\ x.info = ws
  BY DEF CommonPart, CommonParts, Ops, Leaves, Info
<1>2. AppendNative(None, ws) = Part(Native(ws))
  BY DEF AppendNative, None, Part
<1>3. ASSUME NEW L, NEW p, NEW f, L[p] = x PROVE Translate(L, p, f) = Part(Native(ws))
  <2> HIDE DEF x
  <2>1. QED BY <1>1, <1>2, <1>3 DEF Translate, Comparisons
<1>4. Leaf("native", ws) = <<x>>
  BY DEF Leaf
<1> HIDE DEF x
<1>5. QED BY <1>1, <1>3, <1>4, LeafMakes DEF Leaves

\* TRUE and FALSE
LEMMA BoolMakes ==
  ASSUME NEW b \in BOOLEAN
  PROVE  Makes(Leaf(IF b THEN "true" ELSE "false", <<>>), Part(Bool(b)))
<1> DEFINE x == CommonPart(IF b THEN "true" ELSE "false", 0, <<>>)
<1>1. x \in CommonParts /\ x.op \in {"true", "false"} /\ (x.op = "true") = b
  BY EmptySeq DEF CommonPart, CommonParts, Ops, Leaves, Info
<1>2. ASSUME NEW L, NEW p, NEW f, L[p] = x PROVE Translate(L, p, f) = Part(Bool(b))
  <2> HIDE DEF x
  <2>1. Translate(L, p, f) = Part(Bool(x.op = "true"))
    BY <1>1, <1>2 DEF Translate, Comparisons
  <2>2. QED BY <1>1, <2>1
<1>3. Leaf(IF b THEN "true" ELSE "false", <<>>) = <<x>>
  BY DEF Leaf
<1> HIDE DEF x
<1>4. QED BY <1>1, <1>2, <1>3, LeafMakes DEF Leaves

\* References stay good when a query is moved,
LEMMA RefersShifted ==
  ASSUME NEW x \in CommonParts, NEW p \in Nat, Refers(x, p), NEW n \in Nat
  PROVE  Shifted(x, n) \in CommonParts /\ Refers(Shifted(x, n), n + p)
<1>1. x.op \in Ops /\ x.data \in Nat
  BY DEF CommonParts
<1>2. CASE x.op \in Binary
  <2>1. Shifted(x, n) = [x EXCEPT !.data = @ + n]
    BY <1>2 DEF Shifted
  <2>2. Shifted(x, n) \in CommonParts /\ Shifted(x, n).op = x.op /\ Shifted(x, n).data = x.data + n
    BY <1>1, <2>1 DEF CommonParts
  <2>3. x.data \in 1..(p - 1)
    BY <1>2, Zenon DEF Refers
  <2>4. x.data + n \in 1..(n + p - 1)
    BY <2>3
  <2>5. /\ x.op \notin Postfix /\ x.op # "op_in"
        /\ x.op # "op_like" /\ x.op # "op_like_escape"
    BY <1>2 DEF Binary, Comparisons, Postfix
  <2>6. Refers(Shifted(x, n), n + p)
    BY <2>2, <2>4, <2>5 DEF Refers
  <2>7. QED BY <2>2, <2>6
<1>3. CASE x.op \notin Binary
  <2>1. Shifted(x, n) = x
    BY <1>3 DEF Shifted
  <2>2. /\ x.op \in Postfix => p > 1
        /\ x.op = "op_in" => x.data + 1 < p
        /\ x.op = "op_like" => p > 2
        /\ x.op = "op_like_escape" => p > 3
    BY DEF Refers
  <2>3. /\ x.op \in Postfix => n + p > 1
        /\ x.op = "op_in" => x.data + 1 < n + p
        /\ x.op = "op_like" => n + p > 2
        /\ x.op = "op_like_escape" => n + p > 3
    BY <1>1, <2>2
  <2>4. Refers(x, n + p)
    BY <1>3, <2>3 DEF Refers
  <2>5. QED BY <2>1, <2>4
<1>4. QED BY <1>2, <1>3

\* and so does the query.
LEMMA MovedType ==
  ASSUME NEW s \in Seq(CommonParts), NEW n \in Nat
  PROVE  /\ Moved(s, n) \in Seq(CommonParts) /\ Len(Moved(s, n)) = Len(s)
         /\ \A i \in 1..Len(s) : Moved(s, n)[i] = Shifted(s[i], n)
<1>1. Len(s) \in Nat /\ DOMAIN s = 1..Len(s) /\ \A i \in 1..Len(s) : s[i] \in CommonParts
  OBVIOUS
<1>2. Moved(s, n) = [i \in 1..Len(s) |-> Shifted(s[i], n)]
  BY <1>1 DEF Moved, Shifted
<1>3. \A i \in 1..Len(s) : Shifted(s[i], n) \in CommonParts
  BY <1>1, SMTT(40) DEF Shifted, CommonParts
<1>4. QED BY <1>1, <1>2, <1>3

\* A query with parts after it
LEMMA WellFormedConcat ==
  ASSUME NEW s, WellFormed(s), NEW t \in Seq(CommonParts),
         \A i \in 1..Len(t) : Refers(t[i], Len(s) + i)
  PROVE  WellFormed(s \o t)
<1>1. s \in Seq(CommonParts) /\ Len(s) \in Nat /\ Len(t) \in Nat /\ \A p \in 1..Len(s) : Refers(s[p], p)
  BY DEF WellFormed
<1>2. /\ s \o t \in Seq(CommonParts) /\ Len(s \o t) = Len(s) + Len(t)
      /\ \A i \in 1..(Len(s) + Len(t)) : (s \o t)[i] = IF i <= Len(s) THEN s[i] ELSE t[i - Len(s)]
  BY <1>1, ConcatProperties
<1>3. ASSUME NEW p \in 1..(Len(s) + Len(t)) PROVE Refers((s \o t)[p], p)
  <2>1. CASE p <= Len(s)
    <3>1. p \in 1..Len(s) /\ (s \o t)[p] = s[p]
      BY <1>1, <1>2, <2>1
    <3>2. QED BY <1>1, <3>1
  <2>2. CASE ~(p <= Len(s))
    <3>1. PICK i \in 1..Len(t) : i = p - Len(s)
      <4>1. p - Len(s) \in 1..Len(t)
        BY <1>1, <2>2
      <4>2. QED BY <4>1
    <3>2. (s \o t)[p] = t[i] /\ Len(s) + i = p
      BY <1>1, <1>2, <2>2, <3>1
    <3>3. Refers(t[i], Len(s) + i)
      OBVIOUS
    <3>4. QED BY <3>2, <3>3
  <2>3. QED BY <2>1, <2>2
<1>4. QED BY <1>2, <1>3 DEF WellFormed

\* Where a list is, its beginning is and its end.
LEMMA PlacedConcat ==
  ASSUME NEW L, NEW n \in Nat, NEW s \in Seq(CommonParts), NEW t \in Seq(CommonParts),
         Len(L) \in Nat, Placed(L, n, s \o t)
  PROVE  /\ Placed(L, n, s) /\ n + Len(s) + Len(t) <= Len(L)
         /\ \A i \in 1..Len(t) : L[n + Len(s) + i] = Shifted(t[i], n)
<1>1. /\ Len(s \o t) = Len(s) + Len(t) /\ Len(s) \in Nat /\ Len(t) \in Nat
      /\ \A i \in 1..(Len(s) + Len(t)) : (s \o t)[i] = IF i <= Len(s) THEN s[i] ELSE t[i - Len(s)]
  BY ConcatProperties, LenProperties
<1>2. n + Len(s) + Len(t) <= Len(L) /\ n + Len(s) <= Len(L)
  BY <1>1 DEF Placed
<1>3. ASSUME NEW i \in 1..Len(s) PROVE L[n + i] = Shifted(s[i], n)
  <2>1. i \in 1..(Len(s) + Len(t)) /\ i \in 1..Len(s \o t) /\ (s \o t)[i] = s[i]
    BY <1>1
  <2>2. QED BY <2>1 DEF Placed
<1>4. ASSUME NEW i \in 1..Len(t) PROVE L[n + Len(s) + i] = Shifted(t[i], n)
  <2>1. PICK k \in 1..Len(s \o t) : k = Len(s) + i
    BY <1>1
  <2>2. (s \o t)[k] = t[i]
    BY <1>1, <2>1
  <2>3. L[n + k] = Shifted((s \o t)[k], n)
    BY DEF Placed
  <2>4. n + k = n + Len(s) + i
    BY <1>1, <2>1
  <2>5. QED BY <2>2, <2>3, <2>4
<1>5. QED BY <1>2, <1>3, <1>4 DEF Placed

\* Moving twice
LEMMA ShiftedTwice ==
  ASSUME NEW x \in CommonParts, NEW k \in Nat, NEW n \in Nat
  PROVE  Shifted(Shifted(x, k), n) = Shifted(x, n + k)
<1> DEFINE y == [x EXCEPT !.data = @ + k]
<1>1. y = [op |-> x.op, data |-> x.data + k, info |-> x.info] /\ x.data \in Nat
  BY DEF CommonParts
<1>2. [y EXCEPT !.data = @ + n] = [op |-> x.op, data |-> x.data + k + n, info |-> x.info]
  <2> HIDE DEF y
  <2>1. QED BY <1>1
<1>3. [x EXCEPT !.data = @ + (n + k)] = [op |-> x.op, data |-> x.data + (n + k), info |-> x.info]
  BY DEF CommonParts
<1>4. x.data + k + n = x.data + (n + k)
  BY <1>1
<1>5. CASE x.op \in Binary
  <2>1. Shifted(x, k) = y /\ Shifted(x, n + k) = [x EXCEPT !.data = @ + (n + k)]
    BY <1>5 DEF Shifted
  <2>2. y.op = x.op
    BY <1>1
  <2> HIDE DEF y
  <2>3. Shifted(y, n) = [y EXCEPT !.data = @ + n]
    BY <1>5, <2>2 DEF Shifted
  <2>4. QED BY <1>2, <1>3, <1>4, <2>1, <2>3
<1>6. CASE x.op \notin Binary
  BY <1>6 DEF Shifted
<1>7. QED BY <1>5, <1>6

\* A query that was moved is in place.
LEMMA PlacedMoved ==
  ASSUME NEW L, NEW n \in Nat, NEW k \in Nat, NEW t \in Seq(CommonParts),
         n + k + Len(t) <= Len(L),
         \A i \in 1..Len(t) : L[n + k + i] = Shifted(Moved(t, k)[i], n)
  PROVE  Placed(L, n + k, t)
<1>1. ASSUME NEW i \in 1..Len(t) PROVE L[n + k + i] = Shifted(t[i], n + k)
  <2>1. t[i] \in CommonParts /\ Moved(t, k)[i] = Shifted(t[i], k)
    BY MovedType
  <2>2. QED BY <2>1, ShiftedTwice
<1>2. QED BY <1>1 DEF Placed

\* What is appended for an operator with two sides.
Put(op, x, y) ==
  CASE op = "op_add" -> Glued(x, y)
    [] op = "op_and" ->
         AppendNative(Glued(Part(Native(<<"(">>)), Glued(AppendNative(x, <<")", "AND", "(">>), y)), <<")">>)
    [] op = "op_or" ->
         AppendNative(Glued(Part(Native(<<"(">>)), Glued(AppendNative(x, <<")", "OR", "(">>), y)), <<")">>)
    [] op \in Comparisons -> Glued(AppendNative(x, <<op>>), y)

\* A binary operator makes of its operands what Put() says.
LEMMA CombinedMakes ==
  ASSUME NEW op \in Binary, NEW s, NEW x, Makes(s, x), NEW t, NEW y, Makes(t, y)
  PROVE  Makes(Combined(op, s, t), Put(op, x, y))
<1>1. /\ WellFormed(s) /\ s \in Seq(CommonParts) /\ s # <<>> /\ Len(s) \in Nat
      /\ WellFormed(t) /\ t \in Seq(CommonParts) /\ t # <<>> /\ Len(t) \in Nat
  BY DEF Makes, WellFormed
<1>2. PICK a \in Nat, b \in Nat : a = Len(s) /\ b = Len(t) /\ a > 0 /\ b > 0
  BY <1>1, EmptySeq
<1> DEFINE e == CommonPart(op, a, <<>>)
           last == <<e>>
           front == s \o Moved(t, a)
<1>3. /\ last \in Seq(CommonParts) /\ Len(last) = 1 /\ last[1] = e /\ last # <<>>
      /\ e.op = op /\ e.data = a /\ e \in CommonParts
  <2>1. e \in CommonParts /\ e.op = op /\ e.data = a
    BY <1>2, EmptySeq DEF CommonPart, CommonParts, Ops, Info, Postfix
  <2>2. QED BY <2>1
<1>4. /\ Moved(t, a) \in Seq(CommonParts) /\ Len(Moved(t, a)) = b
      /\ \A i \in 1..b : Moved(t, a)[i] = Shifted(t[i], a)
  BY <1>1, <1>2, MovedType
<1>5. Combined(op, s, t) = front \o last
  BY <1>2 DEF Combined
<1> HIDE DEF e, last
<1>6. /\ front \in Seq(CommonParts) /\ Len(front) = a + b
      /\ front \o last \in Seq(CommonParts) /\ Len(front \o last) = a + b + 1 /\ front \o last # <<>>
  <2>1. front \in Seq(CommonParts) /\ Len(front) = a + b
    <3>1. front \in Seq(CommonParts) /\ Len(front) = Len(s) + Len(Moved(t, a))
      BY <1>1, <1>4, ConcatProperties
    <3>2. QED BY <1>2, <1>4, <3>1
  <2> HIDE DEF front
  <2>2. front \o last \in Seq(CommonParts) /\ Len(front \o last) = a + b + 1
    <3>1. front \o last \in Seq(CommonParts) /\ Len(front \o last) = Len(front) + Len(last)
      BY <1>3, <2>1, ConcatProperties
    <3>2. QED BY <1>3, <2>1, <3>1
  <2>3. QED BY <1>2, <2>1, <2>2, EmptySeq
<1>7. WellFormed(front)
  <2>1. ASSUME NEW i \in 1..b PROVE Refers(Moved(t, a)[i], a + i)
    <3>1. t[i] \in CommonParts /\ Refers(t[i], i) /\ i \in Nat
      BY <1>1, <1>2 DEF WellFormed
    <3>2. QED BY <1>4, <3>1, RefersShifted
  <2>2. QED BY <1>1, <1>2, <1>4, <2>1, WellFormedConcat
<1> HIDE DEF front
<1>8. WellFormed(front \o last)
  <2>1. Refers(e, a + b + 1)
    <3>1. a \in 1..(a + b + 1 - 1)
      BY <1>2
    <3>2. op \notin Postfix /\ op # "op_in" /\ op # "op_like" /\ op # "op_like_escape"
      BY DEF Binary, Comparisons, Postfix
    <3>3. QED BY <1>3, <3>1, <3>2 DEF Refers
  <2>2. \A i \in 1..Len(last) : Refers(last[i], Len(front) + i)
    BY <1>3, <1>6, <2>1
  <2>3. QED BY <1>3, <1>7, <2>2, WellFormedConcat
<1>9. ASSUME NEW L, NEW f, NEW n \in Nat, L \in Seq(CommonParts), MadeIs(L, Len(L), f), Placed(L, n, front \o last)
      PROVE  f[n + (a + b + 1)] = Put(op, x, y)
  <2>1. PICK p \in Nat : p = n + (a + b + 1)
    OBVIOUS
  <2>2. /\ Placed(L, n, front) /\ p <= Len(L) /\ Len(L) \in Nat /\ L[p] = Shifted(e, n)
    <3>1. Len(L) \in Nat
      BY <1>9, LenProperties
    <3>2. /\ Placed(L, n, front) /\ n + Len(front) + Len(last) <= Len(L)
          /\ \A i \in 1..Len(last) : L[n + Len(front) + i] = Shifted(last[i], n)
      <4>1. front \in Seq(CommonParts) /\ last \in Seq(CommonParts) /\ Placed(L, n, front \o last)
        BY <1>3, <1>6, <1>9
      <4>2. QED BY <3>1, <4>1, PlacedConcat, ZenonT(20)
    <3>3. 1 \in 1..Len(last) /\ n + Len(front) + 1 = p
      BY <1>3, <1>6, <2>1
    <3>4. L[p] = Shifted(e, n)
      BY <1>3, <3>2, <3>3
    <3>5. QED BY <1>3, <3>1, <3>2, <3>3, <3>4
  <2>3. /\ Placed(L, n, s) /\ n + a + b <= Len(L)
        /\ \A i \in 1..b : L[n + a + i] = Shifted(Moved(t, a)[i], n)
    BY <1>1, <1>2, <1>4, <2>2, PlacedConcat DEF front
  <2>4. Placed(L, n + a, t)
    BY <1>1, <1>2, <2>3, PlacedMoved
  <2>5. f[n + a] = x
    BY <1>2, <1>9, <2>3 DEF Makes
  <2>6. f[p - 1] = y
    <3>1. n + a \in Nat /\ p - 1 = (n + a) + b
      BY <2>1
    <3>2. f[(n + a) + Len(t)] = y
      BY <1>9, <2>4, <3>1 DEF Makes
    <3>3. QED BY <1>2, <3>1, <3>2
  <2>7. L[p].op = op /\ L[p].data = n + a
    BY <1>2, <1>3, <2>2 DEF Shifted, CommonParts
  <2>8. f[p] = Translate(L, p, f)
    <3>1. p \in 1..Len(L)
      BY <2>1, <2>2
    <3>2. QED BY <1>9, <3>1, MadeAt
  <2>9. Translate(L, p, f) = Put(op, x, y)
    BY <2>5, <2>6, <2>7 DEF Translate, TranslateLogic, BothSides, Put, Binary, Comparisons
  <2>10. QED BY <2>1, <2>8, <2>9
<1>10. QED BY <1>5, <1>6, <1>8, <1>9 DEF Makes

\* What is appended for an operator with one side.
PutAfter(op, x) ==
  IF op = "op_not" THEN AppendNative(Glued(Part(Native(<<"NOT", "(">>)), x), <<")">>)
  ELSE AppendNative(x, <<op>>)

\* An operator of one operand
LEMMA PostfixMakes ==
  ASSUME NEW op \in Postfix, NEW s, NEW x, Makes(s, x)
  PROVE  Makes(s \o Leaf(op, <<>>), PutAfter(op, x))
<1>1. WellFormed(s) /\ s \in Seq(CommonParts) /\ s # <<>> /\ Len(s) \in Nat
  BY DEF Makes, WellFormed
<1>2. PICK a \in Nat : a = Len(s) /\ a > 0
  BY <1>1, EmptySeq
<1> DEFINE e == CommonPart(op, 0, <<>>)
           last == <<e>>
<1>3. /\ last \in Seq(CommonParts) /\ Len(last) = 1 /\ last[1] = e /\ last # <<>>
      /\ e.op = op /\ e.data = 0 /\ e \in CommonParts
  <2>1. e \in CommonParts /\ e.op = op /\ e.data = 0
    BY EmptySeq DEF CommonPart, CommonParts, Ops, Info, Postfix
  <2>2. QED BY <2>1
<1>4. Leaf(op, <<>>) = last
  BY DEF Leaf
<1> HIDE DEF e, last
<1>5. s \o last \in Seq(CommonParts) /\ Len(s \o last) = a + 1 /\ s \o last # <<>>
  BY <1>1, <1>2, <1>3, ConcatProperties, EmptySeq
<1>6. WellFormed(s \o last)
  <2>1. Refers(e, a + 1)
    <3>1. op \notin Binary /\ op # "op_in" /\ op # "op_like" /\ op # "op_like_escape"
      BY DEF Binary, Comparisons, Postfix
    <3>2. a + 1 > 1
      BY <1>2
    <3>3. QED BY <1>3, <3>1, <3>2 DEF Refers
  <2>2. \A i \in 1..Len(last) : Refers(last[i], Len(s) + i)
    BY <1>2, <1>3, <2>1
  <2>3. QED BY <1>1, <1>3, <2>2, WellFormedConcat
<1>7. ASSUME NEW L, NEW f, NEW n \in Nat, L \in Seq(CommonParts), MadeIs(L, Len(L), f), Placed(L, n, s \o last)
      PROVE  f[n + (a + 1)] = PutAfter(op, x)
  <2>1. PICK p \in Nat : p = n + (a + 1)
    OBVIOUS
  <2>2. Placed(L, n, s) /\ p <= Len(L) /\ Len(L) \in Nat /\ L[p] = Shifted(e, n)
    <3>1. Len(L) \in Nat
      BY <1>7, LenProperties
    <3>2. /\ Placed(L, n, s) /\ n + Len(s) + Len(last) <= Len(L)
          /\ \A i \in 1..Len(last) : L[n + Len(s) + i] = Shifted(last[i], n)
      <4>1. s \in Seq(CommonParts) /\ last \in Seq(CommonParts) /\ Placed(L, n, s \o last)
        BY <1>1, <1>3, <1>7
      <4>2. QED BY <3>1, <4>1, PlacedConcat, ZenonT(20)
    <3>3. 1 \in 1..Len(last) /\ n + Len(s) + 1 = p
      BY <1>2, <1>3, <2>1
    <3>4. L[p] = Shifted(e, n)
      BY <1>3, <3>2, <3>3
    <3>5. QED BY <1>3, <3>1, <3>2, <3>3, <3>4
  <2>3. f[p - 1] = x
    <3>1. f[n + Len(s)] = x
      BY <1>7, <2>2 DEF Makes
    <3>2. n + Len(s) = p - 1
      BY <1>2, <2>1
    <3>3. QED BY <3>1, <3>2
  <2>4. L[p].op = op
    BY <1>3, <2>2 DEF Shifted, CommonParts, Binary, Comparisons, Postfix
  <2>5. f[p] = Translate(L, p, f)
    <3>1. p \in 1..Len(L)
      BY <2>1, <2>2
    <3>2. QED BY <1>7, <3>1, MadeAt
  <2>6. Translate(L, p, f) = PutAfter(op, x)
    BY <2>3, <2>4 DEF Translate, PutAfter, Comparisons, Postfix
  <2>7. QED BY <2>1, <2>5, <2>6
<1>8. QED BY <1>4, <1>5, <1>6, <1>7 DEF Makes

\* A parameter is appended.
LEMMA ParamGlued ==
  ASSUME NEW x, NEW W, Built(x, W), NEW p \in AllParams
  PROVE  Glued(x, AppendParam(None, p)) = AppendParam(x, p)
<1>2. AppendParam(None, p) = [clause |-> <<Param>>, parameters |-> <<p>>, bind |-> <<p>>, count |-> 1]
  BY DEF AppendParam, None
<1>3. Head(<<Param>>) = Param /\ Kind(Param) # "native"
  BY DEF Param, Kind
<1>4. Glued(x, AppendParam(None, p)) = Plus(x, AppendParam(None, p))
  BY <1>2, <1>3 DEF Glued
<1>5. QED BY <1>4, ParamAdds

\* A column is appended.
LEMMA ColumnGlued ==
  ASSUME NEW x, NEW W, Built(x, W), NEW c \in Columns
  PROVE  Glued(x, Part(Column(c))) = AppendColumn(x, c)
<1>1. /\ Part(Column(c)).clause = <<Column(c)>> /\ Part(Column(c)).parameters = <<>>
      /\ Part(Column(c)).bind = <<>>
  BY DEF Part, None
<1>2. Head(<<Column(c)>>) = Column(c) /\ Kind(Column(c)) # "native"
  BY DEF Column, Kind
<1>3. Glued(x, Part(Column(c))) = Plus(x, Part(Column(c)))
  BY <1>1, <1>2 DEF Glued
<1>4. x \in Query
  BY DEF Built, Matched
<1>5. /\ x = [clause |-> x.clause, parameters |-> x.parameters, bind |-> x.bind, count |-> x.count]
      /\ x.parameters \o <<>> = x.parameters /\ x.bind \o <<>> = x.bind
      /\ Append(x.clause, Column(c)) = x.clause \o <<Column(c)>>
  BY <1>4 DEF Query
<1>6. AppendColumn(x, c) = [x EXCEPT !.clause = Append(@, Column(c))]
  BY DEF AppendColumn
<1>7. QED BY <1>1, <1>3, <1>5, <1>6 DEF Plus

\* in() is the list of its values, or FALSE.
LEMMA InIs ==
  ASSUME NEW c, NEW ps \in Seq(AllParams), ps # <<>>, NEW f, InListIs(f, Len(ps), c, ps)
  PROVE  In(c, ps) = AppendNative(f[Len(ps)], <<")">>)
<1>1. PICK n \in Nat : n = Len(ps) /\ n # 0 /\ DOMAIN ps = 1..n
  BY EmptySeq
<1> DEFINE Step(l) == [i \in DOMAIN ps |->
             IF i = 1 THEN AppendParam(AppendNative(Part(c), <<"IN", "(">>), ps[1])
             ELSE AppendParam(AppendNative(l[i - 1], <<",">>), ps[i])]
           list == CHOOSE l : l = Step(l)
<1>2. f = Step(f)
  BY <1>1 DEF InListIs
<1>3. list = Step(list)
  <2> HIDE DEF Step
  <2>1. QED BY <1>2
<1>4. In(c, ps) = AppendNative(list[Len(ps)], <<")">>)
  BY DEF In
<1> HIDE DEF list
<1>5. InListIs(list, n, c, ps)
  BY <1>1, <1>3 DEF InListIs
<1>6. list[n] = f[n]
  <2>1. n \in 1..n
    BY <1>1
  <2>2. QED BY <1>1, <1>5, <2>1, InListSame
<1>7. QED BY <1>1, <1>4, <1>6

\* Each query in the list of in() is built.
LEMMA InListBuilt ==
  ASSUME NEW c \in Columns, NEW ps \in Seq(AllParams), NEW f, InListIs(f, Len(ps), Column(c), ps), NEW n \in 1..Len(ps)
  PROVE  \E W : Built(f[n], W)
<1>1. n \in 0..Len(ps) /\ n # 0
  OBVIOUS
<1>2. PICK g : InListIs(g, n, Column(c), ps) /\ \E W : Built(g[n], W)
  BY <1>1, InListExists
<1>3. PICK k \in Nat : k = Len(ps) /\ n \in 1..k /\ n \in Nat /\ n \in 1..n
  BY LenProperties
<1> DEFINE h == [i \in 1..n |-> f[i]]
<1>4. InListIs(h, n, Column(c), ps)
  <2>1. \A i \in 1..k : f[i] = IF i = 1 THEN AppendParam(AppendNative(Part(Column(c)), <<"IN", "(">>), ps[1])
                               ELSE AppendParam(AppendNative(f[i - 1], <<",">>), ps[i])
    BY <1>3 DEF InListIs
  <2>2. DOMAIN h = 1..n /\ h = [i \in 1..n |-> h[i]] /\ \A i \in 1..n : h[i] = f[i]
    OBVIOUS
  <2> HIDE DEF h
  <2>3. ASSUME NEW i \in 1..n
        PROVE  h[i] = IF i = 1 THEN AppendParam(AppendNative(Part(Column(c)), <<"IN", "(">>), ps[1])
                      ELSE AppendParam(AppendNative(h[i - 1], <<",">>), ps[i])
    <3>1. i \in 1..k /\ (i # 1 => i - 1 \in 1..n)
      BY <1>3
    <3>2. QED BY <2>1, <2>2, <3>1
  <2>4. QED BY <2>2, <2>3 DEF InListIs
<1>5. h[n] = g[n]
  <2> HIDE DEF h
  <2>1. QED BY <1>2, <1>3, <1>4, InListSame
<1>6. h[n] = f[n]
  BY <1>3
<1>7. QED BY <1>2, <1>5, <1>6

\* Where the parts of an operator with parameters are, and what is appended for them.
OfColumnMade(L, n, f, op, c, ps) ==
  /\ n + Len(ps) + 2 \in 1..Len(L)
  /\ L[n + Len(ps) + 2] = CommonPart(op, Len(ps), <<>>)
  /\ f[n + Len(ps) + 2] = Translate(L, n + Len(ps) + 2, f)
  /\ f[n + 1] = Part(Column(c))
  /\ \A k \in 1..Len(ps) : f[n + 1 + k] = AppendParam(None, ps[k])

OfColumnGives(op, c, ps, q) ==
  \A L, f : \A n \in Nat : OfColumnMade(L, n, f, op, c, ps) => f[n + Len(ps) + 2] = q

\* An operator of a column and its values
LEMMA OfColumnMakes ==
  ASSUME NEW op \in {"op_in", "op_like", "op_like_escape"}, NEW c \in Columns, NEW ps \in Seq(AllParams),
         op = "op_like" => Len(ps) = 1, op = "op_like_escape" => Len(ps) = 2, NEW q,
         OfColumnGives(op, c, ps, q)
  PROVE  Makes(CommonOfColumn(op, Column(c), ps), q)
<1> DEFINE first == CommonColumn(Column(c))
           params == [i \in DOMAIN ps |-> CommonPart("param", 0, <<"param", ps[i]>>)]
           e == CommonPart(op, Len(ps), <<>>)
           last == <<e>>
           front == first \o params
<1>1. PICK m \in Nat : m = Len(ps) /\ DOMAIN ps = 1..m
  BY LenProperties
<1>2. /\ params \in Seq(CommonParts) /\ Len(params) = m
      /\ \A i \in 1..m : params[i] = CommonPart("param", 0, <<"param", ps[i]>>)
  <2>1. \A i \in 1..m : CommonPart("param", 0, <<"param", ps[i]>>) \in CommonParts
    <3>1. ASSUME NEW i \in 1..m PROVE CommonPart("param", 0, <<"param", ps[i]>>) \in CommonParts
      <4>1. ps[i] \in AllParams
        BY <1>1, ElementOfSeq
      <4>2. QED BY <4>1 DEF CommonPart, CommonParts, Ops, Leaves, Info
    <3>2. QED BY <3>1
  <2>2. QED BY <1>1, <2>1
<1>3. /\ last \in Seq(CommonParts) /\ Len(last) = 1 /\ last[1] = e /\ last # <<>>
      /\ e.op = op /\ e.data = m /\ e \in CommonParts
  <2>1. e \in CommonParts /\ e.op = op /\ e.data = m
    BY <1>1, EmptySeq DEF CommonPart, CommonParts, Ops, Info
  <2>2. QED BY <2>1
<1>4. CommonOfColumn(op, Column(c), ps) = front \o last
  BY DEF CommonOfColumn
<1>5. Makes(first, Part(Column(c))) /\ Len(first) = 1
  BY ColumnMakes DEF CommonColumn, Leaf
<1> HIDE DEF first, params, e, last
<1>6. WellFormed(first) /\ first \in Seq(CommonParts)
  BY <1>5 DEF Makes, WellFormed
<1>7. /\ front \in Seq(CommonParts) /\ Len(front) = m + 1
      /\ front \o last \in Seq(CommonParts) /\ Len(front \o last) = m + 2
      /\ front \o last # <<>>
  <2>1. front \in Seq(CommonParts) /\ Len(front) = Len(first) + Len(params)
    BY <1>2, <1>6, ConcatProperties
  <2>2. /\ front \o last \in Seq(CommonParts)
        /\ Len(front \o last) = Len(front) + Len(last)
    BY <1>3, <2>1, ConcatProperties
  <2>3. Len(front \o last) = m + 2
    BY <1>2, <1>3, <1>5, <2>1, <2>2
  <2>4. QED BY <1>2, <1>5, <2>1, <2>2, <2>3, EmptySeq
<1> HIDE DEF front
<1>8. WellFormed(front)
  <2>1. ASSUME NEW i \in 1..m PROVE Refers(params[i], 1 + i)
    <3>1. params[i].op = "param"
      BY <1>2 DEF CommonPart
    <3>2. "param" \notin Binary /\ "param" \notin Postfix
      BY DEF Binary, Comparisons, Postfix
    <3>3. QED BY <3>1, <3>2 DEF Refers
  <2>2. QED BY <1>2, <1>5, <1>6, <2>1, WellFormedConcat DEF front
<1>9. WellFormed(front \o last)
  <2>1. Refers(e, m + 1 + 1)
    <3>1. op \notin Binary /\ op \notin Postfix
      BY DEF Binary, Comparisons, Postfix
    <3>2. QED BY <1>1, <1>3, <3>1 DEF Refers
  <2>2. \A i \in 1..Len(last) : Refers(last[i], Len(front) + i)
    BY <1>3, <1>7, <2>1
  <2>3. QED BY <1>3, <1>8, <2>2, WellFormedConcat
<1>10. ASSUME NEW L, NEW f, NEW n \in Nat, L \in Seq(CommonParts), MadeIs(L, Len(L), f),
              Placed(L, n, front \o last)
       PROVE  f[n + (m + 2)] = q
  <2>1. PICK p \in Nat : p = n + (m + 2) /\ p = n + m + 2
    OBVIOUS
  <2>2. Len(L) \in Nat
    BY <1>10, LenProperties
  <2>3. /\ Placed(L, n, front) /\ p <= Len(L) /\ L[p] = Shifted(e, n)
    <3>1. /\ Placed(L, n, front) /\ n + Len(front) + Len(last) <= Len(L)
          /\ \A i \in 1..Len(last) : L[n + Len(front) + i] = Shifted(last[i], n)
      <4>1. front \in Seq(CommonParts) /\ last \in Seq(CommonParts) /\ Placed(L, n, front \o last)
        BY <1>3, <1>7, <1>10
      <4>2. QED BY <2>2, <4>1, PlacedConcat
    <3>2. 1 \in 1..Len(last) /\ n + Len(front) + 1 = p
      BY <1>3, <1>7, <2>1
    <3>3. L[p] = Shifted(e, n)
      BY <1>3, <3>1, <3>2
    <3>4. QED BY <1>3, <3>1, <3>2, <3>3
  <2>4. L[p] = e
    <3>1. op \notin Binary
      BY DEF Binary, Comparisons
    <3>2. QED BY <1>3, <2>3, <3>1 DEF Shifted
  <2>5. /\ Placed(L, n, first) /\ n + 1 + m <= Len(L)
        /\ \A i \in 1..m : L[n + 1 + i] = Shifted(params[i], n)
    <3>1. /\ Placed(L, n, first) /\ n + Len(first) + Len(params) <= Len(L)
          /\ \A i \in 1..Len(params) : L[n + Len(first) + i] = Shifted(params[i], n)
      <4>1. first \in Seq(CommonParts) /\ params \in Seq(CommonParts) /\ Placed(L, n, first \o params)
        BY <1>2, <1>6, <2>3 DEF front
      <4>2. QED BY <2>2, <4>1, PlacedConcat
    <3>2. QED BY <1>2, <1>5, <3>1
  <2>6. f[n + 1] = Part(Column(c))
    <3>1. f[n + Len(first)] = Part(Column(c))
      BY <1>5, <1>10, <2>5 DEF Makes
    <3>2. QED BY <1>5, <3>1
  <2>7. ASSUME NEW k \in 1..m PROVE f[n + 1 + k] = AppendParam(None, ps[k])
    <3>1. PICK i \in 1..Len(L) : i = n + 1 + k
      BY <2>2, <2>5
    <3>2. L[i] = CommonPart("param", 0, <<"param", ps[k]>>)
      <4>1. L[i] = Shifted(params[k], n) /\ params[k] = CommonPart("param", 0, <<"param", ps[k]>>)
        BY <1>2, <2>5, <3>1
      <4>2. QED BY <4>1 DEF Shifted, CommonPart, Binary, Comparisons
    <3>3. f[i] = Translate(L, i, f)
      BY <1>10, MadeAt
    <3>4. L[i].op = "param" /\ Made(L[i]) = ps[k]
      BY <3>2 DEF CommonPart, Made
    <3>5. Translate(L, i, f) = AppendParam(None, ps[k])
      BY <3>4 DEF Translate, Comparisons
    <3>6. QED BY <3>1, <3>3, <3>5
  <2>8. f[p] = Translate(L, p, f)
    <3>1. p \in 1..Len(L)
      BY <2>1, <2>3
    <3>2. QED BY <1>10, <3>1, MadeAt
  <2>9. OfColumnMade(L, n, f, op, c, ps)
    <3>1. p \in 1..Len(L)
      BY <2>1, <2>2, <2>3
    <3>2. L[p] = CommonPart(op, Len(ps), <<>>)
      BY <2>4 DEF e
    <3>3. n + Len(ps) + 2 = p
      BY <1>1, <2>1
    <3>4. \A k \in 1..Len(ps) : f[n + 1 + k] = AppendParam(None, ps[k])
      BY <1>1, <2>7
    <3>5. QED BY <2>6, <2>8, <3>1, <3>2, <3>3, <3>4 DEF OfColumnMade
  <2>10. f[n + Len(ps) + 2] = q
    BY <2>9 DEF OfColumnGives
  <2>11. n + Len(ps) + 2 = n + (m + 2)
    BY <1>1
  <2>12. QED BY <2>10, <2>11
<1>11. QED BY <1>4, <1>7, <1>9, <1>10 DEF Makes

\* The list of translate(), from the place a on.
MadeListIs(l, a, b, f) ==
  l = [i \in a..b |->
         IF i = a THEN Glued(AppendNative(f[a - 1], <<"IN", "(">>), f[i])
         ELSE Glued(AppendNative(l[i - 1], <<",">>), f[i])]

LEMMA MadeListSame ==
  ASSUME NEW a \in Nat, NEW b \in Nat, NEW f, NEW l, NEW k, MadeListIs(l, a, b, f), MadeListIs(k, a, b, f),
         NEW j \in a..b
  PROVE  l[j] = k[j]
<1> DEFINE T == {i \in a..b : l[i] # k[i]}
<1>1. SUFFICES ASSUME T # {} PROVE FALSE
  OBVIOUS
<1>2. T \in SUBSET Nat
  OBVIOUS
<1>3. PICK i \in T : \A y \in T : i <= y
  BY <1>1, <1>2, Least
<1>4. i \in a..b
  OBVIOUS
<1>5. l[i] = IF i = a THEN Glued(AppendNative(f[a - 1], <<"IN", "(">>), f[i])
             ELSE Glued(AppendNative(l[i - 1], <<",">>), f[i])
  BY <1>4 DEF MadeListIs
<1>6. k[i] = IF i = a THEN Glued(AppendNative(f[a - 1], <<"IN", "(">>), f[i])
             ELSE Glued(AppendNative(k[i - 1], <<",">>), f[i])
  BY <1>4 DEF MadeListIs
<1>7. i # a => l[i - 1] = k[i - 1]
  BY <1>3, <1>4
<1>8. QED BY <1>3, <1>4, <1>5, <1>6, <1>7

\* It is the list that in() makes.
LEMMA MadeListIsIn ==
  ASSUME NEW c \in Columns, NEW ps \in Seq(AllParams), NEW m \in Nat, m = Len(ps), NEW n \in Nat, NEW f,
         f[n + 1] = Part(Column(c)), \A k \in 1..m : f[n + 1 + k] = AppendParam(None, ps[k]),
         NEW g, InListIs(g, m, Column(c), ps)
  PROVE  MadeListIs([i \in (n + 2)..(n + m + 1) |-> g[i - (n + 1)]], n + 2, n + m + 1, f)
<1> DEFINE l == [i \in (n + 2)..(n + m + 1) |-> g[i - (n + 1)]]
<1>1. /\ DOMAIN l = (n + 2)..(n + m + 1) /\ l = [i \in (n + 2)..(n + m + 1) |-> l[i]]
      /\ \A i \in (n + 2)..(n + m + 1) : l[i] = g[i - (n + 1)]
  OBVIOUS
<1> HIDE DEF l
<1>2. ASSUME NEW i \in (n + 2)..(n + m + 1)
      PROVE  l[i] = IF i = n + 2 THEN Glued(AppendNative(f[n + 1], <<"IN", "(">>), f[i])
                    ELSE Glued(AppendNative(l[i - 1], <<",">>), f[i])
  <2>1. PICK k \in 1..m : k = i - (n + 1) /\ n + 1 + k = i /\ (k = 1 <=> i = n + 2)
    <3>1. i - (n + 1) \in 1..m /\ n + 1 + (i - (n + 1)) = i /\ (i - (n + 1) = 1 <=> i = n + 2)
      OBVIOUS
    <3>2. QED BY <3>1
  <2>2. l[i] = g[k] /\ f[i] = AppendParam(None, ps[k]) /\ ps[k] \in AllParams
    <3>1. f[n + 1 + k] = AppendParam(None, ps[k])
      OBVIOUS
    <3>2. QED BY <1>1, <2>1, <3>1, ElementOfSeq
  <2>3. g[k] = IF k = 1 THEN AppendParam(AppendNative(Part(Column(c)), <<"IN", "(">>), ps[1])
               ELSE AppendParam(AppendNative(g[k - 1], <<",">>), ps[k])
    BY DEF InListIs
  <2>4. CASE k = 1
    <3>1. <<"IN", "(">> \in Seq(Vocabulary) \ {<<>>}
      <4>1. {"IN", "("} \subseteq Vocabulary
        BY SqlWordsAre
      <4>2. QED BY <4>1
    <3>2. \E W : Built(AppendNative(Part(Column(c)), <<"IN", "(">>), W)
      BY <3>1, ColumnPart, BuiltNative
    <3>4. Glued(AppendNative(Part(Column(c)), <<"IN", "(">>), AppendParam(None, ps[1]))
            = AppendParam(AppendNative(Part(Column(c)), <<"IN", "(">>), ps[1])
      BY <2>2, <2>4, <3>2, ParamGlued
    <3>5. QED BY <2>1, <2>2, <2>3, <2>4, <3>4
  <2>5. CASE k # 1
    <3>1. k - 1 \in 1..Len(ps) /\ i - 1 \in (n + 2)..(n + m + 1) /\ (i - 1) - (n + 1) = k - 1
      BY <2>1, <2>5
    <3>2. l[i - 1] = g[k - 1]
      BY <1>1, <3>1
    <3>3. "," \in Vocabulary
      BY SqlWordsAre
    <3>4. \E W : Built(AppendNative(g[k - 1], <<",">>), W)
      <4>1. PICK j \in 1..Len(ps) : j = k - 1
        BY <3>1
      <4>2. InListIs(g, Len(ps), Column(c), ps)
        OBVIOUS
      <4>3. \E W : Built(g[j], W)
        BY <4>2, InListBuilt
      <4>4. QED BY <3>3, <4>1, <4>3, BuiltWord
    <3>5. Glued(AppendNative(g[k - 1], <<",">>), AppendParam(None, ps[k]))
            = AppendParam(AppendNative(g[k - 1], <<",">>), ps[k])
      BY <2>2, <3>4, ParamGlued
    <3>6. QED BY <2>1, <2>2, <2>3, <2>5, <3>2, <3>5
  <2>6. QED BY <2>4, <2>5
<1>3. PICK a \in Nat, b \in Nat : a = n + 2 /\ b = n + m + 1 /\ a - 1 = n + 1
  OBVIOUS
<1>4. MadeListIs(l, a, b, f)
  <2>1. \A i \in a..b : l[i] = IF i = a THEN Glued(AppendNative(f[a - 1], <<"IN", "(">>), f[i])
                               ELSE Glued(AppendNative(l[i - 1], <<",">>), f[i])
    BY <1>2, <1>3
  <2>2. l = [i \in a..b |-> l[i]]
    BY <1>1, <1>3
  <2>3. QED BY <2>1, <2>2 DEF MadeListIs
<1>5. QED BY <1>3, <1>4 DEF l

\* in()
LEMMA InMakes ==
  ASSUME NEW c \in Columns, NEW ps \in Seq(AllParams)
  PROVE  Makes(CommonOfColumn("op_in", Column(c), ps), In(Column(c), ps))
<1>1. PICK m \in Nat : m = Len(ps)
  BY LenProperties
<1>2. ASSUME NEW L, NEW f, NEW n \in Nat, OfColumnMade(L, n, f, "op_in", c, ps)
      PROVE  f[n + Len(ps) + 2] = In(Column(c), ps)
  <2>1. PICK p \in Nat : p = n + m + 2
    OBVIOUS
  <2>2. /\ L[p] = CommonPart("op_in", m, <<>>) /\ f[p] = Translate(L, p, f)
        /\ f[n + 1] = Part(Column(c)) /\ \A k \in 1..m : f[n + 1 + k] = AppendParam(None, ps[k])
    BY <1>1, <1>2, <2>1 DEF OfColumnMade
  <2>3. L[p].op = "op_in" /\ L[p].data = m
    BY <2>2 DEF CommonPart
  <2>4. f[p] = TranslateIn(L, p, f)
    BY <2>2, <2>3 DEF Translate, Comparisons
  <2>5. CASE ps = <<>>
    <3>1. m = 0
      BY <1>1, <2>5
    <3>2. TranslateIn(L, p, f) = Part(Bool(FALSE))
      BY <2>3, <3>1 DEF TranslateIn
    <3>3. In(Column(c), ps) = Part(Bool(FALSE))
      BY <2>5 DEF In
    <3>4. QED BY <1>1, <2>1, <2>4, <3>2, <3>3
  <2>6. CASE ps # <<>>
    <3>1. m # 0 /\ m \in 0..Len(ps)
      BY <1>1, <2>6, EmptySeq
    <3>2. PICK g : InListIs(g, m, Column(c), ps)
      BY <3>1, InListExists
    <3>3. PICK a \in Nat, b \in Nat : /\ a = n + 2 /\ b = n + m + 1
                                      /\ p - m = a /\ p - 1 = b /\ b \in a..b /\ b - (n + 1) = m
      BY <2>1, <3>1
    <3> DEFINE S(l) == [i \in a..(p - 1) |-> IF i = a THEN Glued(AppendNative(f[a - 1], <<"IN", "(">>), f[i])
                                       ELSE Glued(AppendNative(l[i - 1], <<",">>), f[i])]
               made == CHOOSE l : l = S(l)
               h == [i \in a..b |-> g[i - (n + 1)]]
    <3>4. TranslateIn(L, p, f) = AppendNative(made[p - 1], <<")">>)
      <4>1. p - L[p].data = a /\ L[p].data # 0
        BY <2>3, <3>1, <3>3
      <4>2. QED BY <4>1 DEF TranslateIn
    <3>5. MadeListIs(h, a, b, f)
      BY <1>1, <2>2, <3>2, <3>3, MadeListIsIn
    <3>6. h[b] = g[m]
      BY <3>3
    <3> HIDE DEF h
    <3>7. h = S(h)
      <4>1. MadeListIs(h, a, p - 1, f)
        BY <3>3, <3>5
      <4>2. QED BY <4>1 DEF MadeListIs
    <3>8. made = S(made)
      <4> HIDE DEF S
      <4>1. QED BY <3>7
    <3> HIDE DEF made
    <3>9. MadeListIs(made, a, b, f)
      <4>1. MadeListIs(made, a, p - 1, f)
        BY <3>8 DEF MadeListIs
      <4>2. QED BY <3>3, <4>1
    <3> HIDE DEF S
    <3>10. made[b] = h[b]
      BY <3>3, <3>5, <3>9, MadeListSame
    <3>11. In(Column(c), ps) = AppendNative(g[Len(ps)], <<")">>)
      BY <1>1, <2>6, <3>2, InIs
    <3>12. f[p] = In(Column(c), ps)
      BY <1>1, <2>4, <3>3, <3>4, <3>6, <3>10, <3>11
    <3>13. QED BY <1>1, <2>1, <3>12
  <2>7. QED BY <2>5, <2>6
<1>3. OfColumnGives("op_in", c, ps, In(Column(c), ps))
  BY <1>2 DEF OfColumnGives
<1>4. QED BY <1>3, OfColumnMakes

\* like() with a pattern
LEMMA LikeMakes ==
  ASSUME NEW c \in Columns, NEW p \in AllParams
  PROVE  Makes(CommonOfColumn("op_like", Column(c), <<p>>), LikePattern(Column(c), p))
<1>1. <<p>> \in Seq(AllParams) /\ Len(<<p>>) = 1 /\ <<p>>[1] = p
  OBVIOUS
<1>2. Glued(AppendNative(Part(Column(c)), <<"LIKE">>), AppendParam(None, p)) = LikePattern(Column(c), p)
  <2>1. "LIKE" \in Vocabulary
    BY SqlWordsAre
  <2>2. \E W : Built(AppendNative(Part(Column(c)), <<"LIKE">>), W)
    BY <2>1, ColumnPart, BuiltWord
  <2>3. QED BY <2>2, ParamGlued DEF LikePattern
<1>3. ASSUME NEW L, NEW f, NEW n \in Nat, OfColumnMade(L, n, f, "op_like", c, <<p>>)
      PROVE  f[n + Len(<<p>>) + 2] = LikePattern(Column(c), p)
  <2>1. PICK k \in Nat : k = n + 1 + 2 /\ k = n + Len(<<p>>) + 2 /\ k - 1 = n + 1 + 1 /\ k - 2 = n + 1
    BY <1>1
  <2>2. L[k] = CommonPart("op_like", 1, <<>>) /\ f[k] = Translate(L, k, f)
    BY <1>1, <1>3, <2>1 DEF OfColumnMade
  <2>3. f[k - 2] = Part(Column(c)) /\ f[k - 1] = AppendParam(None, p)
    <3>1. \A j \in 1..1 : f[n + 1 + j] = AppendParam(None, <<p>>[j])
      BY <1>1, <1>3 DEF OfColumnMade
    <3>2. f[n + 1] = Part(Column(c))
      BY <1>3 DEF OfColumnMade
    <3>3. QED BY <1>1, <2>1, <3>1, <3>2
  <2>4. L[k].op = "op_like"
    BY <2>2 DEF CommonPart
  <2>5. Translate(L, k, f) = Glued(AppendNative(f[k - 2], <<"LIKE">>), f[k - 1])
    BY <2>4 DEF Translate, Comparisons
  <2>6. QED BY <1>2, <2>1, <2>2, <2>3, <2>5
<1>4. OfColumnGives("op_like", c, <<p>>, LikePattern(Column(c), p))
  BY <1>3 DEF OfColumnGives
<1>5. QED BY <1>1, <1>4, OfColumnMakes

\* like() with an escape character
LEMMA EscapeMakes ==
  ASSUME NEW c \in Columns, NEW p \in AllParams, NEW e \in AllParams
  PROVE  Makes(CommonOfColumn("op_like_escape", Column(c), <<p, e>>), LikeEscape(Column(c), p, e))
<1> DEFINE ps == <<p, e>>
<1>1. ps \in Seq(AllParams) /\ Len(ps) = 2 /\ ps[1] = p /\ ps[2] = e
  OBVIOUS
<1>2. Glued(AppendNative(Part(Column(c)), <<"LIKE">>), AppendParam(None, p)) = LikePattern(Column(c), p)
  <2>1. "LIKE" \in Vocabulary
    BY SqlWordsAre
  <2>2. \E W : Built(AppendNative(Part(Column(c)), <<"LIKE">>), W)
    BY <2>1, ColumnPart, BuiltWord
  <2>3. QED BY <2>2, ParamGlued DEF LikePattern
<1>3. Glued(AppendNative(LikePattern(Column(c), p), <<"ESCAPE">>), AppendParam(None, e)) = LikeEscape(Column(c), p, e)
  <2>1. "ESCAPE" \in Vocabulary
    BY SqlWordsAre
  <2>2. \E W : Built(AppendNative(LikePattern(Column(c), p), <<"ESCAPE">>), W)
    BY <2>1, BuiltLike, BuiltWord
  <2>3. QED BY <2>2, ParamGlued DEF LikeEscape
<1> HIDE DEF ps
<1>4. ASSUME NEW L, NEW f, NEW n \in Nat, OfColumnMade(L, n, f, "op_like_escape", c, ps)
      PROVE  f[n + Len(ps) + 2] = LikeEscape(Column(c), p, e)
  <2>1. PICK k \in Nat : /\ k = n + 2 + 2 /\ k = n + Len(ps) + 2
                         /\ k - 1 = n + 1 + 2 /\ k - 2 = n + 1 + 1 /\ k - 3 = n + 1
    BY <1>1
  <2>2. L[k] = CommonPart("op_like_escape", 2, <<>>) /\ f[k] = Translate(L, k, f)
    BY <1>1, <1>4, <2>1 DEF OfColumnMade
  <2>3. f[k - 3] = Part(Column(c)) /\ f[k - 2] = AppendParam(None, p) /\ f[k - 1] = AppendParam(None, e)
    <3>1. \A j \in 1..2 : f[n + 1 + j] = AppendParam(None, ps[j])
      BY <1>1, <1>4 DEF OfColumnMade
    <3>2. f[n + 1] = Part(Column(c))
      BY <1>4 DEF OfColumnMade
    <3>3. QED BY <1>1, <2>1, <3>1, <3>2
  <2>4. L[k].op = "op_like_escape"
    BY <2>2 DEF CommonPart
  <2>5. Translate(L, k, f) = Glued(AppendNative(Glued(AppendNative(f[k - 3], <<"LIKE">>), f[k - 2]),
                                                <<"ESCAPE">>), f[k - 1])
    BY <2>4 DEF Translate, Comparisons
  <2>6. QED BY <1>2, <1>3, <2>1, <2>2, <2>3, <2>5
<1>5. OfColumnGives("op_like_escape", c, ps, LikeEscape(Column(c), p, e))
  BY <1>4 DEF OfColumnGives
<1>6. QED BY <1>1, <1>5, OfColumnMakes DEF ps

\* A common comparison becomes the one of query_column.
LEMMA ComparisonMakes ==
  ASSUME NEW c \in Columns, NEW op \in Comparisons
  PROVE  /\ \A p \in AllParams :
              /\ Makes(CommonComparison(op, Column(c), <<"param", p>>), Comparison(op, Column(c), <<"param", p>>))
              /\ Makes(CommonComparison(op, <<"param", p>>, Column(c)), Comparison(op, <<"param", p>>, Column(c)))
         /\ \A d \in Columns :
              Makes(CommonComparison(op, Column(c), Column(d)), Comparison(op, Column(c), Column(d)))
<1>1. /\ \A d \in Columns : IsColumn(Column(d)) /\ Column(d)[2] = d
      /\ \A p : ~IsColumn(<<"param", p>>) /\ <<"param", p>>[2] = p
  BY DEF IsColumn, Column
<1>2. \A w \in Comparisons : w \in Binary /\ w \in Vocabulary /\ OtherWay[w] \in Comparisons
  BY SqlWordsAre, OtherWays DEF Binary
<1>3. \A w \in Comparisons : \A x, y : Put(w, x, y) = Glued(AppendNative(x, <<w>>), y)
  BY DEF Put, Comparisons
<1>4. ASSUME NEW w \in Comparisons, NEW p \in AllParams
      PROVE  Makes(Combined(w, CommonColumn(Column(c)), CommonParam(p)), Compared(Column(c), w, <<"param", p>>))
  <2>1. Makes(Combined(w, CommonColumn(Column(c)), CommonParam(p)), Put(w, Part(Column(c)), AppendParam(None, p)))
    BY <1>2, ColumnMakes, ParamMakes, CombinedMakes
  <2>2. \E W : Built(AppendNative(Part(Column(c)), <<w>>), W)
    BY <1>2, ColumnPart, BuiltWord
  <2>3. Glued(AppendNative(Part(Column(c)), <<w>>), AppendParam(None, p)) = Compared(Column(c), w, <<"param", p>>)
    BY <1>1, <2>2, ParamGlued DEF Compared
  <2>4. QED BY <1>3, <2>1, <2>3
<1>5. ASSUME NEW p \in AllParams
      PROVE  Makes(CommonComparison(op, Column(c), <<"param", p>>), Comparison(op, Column(c), <<"param", p>>))
  <2>1. Comparison(op, Column(c), <<"param", p>>) = Compared(Column(c), op, <<"param", p>>)
    BY <1>1 DEF Comparison, Comparisons, Equal, Unequal, Less, Greater, LessEqual, GreaterEqual
  <2>2. CommonComparison(op, Column(c), <<"param", p>>) = Combined(op, CommonColumn(Column(c)), CommonParam(p))
    BY <1>1 DEF CommonComparison, CommonOperand
  <2>3. QED BY <1>4, <2>1, <2>2
<1>6. ASSUME NEW p \in AllParams
      PROVE  Makes(CommonComparison(op, <<"param", p>>, Column(c)), Comparison(op, <<"param", p>>, Column(c)))
  <2>1. Comparison(op, <<"param", p>>, Column(c)) = Compared(Column(c), OtherWay[op], <<"param", p>>)
    BY <1>1 DEF Comparison, Comparisons, OtherWay, Equal, Unequal, Less, Greater, LessEqual, GreaterEqual
  <2>2. CommonComparison(op, <<"param", p>>, Column(c))
          = Combined(OtherWay[op], CommonColumn(Column(c)), CommonParam(p))
    BY <1>1 DEF CommonComparison, CommonOperand
  <2>3. QED BY <1>2, <1>4, <2>1, <2>2
<1>7. ASSUME NEW d \in Columns
      PROVE  Makes(CommonComparison(op, Column(c), Column(d)), Comparison(op, Column(c), Column(d)))
  <2>1. Comparison(op, Column(c), Column(d)) = ColumnsCompared(Column(c), op, Column(d))
    BY <1>1 DEF Comparison
  <2>2. CommonComparison(op, Column(c), Column(d)) = Combined(op, CommonColumn(Column(c)), CommonColumn(Column(d)))
    BY <1>1 DEF CommonComparison, CommonOperand
  <2>3. Makes(Combined(op, CommonColumn(Column(c)), CommonColumn(Column(d))), Put(op, Part(Column(c)), Part(Column(d))))
    BY <1>2, ColumnMakes, CombinedMakes
  <2>4. \E W : Built(AppendNative(Part(Column(c)), <<op>>), W)
    BY <1>2, ColumnPart, BuiltWord
  <2>5. Glued(AppendNative(Part(Column(c)), <<op>>), Part(Column(d))) = ColumnsCompared(Column(c), op, Column(d))
    BY <1>1, <2>4, ColumnGlued DEF ColumnsCompared
  <2>6. QED BY <1>3, <2>1, <2>2, <2>3, <2>5
<1>8. QED BY <1>5, <1>6, <1>7

------------------------------------------------------------------------------
\* How a text is read: every place of it has a reading, made of later ones.

\* A word is at a place of the text.
LEMMA AtWord ==
  ASSUME NEW t, Len(t) \in Nat, NEW i \in Nat, NEW w, At(t, i) = Word(w)
  PROVE  i <= Len(t) /\ At(t, i) = t[i]
BY DEF At, Word

\* What has been read is behind the place where reading began.
Ahead(x, i) == x.ok => x.next \in Nat /\ x.next > i
AllAhead(x, i) == Ahead(x.not, i) /\ Ahead(x.and, i) /\ Ahead(x.or, i)

\* What has been read
LEMMA DoneIs ==
  ASSUME NEW f, NEW i
  PROVE  Done(f, i).ok /\ Done(f, i).truth = f /\ Done(f, i).next = i
BY DEF Done

\* What cannot be read
LEMMA FailedIs == ~Failed.ok
BY DEF Failed

\* An operand and what follows it
LEMMA PredicateAhead ==
  ASSUME NEW t, NEW i \in Nat
  PROVE  Ahead(ReadPredicate(t, i), i)
<1>1. /\ \A f : Ahead(Done(f, i + 2), i) /\ Ahead(Done(f, i + 3), i) /\ Ahead(Done(f, i + 5), i)
      /\ Ahead(Failed, i)
  BY FailedIs, DoneIs DEF Ahead
<1>2. Ahead(ReadIn(t, i), i)
  <2>1. CASE \E n \in 1..Len(t) : IsList(t, i + 3, n)
    <3> DEFINE n == CHOOSE n \in 1..Len(t) : IsList(t, i + 3, n)
    <3>1. n \in 1..Len(t)
      BY <2>1
    <3>2. \E f : ReadIn(t, i) = Done(f, i + 3 + 2 * n)
      BY <2>1 DEF ReadIn
    <3> HIDE DEF n
    <3>3. i + 3 + 2 * n \in Nat /\ i + 3 + 2 * n > i
      BY <3>1
    <3>4. QED BY <3>2, <3>3, DoneIs DEF Ahead
  <2>2. CASE ~\E n \in 1..Len(t) : IsList(t, i + 3, n)
    BY <1>1, <2>2 DEF ReadIn
  <2>3. QED BY <2>1, <2>2
<1>3. Ahead(ReadLike(t, i), i)
  BY <1>1 DEF ReadLike
<1>4. QED BY <1>1, <1>2, <1>3 DEF ReadPredicate

\* ... or a literal
LEMMA AtomAhead ==
  ASSUME NEW t, NEW i \in Nat
  PROVE  Ahead(ReadAtom(t, i), i)
<1>1. Ahead(ReadPredicate(t, i), i)
  BY PredicateAhead
<1>2. Ahead(Failed, i) /\ \A f : Ahead(Done(f, i + 1), i)
  BY FailedIs, DoneIs DEF Ahead
<1>3. Word("1 = 1") # Word("1 = 0")
  BY DEF Word
<1>4. QED BY <1>1, <1>2, <1>3 DEF ReadAtom

\* NOT and parentheses
LEMMA NotAhead ==
  ASSUME NEW t, Len(t) \in Nat, NEW i \in Nat, NEW r, \A k \in (i + 1)..(Len(t) + 1) : AllAhead(r[k], k)
  PROVE  Ahead(ReadNot(t, i, r), i)
<1>1. Ahead(ReadAtom(t, i), i)
  BY AtomAhead
<1>2. Ahead(Failed, i)
  BY FailedIs DEF Ahead
<1>3. CASE At(t, i) = Word("NOT") \/ At(t, i) = Word("(")
  <2>1. i + 1 \in (i + 1)..(Len(t) + 1)
    BY <1>3, AtWord
  <2>2. Ahead(r[i + 1].not, i + 1) /\ Ahead(r[i + 1].or, i + 1)
    BY <2>1 DEF AllAhead
  <2>3. \A f : r[i + 1].not.ok => Ahead(Done(f, r[i + 1].not.next), i)
    BY <2>2, DoneIs DEF Ahead
  <2>4. \A f : r[i + 1].or.ok => Ahead(Done(f, r[i + 1].or.next + 1), i)
    BY <2>2, DoneIs DEF Ahead
  <2>5. Word("NOT") # Word("(")
    BY DEF Word
  <2>6. QED BY <1>2, <1>3, <2>3, <2>4, <2>5 DEF ReadNot
<1>4. CASE ~(At(t, i) = Word("NOT") \/ At(t, i) = Word("("))
  BY <1>1, <1>4 DEF ReadNot
<1>5. QED BY <1>3, <1>4

\* AND and OR
LEMMA AndAhead ==
  ASSUME NEW t, Len(t) \in Nat, NEW i \in Nat, NEW r, \A k \in (i + 1)..(Len(t) + 1) : AllAhead(r[k], k),
         NEW x, Ahead(x, i)
  PROVE  Ahead(ReadAnd(t, x, r), i) /\ Ahead(ReadOr(t, x, r), i)
<1>1. CASE x.ok /\ (At(t, x.next) = Word("AND") \/ At(t, x.next) = Word("OR"))
  <2>1. x.next \in Nat /\ x.next > i /\ x.next <= Len(t)
    BY <1>1, AtWord DEF Ahead
  <2>2. PICK k \in (i + 1)..(Len(t) + 1) : k = x.next + 1
    BY <2>1
  <2>3. Ahead(r[k].and, k) /\ Ahead(r[k].or, k) /\ k > i /\ k \in Nat
    BY <2>1, <2>2 DEF AllAhead
  <2>4. /\ \A f : r[k].and.ok => Ahead(Done(f, r[k].and.next), i)
        /\ \A f : r[k].or.ok => Ahead(Done(f, r[k].or.next), i)
        /\ Ahead(Failed, i)
    BY <2>3, DoneIs, FailedIs DEF Ahead
  <2>5. QED BY <1>1, <2>2, <2>4 DEF ReadAnd, ReadOr
<1>2. CASE ~(x.ok /\ (At(t, x.next) = Word("AND") \/ At(t, x.next) = Word("OR")))
  BY <1>2 DEF ReadAnd, ReadOr
<1>3. QED BY <1>1, <1>2

\* What is read at one place
LEMMA ReadAtAhead ==
  ASSUME NEW t, Len(t) \in Nat, NEW i \in Nat, NEW r, \A k \in (i + 1)..(Len(t) + 1) : AllAhead(r[k], k)
  PROVE  AllAhead(ReadAt(t, i, r), i)
<1> DEFINE x == ReadNot(t, i, r)
           y == ReadAnd(t, x, r)
           z == ReadOr(t, y, r)
<1>1. Ahead(x, i)
  BY NotAhead
<1> HIDE DEF x
<1>2. Ahead(y, i)
  BY <1>1, AndAhead
<1> HIDE DEF y
<1>3. Ahead(z, i)
  BY <1>2, AndAhead
<1> HIDE DEF z
<1>4. ReadAt(t, i, r) = [not |-> x, and |-> y, or |-> z]
  BY DEF ReadAt, x, y, z
<1>5. QED BY <1>1, <1>2, <1>3, <1>4 DEF AllAhead

\* What is read at a place depends on what is read at the later places only.
LEMMA ReadAtSame ==
  ASSUME NEW t, Len(t) \in Nat, NEW i \in Nat, NEW r, NEW u, \A k \in (i + 1)..(Len(t) + 1) : AllAhead(r[k], k),
         \A k \in (i + 1)..(Len(t) + 1) : r[k] = u[k]
  PROVE  ReadAt(t, i, r) = ReadAt(t, i, u)
<1>1. ReadNot(t, i, r) = ReadNot(t, i, u)
  <2>1. CASE At(t, i) = Word("NOT") \/ At(t, i) = Word("(")
    <3>1. i + 1 \in (i + 1)..(Len(t) + 1)
      BY <2>1, AtWord
    <3>2. r[i + 1] = u[i + 1]
      BY <3>1
    <3>3. Word("NOT") # Word("(")
      BY DEF Word
    <3>4. QED BY <2>1, <3>2, <3>3 DEF ReadNot
  <2>2. CASE ~(At(t, i) = Word("NOT") \/ At(t, i) = Word("("))
    BY <2>2 DEF ReadNot
  <2>3. QED BY <2>1, <2>2
<1>2. ASSUME NEW x, Ahead(x, i)
      PROVE  ReadAnd(t, x, r) = ReadAnd(t, x, u) /\ ReadOr(t, x, r) = ReadOr(t, x, u)
  <2>1. CASE x.ok /\ (At(t, x.next) = Word("AND") \/ At(t, x.next) = Word("OR"))
    <3>1. x.next \in Nat /\ x.next > i /\ x.next <= Len(t)
      BY <1>2, <2>1, AtWord DEF Ahead
    <3>2. r[x.next + 1] = u[x.next + 1]
      BY <3>1
    <3>3. QED BY <3>2 DEF ReadAnd, ReadOr
  <2>2. CASE ~(x.ok /\ (At(t, x.next) = Word("AND") \/ At(t, x.next) = Word("OR")))
    BY <2>2 DEF ReadAnd, ReadOr
  <2>3. QED BY <2>1, <2>2
<1> DEFINE x == ReadNot(t, i, r)
           y == ReadAnd(t, x, r)
<1>3. Ahead(x, i)
  BY NotAhead
<1>4. ReadAnd(t, x, r) = ReadAnd(t, x, u)
  BY <1>2, <1>3
<1>5. Ahead(y, i)
  <2> HIDE DEF x
  <2>1. QED BY <1>3, AndAhead
<1>6. ReadOr(t, y, r) = ReadOr(t, y, u)
  <2> HIDE DEF y
  <2>1. QED BY <1>2, <1>5
<1>7. QED BY <1>1, <1>4, <1>6 DEF ReadAt

\* The reading of the places from a on
ReadFrom(t, a, r) ==
  /\ r = [i \in a..(Len(t) + 1) |-> ReadAt(t, i, r)]
  /\ \A i \in a..(Len(t) + 1) : AllAhead(r[i], i)

\* There is one, from any place on.
LEMMA ReadFromExists ==
  ASSUME NEW t, Len(t) \in Nat, NEW m \in 0..(Len(t) + 1)
  PROVE  \E r : ReadFrom(t, Len(t) + 2 - m, r)
<1> DEFINE T == {n \in 0..(Len(t) + 1) : ~(\E r : ReadFrom(t, Len(t) + 2 - n, r))}
<1>1. SUFFICES ASSUME T # {} PROVE FALSE
  OBVIOUS
<1>2. PICK n \in T : \A y \in T : n <= y
  <2>1. T \in SUBSET Nat
    OBVIOUS
  <2>2. QED BY <1>1, <2>1, Least
<1>3. n # 0
  <2> DEFINE r == [i \in (Len(t) + 2)..(Len(t) + 1) |-> <<>>]
  <2>1. (Len(t) + 2)..(Len(t) + 1) = {} /\ Len(t) + 2 - 0 = Len(t) + 2
    OBVIOUS
  <2>2. ReadFrom(t, Len(t) + 2, r)
    BY <2>1 DEF ReadFrom
  <2>3. QED BY <2>1, <2>2
<1>4. PICK a \in 1..(Len(t) + 1) : a = Len(t) + 2 - n /\ a + 1 = Len(t) + 2 - (n - 1) /\ n - 1 \in 0..(Len(t) + 1)
  <2>1. n \in 0..(Len(t) + 1) /\ n # 0
    BY <1>3
  <2>2. /\ Len(t) + 2 - n \in 1..(Len(t) + 1) /\ Len(t) + 2 - n + 1 = Len(t) + 2 - (n - 1)
        /\ n - 1 \in 0..(Len(t) + 1)
    BY <2>1
  <2>3. QED BY <2>2
<1>5. n - 1 \notin T
  BY <1>2
<1>6. PICK g : ReadFrom(t, a + 1, g)
  BY <1>4, <1>5
<1> DEFINE f == [i \in a..(Len(t) + 1) |-> ReadAt(t, i, g)]
<1>7. /\ DOMAIN f = a..(Len(t) + 1) /\ f = [i \in a..(Len(t) + 1) |-> f[i]]
      /\ \A i \in a..(Len(t) + 1) : f[i] = ReadAt(t, i, g)
  OBVIOUS
<1> HIDE DEF f
<1>8. \A i \in (a + 1)..(Len(t) + 1) : f[i] = g[i] /\ AllAhead(g[i], i)
  <2>1. \A i \in (a + 1)..(Len(t) + 1) : g[i] = ReadAt(t, i, g) /\ AllAhead(g[i], i)
    BY <1>6 DEF ReadFrom
  <2>2. QED BY <1>7, <2>1
<1>9. ASSUME NEW i \in a..(Len(t) + 1) PROVE f[i] = ReadAt(t, i, f) /\ AllAhead(f[i], i)
  <2>1. i \in Nat /\ \A k \in (i + 1)..(Len(t) + 1) : k \in (a + 1)..(Len(t) + 1)
    OBVIOUS
  <2>2. \A k \in (i + 1)..(Len(t) + 1) : g[k] = f[k] /\ AllAhead(g[k], k)
    BY <1>8, <2>1
  <2>3. ReadAt(t, i, g) = ReadAt(t, i, f)
    BY <2>1, <2>2, ReadAtSame
  <2>4. AllAhead(ReadAt(t, i, g), i)
    BY <2>1, <2>2, ReadAtAhead
  <2>5. QED BY <1>7, <2>3, <2>4
<1>10. ReadFrom(t, a, f)
  BY <1>7, <1>9 DEF ReadFrom
<1>11. QED BY <1>2, <1>4, <1>10

IsReading(t, r) == r = [i \in 1..(Len(t) + 1) |-> ReadAt(t, i, r)]

\* Every text is read.
LEMMA ReadingIs ==
  ASSUME NEW t, Len(t) \in Nat
  PROVE  IsReading(t, Reading(t))
<1> DEFINE S(r) == [i \in 1..(Len(t) + 1) |-> ReadAt(t, i, r)]
           read == CHOOSE r : r = S(r)
<1>1. PICK m \in 0..(Len(t) + 1) : m = Len(t) + 1 /\ Len(t) + 2 - m = 1
  OBVIOUS
<1>2. PICK r : ReadFrom(t, 1, r)
  BY <1>1, ReadFromExists
<1>3. r = S(r)
  BY <1>2 DEF ReadFrom
<1>4. read = S(read)
  <2> HIDE DEF S
  <2>1. QED BY <1>3
<1>5. Reading(t) = read
  BY DEF Reading
<1> HIDE DEF read
<1>6. QED BY <1>4, <1>5 DEF IsReading

\* What is read at a place of a text
LEMMA ReadingAt ==
  ASSUME NEW t, NEW r, IsReading(t, r), NEW i \in 1..(Len(t) + 1)
  PROVE  /\ r[i].not = ReadNot(t, i, r) /\ r[i].and = ReadAnd(t, r[i].not, r)
         /\ r[i].or = ReadOr(t, r[i].and, r)
<1>1. r[i] = ReadAt(t, i, r)
  BY DEF IsReading
<1>2. QED BY <1>1 DEF ReadAt

------------------------------------------------------------------------------
\* What is read of a text that holds the pieces of a condition.

\* What the server reads for the pieces W: t holds them from place i up to e.
Given(x, v) == IF x[1] = "open" THEN Meant(x[2], v) ELSE x
Stands(t, i, W, e, v) ==
  /\ Len(t) \in Nat /\ i \in 1..(Len(t) + 1) /\ e = i + Len(W) /\ e <= Len(t) + 1
  /\ \A k \in 1..Len(W) : t[i + k - 1] = Given(W[k], v)

\* Two lots of pieces stand one after the other.
LEMMA StandsConcat ==
  ASSUME NEW t, NEW i, NEW e, NEW v, NEW W \in Seq(Pieces), NEW V \in Seq(Pieces), Stands(t, i, W \o V, e, v)
  PROVE  \E d : Stands(t, i, W, d, v) /\ Stands(t, d, V, e, v)
<1> DEFINE m == Len(W)
           n == Len(V)
           d == i + m
           U == W \o V
<1>1. /\ m \in Nat /\ n \in Nat /\ Len(U) = m + n
      /\ \A k \in 1..m : U[k] = W[k]
      /\ \A k \in 1..n : U[m + k] = V[k]
  OBVIOUS
<1> HIDE DEF U
<1>2. /\ Len(t) \in Nat /\ i \in 1..(Len(t) + 1) /\ e = i + (m + n) /\ e <= Len(t) + 1
      /\ \A k \in 1..(m + n) : t[i + k - 1] = Given(U[k], v)
  BY <1>1 DEF Stands, U
<1> HIDE DEF m, n
<1>3. \A k \in 1..m : t[i + k - 1] = Given(W[k], v)
  BY <1>1, <1>2, SMTT(40)
<1>4. \A k \in 1..n : t[d + k - 1] = Given(V[k], v)
  <2>1. SUFFICES ASSUME NEW k \in 1..n PROVE t[d + k - 1] = Given(V[k], v)
    OBVIOUS
  <2>2. m + k \in 1..(m + n) /\ i + (m + k) - 1 = d + k - 1
    BY <1>1, <1>2
  <2>3. t[i + (m + k) - 1] = Given(U[m + k], v)
    BY <1>2, <2>2
  <2>4. QED BY <1>1, <2>2, <2>3
<1>5. d \in 1..(Len(t) + 1) /\ e = d + n /\ d <= Len(t) + 1
  BY <1>1, <1>2
<1>6. Stands(t, i, W, d, v) /\ Stands(t, d, V, e, v)
  BY <1>2, <1>3, <1>4, <1>5 DEF Stands, m, n
<1>7. QED BY <1>6

\* One word.
LEMMA StandsWord ==
  ASSUME NEW t, NEW i, NEW e, NEW v, NEW w, Stands(t, i, <<Word(w)>>, e, v)
  PROVE  /\ Len(t) \in Nat /\ i \in 1..Len(t) /\ i \in 1..(Len(t) + 1) /\ i \in Nat
         /\ e = i + 1 /\ At(t, i) = Word(w)
<1>1. Len(<<Word(w)>>) = 1 /\ <<Word(w)>>[1] = Word(w) /\ Given(Word(w), v) = Word(w)
  BY DEF Given, Word
<1>2. /\ Len(t) \in Nat /\ i \in 1..(Len(t) + 1) /\ e = i + 1 /\ e <= Len(t) + 1
      /\ t[i + 1 - 1] = Word(w)
  BY <1>1 DEF Stands
<1>3. QED BY <1>2 DEF At

\* Pieces stand at places of the text.
LEMMA StandsAtPlace ==
  ASSUME NEW t, NEW i, NEW e, NEW v, NEW W, W \in Seq(Pieces), Stands(t, i, W, e, v)
  PROVE  Len(t) \in Nat /\ i \in 1..(Len(t) + 1) /\ i \in Nat /\ e \in Nat /\ (W # <<>> => i <= Len(t))
<1>1. Len(W) \in Nat /\ (W # <<>> => Len(W) # 0)
  OBVIOUS
<1>2. QED BY <1>1 DEF Stands

\* Where a condition ends.
Ends == {<<"end">>, Word(")"), Word("OR"), Word("ORDER BY")}

\* Alone W is read as f, ...
Reads(W, f) ==
  \A t, r, i, e : \A v \in Valuations :
    IsReading(t, r) /\ Stands(t, i, W, e, v) /\ At(t, e) \in Ends
      => r[i].or = ReadOr(t, Done(f[v], e), r)
\* ... and beside an AND.
ReadsNot(W, f) ==
  \A t, r, i, e : \A v \in Valuations :
    IsReading(t, r) /\ Stands(t, i, W, e, v) /\ At(t, e) \in Ends \cup {Word("AND")}
      => r[i].not = Done(f[v], e)

\* A condition ends before an OR, a parenthesis, the ORDER BY or the end.
LEMMA EndsAre ==
  /\ Word("AND") \notin Ends
  /\ Word(")") \in Ends /\ Word("OR") \in Ends /\ <<"end">> \in Ends /\ Word("ORDER BY") \in Ends
  /\ Word(")") # Word("OR") /\ Word(")") # Word("AND") /\ <<"end">> # Word("OR")
  /\ Word("ORDER BY") # Word("OR")
BY DEF Ends, Word

\* Nothing goes on without an AND,
LEMMA NoAnd ==
  ASSUME NEW t, NEW f, NEW e, NEW r, At(t, e) # Word("AND")
  PROVE  ReadAnd(t, Done(f, e), r) = Done(f, e)
BY DoneIs DEF ReadAnd

\* nor without an OR.
LEMMA NoOr ==
  ASSUME NEW t, NEW f, NEW e, NEW r, At(t, e) # Word("OR")
  PROVE  ReadOr(t, Done(f, e), r) = Done(f, e)
BY DoneIs DEF ReadOr

\* What is read beside an AND is read alone.
LEMMA NotReads ==
  ASSUME NEW W \in Seq(Pieces), NEW f, ReadsNot(W, f)
  PROVE  Reads(W, f)
<1>1. SUFFICES ASSUME NEW t, NEW r, NEW i, NEW e, NEW v \in Valuations,
                      IsReading(t, r), Stands(t, i, W, e, v), At(t, e) \in Ends
               PROVE  r[i].or = ReadOr(t, Done(f[v], e), r)
  BY DEF Reads
<1>2. r[i].not = Done(f[v], e)
  BY <1>1 DEF ReadsNot
<1>3. i \in 1..(Len(t) + 1)
  BY <1>1, StandsAtPlace
<1>4. r[i].and = Done(f[v], e)
  <2>1. At(t, e) # Word("AND")
    BY <1>1, EndsAre
  <2>2. r[i].and = ReadAnd(t, Done(f[v], e), r)
    BY <1>1, <1>2, <1>3, ReadingAt
  <2>3. QED BY <2>1, <2>2, NoAnd
<1>5. QED BY <1>1, <1>3, <1>4, ReadingAt

\* Two conditions with AND between
LEMMA AndReads ==
  ASSUME NEW W \in Seq(Pieces), NEW f, ReadsNot(W, f), NEW V \in Seq(Pieces), NEW g, ReadsNot(V, g),
         W # <<>>, V # <<>>
  PROVE  Reads(W \o (<<Word("AND")>> \o V), [v \in Valuations |-> AndOf(f[v], g[v])])
<1> DEFINE h == [v \in Valuations |-> AndOf(f[v], g[v])]
<1>1. SUFFICES ASSUME NEW t, NEW r, NEW i, NEW e, NEW v \in Valuations, IsReading(t, r),
                      Stands(t, i, W \o (<<Word("AND")>> \o V), e, v), At(t, e) \in Ends
               PROVE  r[i].or = ReadOr(t, Done(h[v], e), r)
  BY DEF Reads
<1>2. <<Word("AND")>> \in Seq(Pieces) /\ <<Word("AND")>> \o V \in Seq(Pieces)
  <2>1. Word("AND") \in Pieces
    BY PieceTypes, SqlWordsAre
  <2>2. <<Word("AND")>> \in Seq(Pieces)
    BY <2>1, SinglePiece
  <2>3. QED BY <2>2, TextConcat
<1>3. PICK d : Stands(t, i, W, d, v) /\ Stands(t, d, <<Word("AND")>> \o V, e, v)
  BY <1>1, <1>2, StandsConcat
<1>4. PICK c : Stands(t, d, <<Word("AND")>>, c, v) /\ Stands(t, c, V, e, v)
  BY <1>2, <1>3, StandsConcat
<1>5. At(t, d) = Word("AND") /\ c = d + 1
  BY <1>4, StandsWord
<1>6. r[i].not = Done(f[v], d)
  BY <1>1, <1>3, <1>5 DEF ReadsNot
<1>7. r[c].not = Done(g[v], e)
  BY <1>1, <1>4 DEF ReadsNot
<1>8. i \in 1..(Len(t) + 1) /\ c \in 1..(Len(t) + 1)
  BY <1>3, <1>4, StandsAtPlace
<1>9. r[c].and = Done(g[v], e)
  <2>1. At(t, e) # Word("AND")
    BY <1>1, EndsAre
  <2>2. r[c].and = ReadAnd(t, Done(g[v], e), r)
    BY <1>1, <1>7, <1>8, ReadingAt
  <2>3. QED BY <2>1, <2>2, NoAnd
<1>10. r[i].and = Done(AndOf(f[v], g[v]), e)
  <2>1. r[i].and = ReadAnd(t, Done(f[v], d), r)
    BY <1>1, <1>6, <1>8, ReadingAt
  <2>2. QED BY <2>1, <1>5, <1>9, DoneIs DEF ReadAnd
<1>11. r[i].or = ReadOr(t, Done(AndOf(f[v], g[v]), e), r)
  BY <1>1, <1>8, <1>10, ReadingAt
<1>12. h[v] = AndOf(f[v], g[v])
  OBVIOUS
<1>13. QED BY <1>11, <1>12

\* Parentheses keep what they enclose together.
Enclosed(W) == (Opening \o W) \o Closing

\* A condition in parentheses is read beside anything.
LEMMA EnclosedReads ==
  ASSUME NEW W \in Seq(Pieces), NEW f, Reads(W, f)
  PROVE  ReadsNot(Enclosed(W), f) /\ Enclosed(W) \in Seq(Pieces) /\ Enclosed(W) # <<>>
<1>1. Opening = <<Word("(")>> /\ Closing = <<Word(")")>> /\ Opening \in Seq(Pieces) /\ Closing \in Seq(Pieces)
  BY SqlWordsAre, OneWord, WordPieces DEF Opening, Closing
<1>2. Opening \o W \in Seq(Pieces) /\ Enclosed(W) \in Seq(Pieces) /\ Enclosed(W) # <<>>
  <2>1. Opening \o W \in Seq(Pieces) /\ Len(Opening \o W) = 1 + Len(W) /\ Len(W) \in Nat
    BY <1>1, TextConcat
  <2>2. Enclosed(W) \in Seq(Pieces) /\ Len(Enclosed(W)) = Len(Opening \o W) + 1
    BY <1>1, <2>1, TextConcat DEF Enclosed
  <2>3. Len(<<>>) = 0
    OBVIOUS
  <2>4. QED BY <2>1, <2>2, <2>3
<1>3. ASSUME NEW t, NEW r, NEW i, NEW e, NEW v \in Valuations, IsReading(t, r),
             Stands(t, i, Enclosed(W), e, v), At(t, e) \in Ends \cup {Word("AND")}
      PROVE  r[i].not = Done(f[v], e)
  <2>1. PICK d : Stands(t, i, Opening \o W, d, v) /\ Stands(t, d, <<Word(")")>>, e, v)
    BY <1>1, <1>2, <1>3, StandsConcat DEF Enclosed
  <2>2. PICK c : Stands(t, i, <<Word("(")>>, c, v) /\ Stands(t, c, W, d, v)
    BY <1>1, <2>1, StandsConcat
  <2>3. At(t, d) = Word(")") /\ e = d + 1
    BY <2>1, StandsWord
  <2>4. At(t, i) = Word("(") /\ c = i + 1 /\ i \in 1..(Len(t) + 1)
    BY <2>2, StandsWord
  <2>5. r[c].or = ReadOr(t, Done(f[v], d), r)
    BY <1>3, <2>2, <2>3, EndsAre DEF Reads
  <2>6. r[c].or = Done(f[v], d)
    <3>1. At(t, d) # Word("OR")
      BY <2>3, EndsAre
    <3>2. QED BY <2>5, <3>1, NoOr
  <2>7. r[i].not = ReadNot(t, i, r)
    BY <1>3, <2>4, ReadingAt
  <2>8. Word("NOT") # Word("(")
    BY DEF Word
  <2>9. QED BY <2>3, <2>4, <2>6, <2>7, <2>8, DoneIs DEF ReadNot
<1>4. QED BY <1>2, <1>3 DEF ReadsNot

\* ... and so is its negation.
LEMMA NegationReads ==
  ASSUME NEW W \in Seq(Pieces), NEW f, Reads(W, f)
  PROVE  ReadsNot(Negation(W), [v \in Valuations |-> NotOf(f[v])])
<1> DEFINE h == [v \in Valuations |-> NotOf(f[v])]
<1>1. /\ Opening \in Seq(Pieces) /\ Closing \in Seq(Pieces) /\ <<Word("NOT")>> \in Seq(Pieces)
      /\ Words(<<"NOT", "(">>) = <<Word("NOT")>> \o Opening
  <2>1. <<"NOT">> \in Seq(Vocabulary) \ {<<>>} /\ <<"(">> \in Seq(Vocabulary) \ {<<>>} /\ <<")">> \in Seq(Vocabulary) \ {<<>>}
        /\ Words(<<"NOT">>) = <<Word("NOT")>>
    BY SqlWordsAre, OneWord
  <2>2. Word("NOT") \in Pieces /\ Word("(") \in Pieces
    BY PieceTypes, SqlWordsAre
  <2>3. <<Word("NOT")>> \o <<Word("(")>> = <<Word("NOT"), Word("(")>>
    BY <2>2, TwoPieces
  <2>4. Words(<<"NOT", "(">>) = <<Word("NOT"), Word("(")>>
    BY DEF Words
  <2>5. Opening = <<Word("(")>>
    BY SqlWordsAre, OneWord DEF Opening
  <2>6. Opening \in Seq(Pieces) /\ Closing \in Seq(Pieces) /\ <<Word("NOT")>> \in Seq(Pieces)
    BY <2>1, WordPieces DEF Opening, Closing
  <2>7. QED BY <2>3, <2>4, <2>5, <2>6
<1>2. Negation(W) = <<Word("NOT")>> \o Enclosed(W)
  <2>1. (<<Word("NOT")>> \o Opening) \o W = <<Word("NOT")>> \o (Opening \o W)
    BY <1>1, AssocPieces
  <2>2. Opening \o W \in Seq(Pieces)
    BY <1>1, TextConcat
  <2>3. (<<Word("NOT")>> \o (Opening \o W)) \o Closing = <<Word("NOT")>> \o ((Opening \o W) \o Closing)
    BY <1>1, <2>2, AssocPieces
  <2>4. QED BY <1>1, <2>1, <2>3 DEF Negation, Enclosed
<1>3. ReadsNot(Enclosed(W), f) /\ Enclosed(W) \in Seq(Pieces)
  BY EnclosedReads
<1>4. SUFFICES ASSUME NEW t, NEW r, NEW i, NEW e, NEW v \in Valuations, IsReading(t, r),
                      Stands(t, i, <<Word("NOT")>> \o Enclosed(W), e, v), At(t, e) \in Ends \cup {Word("AND")}
               PROVE  r[i].not = Done(h[v], e)
  BY <1>2 DEF ReadsNot
<1>5. PICK c : Stands(t, i, <<Word("NOT")>>, c, v) /\ Stands(t, c, Enclosed(W), e, v)
  BY <1>1, <1>3, <1>4, StandsConcat
<1>6. At(t, i) = Word("NOT") /\ c = i + 1 /\ i \in 1..(Len(t) + 1)
  BY <1>5, StandsWord
<1>7. r[c].not = Done(f[v], e)
  BY <1>3, <1>4, <1>5 DEF ReadsNot
<1>8. r[i].not = ReadNot(t, i, r)
  BY <1>4, <1>6, ReadingAt
<1>9. Word("NOT") # Word("(") /\ h[v] = NotOf(f[v])
  BY DEF Word
<1>10. QED BY <1>6, <1>7, <1>8, <1>9, DoneIs DEF ReadNot

\* OR is associative, so that it does not matter where its chain is split.
LEMMA OrAssociative ==
  ASSUME NEW f, NEW g, NEW h
  PROVE  OrOf(f, OrOf(g, h)) = OrOf(OrOf(f, g), h)
<1>1. ASSUME NEW row \in Rows
      PROVE  Disjoined(f[row], OrOf(g, h)[row]) = Disjoined(OrOf(f, g)[row], h[row])
  <2>1. OrOf(g, h)[row] = Disjoined(g[row], h[row]) /\ OrOf(f, g)[row] = Disjoined(f[row], g[row])
    BY DEF OrOf
  <2>2. QED BY <2>1 DEF Disjoined
<1> DEFINE x == OrOf(g, h)
           y == OrOf(f, g)
<1>2. \A row \in Rows : Disjoined(f[row], x[row]) = Disjoined(y[row], h[row])
  BY <1>1
<1> HIDE DEF x, y
<1>3. [row \in Rows |-> Disjoined(f[row], x[row])] = [row \in Rows |-> Disjoined(y[row], h[row])]
  BY <1>2
<1>4. OrOf(f, x) = OrOf(y, h)
  BY <1>3 DEF OrOf
<1>5. QED BY <1>4 DEF x, y

\* Two conditions with OR between
LEMMA OrReads ==
  ASSUME NEW W \in Seq(Pieces), NEW f, Reads(W, f), NEW V \in Seq(Pieces), NEW g, Reads(V, g)
  PROVE  Reads(W \o (<<Word("OR")>> \o V), [v \in Valuations |-> OrOf(f[v], g[v])])
<1> DEFINE h == [v \in Valuations |-> OrOf(f[v], g[v])]
<1>1. SUFFICES ASSUME NEW t, NEW r, NEW i, NEW e, NEW v \in Valuations, IsReading(t, r),
                      Stands(t, i, W \o (<<Word("OR")>> \o V), e, v), At(t, e) \in Ends
               PROVE  r[i].or = ReadOr(t, Done(h[v], e), r)
  BY DEF Reads
<1>2. <<Word("OR")>> \in Seq(Pieces) /\ <<Word("OR")>> \o V \in Seq(Pieces)
  <2>1. Word("OR") \in Pieces
    BY PieceTypes, SqlWordsAre
  <2>2. <<Word("OR")>> \in Seq(Pieces)
    BY <2>1, SinglePiece
  <2>3. QED BY <2>2, TextConcat
<1>3. PICK d : Stands(t, i, W, d, v) /\ Stands(t, d, <<Word("OR")>> \o V, e, v)
  BY <1>1, <1>2, StandsConcat
<1>4. PICK c : Stands(t, d, <<Word("OR")>>, c, v) /\ Stands(t, c, V, e, v)
  BY <1>2, <1>3, StandsConcat
<1>5. At(t, d) = Word("OR") /\ c = d + 1
  BY <1>4, StandsWord
<1>6. r[i].or = ReadOr(t, Done(f[v], d), r)
  <2>1. At(t, d) \in Ends
    BY <1>5, EndsAre
  <2>2. QED BY <1>1, <1>3, <2>1 DEF Reads
<1>7. r[c].or = ReadOr(t, Done(g[v], e), r)
  BY <1>1, <1>4 DEF Reads
<1>8. h[v] = OrOf(f[v], g[v])
  OBVIOUS
<1> HIDE DEF h
<1>9. r[i].or = IF r[c].or.ok THEN Done(OrOf(f[v], r[c].or.truth), r[c].or.next) ELSE Failed
  BY <1>5, <1>6, DoneIs DEF ReadOr
<1>10. CASE At(t, e) # Word("OR")
  <2>1. r[c].or = Done(g[v], e)
    BY <1>7, <1>10, NoOr
  <2>2. r[i].or = Done(OrOf(f[v], g[v]), e)
    BY <1>9, <2>1, DoneIs
  <2>3. QED BY <1>8, <1>10, <2>2, NoOr
<1>11. CASE At(t, e) = Word("OR")
  <2> DEFINE z == r[e + 1].or
  <2>1. r[c].or = IF z.ok THEN Done(OrOf(g[v], z.truth), z.next) ELSE Failed
    BY <1>7, <1>11, DoneIs DEF ReadOr
  <2>2. ReadOr(t, Done(h[v], e), r) = IF z.ok THEN Done(OrOf(h[v], z.truth), z.next) ELSE Failed
    BY <1>11, DoneIs DEF ReadOr
  <2> HIDE DEF z
  <2>3. CASE z.ok
    <3>1. r[i].or = Done(OrOf(f[v], OrOf(g[v], z.truth)), z.next)
      BY <1>9, <2>1, <2>3, DoneIs
    <3>2. OrOf(f[v], OrOf(g[v], z.truth)) = OrOf(h[v], z.truth)
      BY <1>8, OrAssociative
    <3>3. QED BY <2>2, <2>3, <3>1, <3>2
  <2>4. CASE ~z.ok
    BY <1>9, <2>1, <2>2, <2>4, FailedIs
  <2>5. QED BY <2>3, <2>4
<1>12. QED BY <1>10, <1>11

------------------------------------------------------------------------------
\* Conditions: pieces that mean what the application meant.

\* Without the words that can begin a clause
Free(V) == \A i \in 1..Len(V) : \A k \in Keywords : V[i] # Word(k)
\* V is a condition that means f.
Means(V, f) == V \in Seq(Pieces) /\ V # <<>> /\ Free(V) /\ Reads(V, f)

\* No keyword is in conditions that are put together.
LEMMA FreeConcat ==
  ASSUME NEW W \in Seq(Pieces), NEW V \in Seq(Pieces), Free(W), Free(V)
  PROVE  Free(W \o V)
<1> DEFINE U == W \o V
<1>1. \A i \in 1..Len(U) : (\E k \in 1..Len(W) : U[i] = W[k]) \/ (\E k \in 1..Len(V) : U[i] = V[k])
  <2>1. SUFFICES ASSUME NEW i \in 1..Len(U) 
                 PROVE  (\E k \in 1..Len(W) : U[i] = W[k]) \/ (\E k \in 1..Len(V) : U[i] = V[k])
    OBVIOUS
  <2>2. Len(W) \in Nat /\ Len(V) \in Nat /\ Len(U) = Len(W) + Len(V)
    OBVIOUS
  <2>3. CASE i <= Len(W)
    BY <2>2, <2>3
  <2>4. CASE i > Len(W)
    <3>1. i - Len(W) \in 1..Len(V)
      BY <2>2, <2>4
    <3>2. U[i] = V[i - Len(W)]
      BY <2>2, <2>4
    <3>3. QED BY <3>1, <3>2
  <2>5. QED BY <2>2, <2>3, <2>4
<1> HIDE DEF U
<1>2. Free(U)
  BY <1>1 DEF Free
<1>3. QED BY <1>2 DEF U

\* A word that is no keyword
LEMMA FreeWord ==
  ASSUME NEW w, w \notin Keywords
  PROVE  Free(<<Word(w)>>)
BY DEF Free, Word

\* The words of the operators
LEMMA SmallWords ==
  /\ Opening = <<Word("(")>> /\ Closing = <<Word(")")>>
  /\ Opening \in Seq(Pieces) /\ Closing \in Seq(Pieces) /\ Free(Opening) /\ Free(Closing)
  /\ \A w \in {"AND", "OR", "NOT"} : /\ <<Word(w)>> \in Seq(Pieces) /\ <<Word(w)>> # <<>>
                                    /\ Free(<<Word(w)>>) /\ Word(w) \in Pieces
  /\ Word("(") \in Pieces /\ Word(")") \in Pieces
<1>1. Opening = <<Word("(")>> /\ Closing = <<Word(")")>>
  BY SqlWordsAre, OneWord DEF Opening, Closing
<1>2. \A w \in {"AND", "OR", "NOT", "(", ")"} : w \in Vocabulary /\ w \notin Keywords
  BY SqlWordsAre DEF Keywords
<1>3. \A w \in {"AND", "OR", "NOT", "(", ")"} : Word(w) \in Pieces
  BY <1>2, PieceTypes
<1>4. \A w \in {"AND", "OR", "NOT", "(", ")"} : <<Word(w)>> \in Seq(Pieces) /\ <<Word(w)>> # <<>>
  BY <1>3, SinglePiece
<1>5. \A w \in {"AND", "OR", "NOT", "(", ")"} : Free(<<Word(w)>>)
  BY <1>2, FreeWord
<1>6. QED BY <1>1, <1>3, <1>4, <1>5

\* A condition in parentheses
LEMMA MeansEnclosed ==
  ASSUME NEW W, NEW f, Means(W, f)
  PROVE  /\ ReadsNot(Enclosed(W), f) /\ Enclosed(W) \in Seq(Pieces) /\ Enclosed(W) # <<>>
         /\ Free(Enclosed(W))
<1>1. W \in Seq(Pieces) /\ Free(W) /\ Reads(W, f)
  BY DEF Means
<1>2. Opening \o W \in Seq(Pieces) /\ Free(Opening \o W)
  BY <1>1, SmallWords, FreeConcat, TextConcat
<1>3. Free(Enclosed(W))
  BY <1>2, SmallWords, FreeConcat DEF Enclosed
<1>4. QED BY <1>1, <1>3, EnclosedReads

\* A negation
LEMMA MeansNegation ==
  ASSUME NEW W, NEW f, Means(W, f)
  PROVE  Means(Negation(W), [v \in Valuations |-> NotOf(f[v])])
<1>1. W \in Seq(Pieces) /\ Free(W) /\ Reads(W, f)
  BY DEF Means
<1> DEFINE N == Words(<<"NOT", "(">>)
<1>2. N \in Seq(Pieces) /\ N # <<>> /\ Free(N)
  <2>1. N = <<Word("NOT"), Word("(")>>
    BY DEF Words
  <2>2. <<Word("NOT")>> \o <<Word("(")>> = <<Word("NOT"), Word("(")>>
    BY SmallWords, TwoPieces
  <2>3. <<Word("NOT")>> \in Seq(Pieces) /\ <<Word("(")>> \in Seq(Pieces)
        /\ Free(<<Word("NOT")>>) /\ Free(<<Word("(")>>)
    BY SmallWords
  <2>4. Free(<<Word("NOT")>> \o <<Word("(")>>) /\ <<Word("NOT")>> \o <<Word("(")>> \in Seq(Pieces)
    BY <2>3, FreeConcat, TextConcat
  <2>5. Free(N) /\ N \in Seq(Pieces)
    BY <2>1, <2>2, <2>4
  <2>6. Len(N) = 2 /\ Len(<<>>) = 0
    BY <2>1
  <2>7. QED BY <2>5, <2>6, SMTT(40)
<1> HIDE DEF N
<1>3. N \o W \in Seq(Pieces) /\ Free(N \o W) /\ Len(N \o W) = Len(N) + Len(W)
  BY <1>1, <1>2, FreeConcat, TextConcat
<1>4. (N \o W) \o Closing \in Seq(Pieces) /\ Free((N \o W) \o Closing)
      /\ Len((N \o W) \o Closing) = Len(N \o W) + Len(Closing)
  BY <1>3, SmallWords, FreeConcat, TextConcat
<1>5. Len(N) \in Nat /\ Len(W) \in Nat /\ Len(Closing) = 1 /\ Len(<<>>) = 0
  BY <1>1, <1>2, SmallWords
<1>6. Negation(W) \in Seq(Pieces) /\ Free(Negation(W)) /\ Negation(W) # <<>>
  BY <1>3, <1>4, <1>5 DEF Negation, N
<1>7. ReadsNot(Negation(W), [v \in Valuations |-> NotOf(f[v])])
  BY <1>1, NegationReads
<1>8. QED BY <1>6, <1>7, NotReads DEF Means

\* Two conditions with AND or OR between them, ...
LEMMA BetweenType ==
  ASSUME NEW W \in Seq(Pieces), NEW V \in Seq(Pieces), Free(W), Free(V), W # <<>>, NEW w \in {"AND", "OR", "NOT"}
  PROVE  /\ W \o (<<Word(w)>> \o V) \in Seq(Pieces) /\ Free(W \o (<<Word(w)>> \o V))
         /\ W \o (<<Word(w)>> \o V) # <<>>
<1>1. <<Word(w)>> \o V \in Seq(Pieces) /\ Free(<<Word(w)>> \o V)
  BY SmallWords, FreeConcat, TextConcat
<1>2. W \o (<<Word(w)>> \o V) \in Seq(Pieces) /\ Free(W \o (<<Word(w)>> \o V))
      /\ Len(W \o (<<Word(w)>> \o V)) = Len(W) + Len(<<Word(w)>> \o V)
  BY <1>1, FreeConcat, TextConcat
<1>3. Len(W) \in Nat /\ Len(W) # 0 /\ Len(<<Word(w)>> \o V) \in Nat /\ Len(<<>>) = 0
  BY <1>1
<1>4. QED BY <1>2, <1>3

\* Two conditions with OR between, as text
LEMMA MeansOr ==
  ASSUME NEW W, NEW f, Means(W, f), NEW V, NEW g, Means(V, g)
  PROVE  Means(W \o (<<Word("OR")>> \o V), [v \in Valuations |-> OrOf(f[v], g[v])])
<1>1. /\ W \in Seq(Pieces) /\ Free(W) /\ Reads(W, f) /\ W # <<>>
      /\ V \in Seq(Pieces) /\ Free(V) /\ Reads(V, g)
  BY DEF Means
<1>2. Reads(W \o (<<Word("OR")>> \o V), [v \in Valuations |-> OrOf(f[v], g[v])])
  BY <1>1, OrReads
<1>3. QED BY <1>1, <1>2, BetweenType DEF Means

\* ... each of them in parentheses.
LEMMA InParenthesesIs ==
  ASSUME NEW W \in Seq(Pieces), NEW V \in Seq(Pieces), NEW w \in {"AND", "OR"}
  PROVE  InParentheses(W, Joint(w), V) = Enclosed(W) \o (<<Word(w)>> \o Enclosed(V))
<1>1. PICK s, o, c :
        s \in Seq(Pieces) /\ o \in Seq(Pieces) /\ c \in Seq(Pieces) /\ s = <<Word(w)>> /\ o = Opening /\ c = Closing
  <2>1. <<Word(w)>> \in Seq(Pieces) /\ Opening \in Seq(Pieces) /\ Closing \in Seq(Pieces)
    BY SmallWords
  <2>2. QED BY <2>1
<1>2. Joint(w) = (c \o s) \o o
  <2>1. (<<Word(")")>> \o <<Word(w)>>) \o <<Word("(")>> = <<Word(")"), Word(w), Word("(")>>
    BY SmallWords, ThreePieces
  <2>2. Joint(w) = <<Word(")"), Word(w), Word("(")>>
    BY DEF Joint, Words
  <2>3. QED BY <1>1, <2>1, <2>2, SmallWords
<1>3. PICK E, D :
        E \in Seq(Pieces) /\ D \in Seq(Pieces) /\ E = o \o W /\ D = o \o V
  <2>1. o \o W \in Seq(Pieces) /\ o \o V \in Seq(Pieces)
    BY <1>1, TextConcat
  <2>2. QED BY <2>1
<1>4. PICK F, G, x :
        F \in Seq(Pieces) /\ G \in Seq(Pieces) /\ x \in Seq(Pieces) /\ F = E \o c /\ G = D \o c /\ x = c \o s
  <2>1. E \o c \in Seq(Pieces) /\ D \o c \in Seq(Pieces) /\ c \o s \in Seq(Pieces)
    BY <1>1, <1>3, TextConcat
  <2>2. QED BY <2>1
<1>5. PICK y, z :
        y \in Seq(Pieces) /\ z \in Seq(Pieces) /\ y = F \o s /\ z = s \o G
  <2>1. F \o s \in Seq(Pieces) /\ s \o G \in Seq(Pieces)
    BY <1>1, <1>4, TextConcat
  <2>2. QED BY <2>1
<1>6. E \o x = y
  <2>1. E \in Seq(Pieces) /\ c \in Seq(Pieces) /\ s \in Seq(Pieces)
    BY <1>1, <1>3
  <2>2. (E \o c) \o s = E \o (c \o s)
    BY <2>1, AssocPieces, SMTT(40)
  <2>3. QED BY <1>4, <1>5, <2>2
<1>7. E \o (x \o o) = y \o o
  <2>1. E \in Seq(Pieces) /\ x \in Seq(Pieces) /\ o \in Seq(Pieces)
    BY <1>1, <1>3, <1>4
  <2>2. (E \o x) \o o = E \o (x \o o)
    BY <2>1, AssocPieces, SMTT(40)
  <2>3. QED BY <1>6, <2>2
<1>8. (y \o o) \o V = y \o D
  <2>1. y \in Seq(Pieces) /\ o \in Seq(Pieces) /\ V \in Seq(Pieces)
    BY <1>1, <1>5
  <2>2. (y \o o) \o V = y \o (o \o V)
    BY <2>1, AssocPieces
  <2>3. QED BY <1>3, <2>2
<1>9. (y \o D) \o c = y \o G
  <2>1. y \in Seq(Pieces) /\ D \in Seq(Pieces) /\ c \in Seq(Pieces)
    BY <1>1, <1>3, <1>5
  <2>2. (y \o D) \o c = y \o (D \o c)
    BY <2>1, AssocPieces, ZenonT(40)
  <2>3. QED BY <1>4, <2>2
<1>10. y \o G = F \o z
  <2>1. F \in Seq(Pieces) /\ s \in Seq(Pieces) /\ G \in Seq(Pieces)
    BY <1>1, <1>4
  <2>2. (F \o s) \o G = F \o (s \o G)
    BY <2>1, AssocPieces, SMTT(40)
  <2>3. QED BY <1>5, <2>2
<1>11. InParentheses(W, Joint(w), V) = ((E \o (x \o o)) \o V) \o c
  BY <1>1, <1>2, <1>3, <1>4 DEF InParentheses
<1>12. Enclosed(W) = F /\ Enclosed(V) = G
  BY <1>1, <1>3, <1>4 DEF Enclosed
<1>13. QED BY <1>1, <1>5, <1>7, <1>8, <1>9, <1>10, <1>11, <1>12

\* Two conditions in parentheses, with AND or OR between
LEMMA MeansBoth ==
  ASSUME NEW W, NEW f, Means(W, f), NEW V, NEW g, Means(V, g)
  PROVE  /\ Means(InParentheses(W, Joint("AND"), V), [v \in Valuations |-> AndOf(f[v], g[v])])
         /\ Means(InParentheses(W, Joint("OR"), V), [v \in Valuations |-> OrOf(f[v], g[v])])
<1> DEFINE E == Enclosed(W)
           D == Enclosed(V)
<1>1. /\ ReadsNot(E, f) /\ E \in Seq(Pieces) /\ E # <<>> /\ Free(E)
      /\ ReadsNot(D, g) /\ D \in Seq(Pieces) /\ D # <<>> /\ Free(D)
  BY MeansEnclosed
<1>2. W \in Seq(Pieces) /\ V \in Seq(Pieces)
  BY DEF Means
<1>3. /\ InParentheses(W, Joint("AND"), V) = E \o (<<Word("AND")>> \o D)
      /\ InParentheses(W, Joint("OR"), V) = E \o (<<Word("OR")>> \o D)
  BY <1>2, InParenthesesIs
<1> HIDE DEF E, D
<1>4. Reads(E \o (<<Word("AND")>> \o D), [v \in Valuations |-> AndOf(f[v], g[v])])
  BY <1>1, AndReads
<1>5. Means(E \o (<<Word("AND")>> \o D), [v \in Valuations |-> AndOf(f[v], g[v])])
  BY <1>1, <1>4, BetweenType DEF Means
<1>6. Means(E, f) /\ Means(D, g)
  BY <1>1, NotReads DEF Means
<1>7. Means(E \o (<<Word("OR")>> \o D), [v \in Valuations |-> OrOf(f[v], g[v])])
  BY <1>6, MeansOr
<1>8. QED BY <1>3, <1>5, <1>7

------------------------------------------------------------------------------
\* What is read of the conditions of one column.

\* How operands are read.
OperandPieces == {Column(c) : c \in Columns} \cup {Open(p) : p \in AllParams} \cup {Word(c) : c \in NativeColumns}

\* The columns that native text names
LEMMA NativeColumnsAre ==
  /\ \A c \in NativeColumns : c \in Columns /\ c \in Vocabulary /\ c \notin SqlWords /\ c \notin Keywords
  /\ OperandPieces \subseteq Pieces
<1>1. \A c \in NativeColumns : c \in Columns /\ c \notin SqlWords /\ c \notin Keywords
  BY QueriesAssumption
<1>2. \A c \in Columns : c \in Vocabulary
  BY DEF Vocabulary
<1>3. QED BY <1>1, <1>2, PieceTypes DEF OperandPieces

\* An operand is read as one.
LEMMA OperandGiven ==
  ASSUME NEW x \in OperandPieces, NEW v
  PROVE  /\ IsOperand(Given(x, v)) /\ \A w \in SqlWords : Given(x, v) # Word(w)
         /\ \A c \in Columns : x = Column(c) => Given(x, v) = Column(c) /\ AsOperand(Given(x, v)) = Column(c)
         /\ \A p \in AllParams : x = Open(p) => Given(x, v) = Meant(p, v) /\ AsOperand(Given(x, v)) = Meant(p, v)
         /\ \A c \in NativeColumns : x = Word(c) => AsOperand(Given(x, v)) = Column(c)
<1>1. CASE \E c \in Columns : x = Column(c)
  BY <1>1 DEF Given, Column, IsOperand, AsOperand, Word, Open
<1>2. CASE \E p \in AllParams : x = Open(p)
  BY <1>2 DEF Given, Open, Meant, IsOperand, AsOperand, Word, Column
<1>3. CASE \E c \in NativeColumns : x = Word(c)
  BY <1>3, NativeColumnsAre DEF Given, Word, IsOperand, AsOperand, Column, Open
<1>4. QED BY <1>1, <1>2, <1>3 DEF OperandPieces

\* A word is read as it is.
LEMMA WordGiven ==
  \A w, v : Given(Word(w), v) = Word(w)
BY DEF Given, Word

\* Two pieces, three and five, in the text
LEMMA StandsTwo ==
  ASSUME NEW t, NEW i, NEW e, NEW v, NEW a, NEW b, Stands(t, i, <<a, b>>, e, v)
  PROVE  /\ Len(t) \in Nat /\ i \in Nat /\ i \in 1..(Len(t) + 1) /\ e = i + 2
         /\ At(t, i) = Given(a, v) /\ t[i] = Given(a, v) /\ At(t, i + 1) = Given(b, v)
<1>1. Len(<<a, b>>) = 2 /\ <<a, b>>[1] = a /\ <<a, b>>[2] = b
  OBVIOUS
<1>2. /\ Len(t) \in Nat /\ i \in 1..(Len(t) + 1) /\ e = i + 2 /\ e <= Len(t) + 1
      /\ t[i + 1 - 1] = Given(a, v) /\ t[i + 2 - 1] = Given(b, v)
  BY <1>1 DEF Stands
<1>3. QED BY <1>2 DEF At

\* Three pieces in the text
LEMMA StandsThree ==
  ASSUME NEW t, NEW i, NEW e, NEW v, NEW a, NEW b, NEW c, Stands(t, i, <<a, b, c>>, e, v)
  PROVE  /\ Len(t) \in Nat /\ i \in Nat /\ i \in 1..(Len(t) + 1) /\ e = i + 3
         /\ At(t, i) = Given(a, v) /\ t[i] = Given(a, v) /\ At(t, i + 1) = Given(b, v)
         /\ At(t, i + 2) = Given(c, v) /\ t[i + 2] = Given(c, v)
<1>1. Len(<<a, b, c>>) = 3 /\ <<a, b, c>>[1] = a /\ <<a, b, c>>[2] = b /\ <<a, b, c>>[3] = c
  OBVIOUS
<1>2. /\ Len(t) \in Nat /\ i \in 1..(Len(t) + 1) /\ e = i + 3 /\ e <= Len(t) + 1
      /\ t[i + 1 - 1] = Given(a, v) /\ t[i + 2 - 1] = Given(b, v) /\ t[i + 3 - 1] = Given(c, v)
  BY <1>1 DEF Stands
<1>3. i + 1 - 1 = i /\ i + 2 - 1 = i + 1 /\ i + 3 - 1 = i + 2 /\ i \in Nat /\ i <= Len(t) /\ i + 1 <= Len(t)
      /\ i + 2 <= Len(t)
  BY <1>2
<1>4. QED BY <1>2, <1>3 DEF At

\* Five pieces in the text
LEMMA StandsFive ==
  ASSUME NEW t, NEW i, NEW e, NEW v, NEW a, NEW b, NEW c, NEW d, NEW g, Stands(t, i, <<a, b, c, d, g>>, e, v)
  PROVE  /\ Len(t) \in Nat /\ i \in Nat /\ i \in 1..(Len(t) + 1) /\ e = i + 5
         /\ At(t, i) = Given(a, v) /\ t[i] = Given(a, v) /\ At(t, i + 1) = Given(b, v)
         /\ At(t, i + 2) = Given(c, v) /\ t[i + 2] = Given(c, v)
         /\ At(t, i + 3) = Given(d, v) /\ At(t, i + 4) = Given(g, v) /\ t[i + 4] = Given(g, v)
<1> DEFINE s == <<a, b, c, d, g>>
<1>1. Len(s) = 5 /\ s[1] = a /\ s[2] = b /\ s[3] = c /\ s[4] = d /\ s[5] = g
  OBVIOUS
<1> HIDE DEF s
<1>2. Stands(t, i, s, e, v)
  BY DEF s
<1>3. /\ Len(t) \in Nat /\ i \in 1..(Len(t) + 1) /\ e = i + 5 /\ e <= Len(t) + 1
      /\ t[i + 1 - 1] = Given(a, v) /\ t[i + 2 - 1] = Given(b, v) /\ t[i + 3 - 1] = Given(c, v)
      /\ t[i + 4 - 1] = Given(d, v) /\ t[i + 5 - 1] = Given(g, v)
  BY <1>1, <1>2 DEF Stands
<1>4. i + 1 - 1 = i /\ i + 2 - 1 = i + 1 /\ i + 3 - 1 = i + 2 /\ i + 4 - 1 = i + 3 /\ i + 5 - 1 = i + 4
      /\ i \in Nat /\ i <= Len(t) /\ i + 1 <= Len(t) /\ i + 2 <= Len(t) /\ i + 3 <= Len(t) /\ i + 4 <= Len(t)
  BY <1>3
<1>5. QED BY <1>3, <1>4 DEF At

\* An operand begins a predicate.
LEMMA PredicateIs ==
  ASSUME NEW t, NEW r, IsReading(t, r), Len(t) \in Nat, NEW i, i \in 1..(Len(t) + 1), NEW x \in OperandPieces, NEW v,
         At(t, i) = Given(x, v)
  PROVE  r[i].not = ReadPredicate(t, i)
<1>1. r[i].not = ReadNot(t, i, r)
  BY ReadingAt
<1>2. /\ IsOperand(At(t, i)) /\ At(t, i) # Word("NOT") /\ At(t, i) # Word("(")
      /\ At(t, i) # Word("1 = 1") /\ At(t, i) # Word("1 = 0")
  <2>1. {"NOT", "(", "1 = 1", "1 = 0"} \subseteq SqlWords
    BY SqlWordsAre
  <2>2. QED BY <2>1, OperandGiven
<1>3. ReadNot(t, i, r) = ReadAtom(t, i)
  BY <1>2 DEF ReadNot
<1>4. ReadAtom(t, i) = ReadPredicate(t, i)
  BY <1>2 DEF ReadAtom
<1>5. QED BY <1>1, <1>3, <1>4

\* Words that follow an operand
LEMMA AfterOperand ==
  ASSUME NEW t, NEW i
  PROVE  /\ At(t, i + 1) = Word("IS NULL") => ReadPredicate(t, i) = Done(NullTruth(AsOperand(t[i])), i + 2)
         /\ At(t, i + 1) = Word("IS NOT NULL") =>
              ReadPredicate(t, i) = Done(NotOf(NullTruth(AsOperand(t[i]))), i + 2)
         /\ At(t, i + 1) = Word("IN") /\ At(t, i + 2) = Word("(") => ReadPredicate(t, i) = ReadIn(t, i)
         /\ At(t, i + 1) = Word("LIKE") /\ IsOperand(At(t, i + 2)) => ReadPredicate(t, i) = ReadLike(t, i)
         /\ \A op \in Comparisons :
              At(t, i + 1) = Word(op) /\ IsOperand(At(t, i + 2)) =>
                ReadPredicate(t, i) = Done(ComparisonTruth(op, AsOperand(t[i]), AsOperand(t[i + 2])), i + 3)
<1>1. /\ Word("IS NULL") # Word("IS NOT NULL") /\ Word("IS NULL") # Word("IN") /\ Word("IS NULL") # Word("LIKE")
      /\ Word("IS NOT NULL") # Word("IN") /\ Word("IS NOT NULL") # Word("LIKE") /\ Word("IN") # Word("LIKE")
  BY DEF Word
<1>2. \A w : Word(w)[1] = "word" /\ Word(w)[2] = w
  BY DEF Word
<1>3. \A op \in Comparisons : /\ Word(op) # Word("IS NULL") /\ Word(op) # Word("IS NOT NULL")
                             /\ Word(op) # Word("IN") /\ Word(op) # Word("LIKE")
  BY DEF Word, Comparisons
<1>4. \A w \in {"IS NULL", "IS NOT NULL", "IN", "LIKE"} : w \notin Comparisons
  BY DEF Comparisons
<1> HIDE DEF Word
<1>5. CASE At(t, i + 1) = Word("IS NULL")
  BY <1>1, <1>2, <1>3, <1>4, <1>5 DEF ReadPredicate
<1>6. CASE At(t, i + 1) = Word("IS NOT NULL")
  BY <1>1, <1>2, <1>3, <1>4, <1>6 DEF ReadPredicate
<1>7. CASE At(t, i + 1) = Word("IN")
  BY <1>1, <1>2, <1>3, <1>4, <1>7 DEF ReadPredicate
<1>8. CASE At(t, i + 1) = Word("LIKE")
  BY <1>1, <1>2, <1>3, <1>4, <1>8 DEF ReadPredicate
<1>9. ASSUME NEW op \in Comparisons, At(t, i + 1) = Word(op), IsOperand(At(t, i + 2))
      PROVE  ReadPredicate(t, i) = Done(ComparisonTruth(op, AsOperand(t[i]), AsOperand(t[i + 2])), i + 3)
  BY <1>2, <1>3, <1>9 DEF ReadPredicate
<1>10. QED BY <1>1, <1>3, <1>5, <1>6, <1>7, <1>8, <1>9

\* A comparison is read as one.
LEMMA ComparisonReads ==
  ASSUME NEW x \in OperandPieces, NEW op \in Comparisons, NEW y \in OperandPieces
  PROVE  ReadsNot(<<x, Word(op), y>>,
                  [v \in Valuations |-> ComparisonTruth(op, AsOperand(Given(x, v)), AsOperand(Given(y, v)))])
<1> DEFINE f == [v \in Valuations |-> ComparisonTruth(op, AsOperand(Given(x, v)), AsOperand(Given(y, v)))]
<1>1. SUFFICES ASSUME NEW t, NEW r, NEW i, NEW e, NEW v \in Valuations, IsReading(t, r),
                      Stands(t, i, <<x, Word(op), y>>, e, v)
               PROVE  r[i].not = Done(f[v], e)
  BY DEF ReadsNot
<1>2. /\ Len(t) \in Nat /\ i \in Nat /\ i \in 1..(Len(t) + 1) /\ e = i + 3
      /\ At(t, i) = Given(x, v) /\ t[i] = Given(x, v) /\ At(t, i + 1) = Word(op)
      /\ At(t, i + 2) = Given(y, v) /\ t[i + 2] = Given(y, v)
  BY <1>1, StandsThree, WordGiven
<1>3. r[i].not = ReadPredicate(t, i)
  BY <1>1, <1>2, PredicateIs
<1>4. IsOperand(At(t, i + 2))
  BY <1>2, OperandGiven
<1>5. ReadPredicate(t, i) = Done(ComparisonTruth(op, AsOperand(t[i]), AsOperand(t[i + 2])), i + 3)
  BY <1>2, <1>4, AfterOperand
<1>6. f[v] = ComparisonTruth(op, AsOperand(Given(x, v)), AsOperand(Given(y, v)))
  OBVIOUS
<1>7. QED BY <1>2, <1>3, <1>5, <1>6

\* A test for NULL
LEMMA NullReads ==
  ASSUME NEW x \in OperandPieces
  PROVE  /\ ReadsNot(<<x, Word("IS NULL")>>, [v \in Valuations |-> NullTruth(AsOperand(Given(x, v)))])
         /\ ReadsNot(<<x, Word("IS NOT NULL")>>, [v \in Valuations |-> NotOf(NullTruth(AsOperand(Given(x, v))))])
<1> DEFINE f == [v \in Valuations |-> NullTruth(AsOperand(Given(x, v)))]
           g == [v \in Valuations |-> NotOf(NullTruth(AsOperand(Given(x, v))))]
<1>1. \A v \in Valuations : f[v] = NullTruth(AsOperand(Given(x, v))) /\ g[v] = NotOf(NullTruth(AsOperand(Given(x, v))))
  OBVIOUS
<1> HIDE DEF f, g
<1>2. ASSUME NEW t, NEW r, NEW i, NEW e, NEW v \in Valuations, NEW w, IsReading(t, r), Stands(t, i, <<x, Word(w)>>, e, v)
      PROVE  r[i].not = ReadPredicate(t, i) /\ t[i] = Given(x, v) /\ At(t, i + 1) = Word(w) /\ e = i + 2
  <2>1. /\ Len(t) \in Nat /\ i \in Nat /\ i \in 1..(Len(t) + 1) /\ e = i + 2
        /\ At(t, i) = Given(x, v) /\ t[i] = Given(x, v) /\ At(t, i + 1) = Word(w)
    BY <1>2, StandsTwo, WordGiven
  <2>2. QED BY <1>2, <2>1, PredicateIs
<1>3. ReadsNot(<<x, Word("IS NULL")>>, f)
  <2>1. SUFFICES ASSUME NEW t, NEW r, NEW i, NEW e, NEW v \in Valuations, IsReading(t, r),
                        Stands(t, i, <<x, Word("IS NULL")>>, e, v)
                 PROVE  r[i].not = Done(f[v], e)
    BY DEF ReadsNot
  <2>2. r[i].not = ReadPredicate(t, i) /\ t[i] = Given(x, v) /\ At(t, i + 1) = Word("IS NULL") /\ e = i + 2
    BY <1>2, <2>1
  <2>3. ReadPredicate(t, i) = Done(NullTruth(AsOperand(t[i])), i + 2)
    BY <2>2, AfterOperand
  <2>4. QED BY <1>1, <2>2, <2>3
<1>4. ReadsNot(<<x, Word("IS NOT NULL")>>, g)
  <2>1. SUFFICES ASSUME NEW t, NEW r, NEW i, NEW e, NEW v \in Valuations, IsReading(t, r),
                        Stands(t, i, <<x, Word("IS NOT NULL")>>, e, v)
                 PROVE  r[i].not = Done(g[v], e)
    BY DEF ReadsNot
  <2>2. r[i].not = ReadPredicate(t, i) /\ t[i] = Given(x, v) /\ At(t, i + 1) = Word("IS NOT NULL") /\ e = i + 2
    BY <1>2, <2>1
  <2>3. ReadPredicate(t, i) = Done(NotOf(NullTruth(AsOperand(t[i]))), i + 2)
    BY <2>2, AfterOperand
  <2>4. QED BY <1>1, <2>2, <2>3
<1>5. QED BY <1>3, <1>4 DEF f, g

\* LIKE
LEMMA LikeReads ==
  ASSUME NEW x \in OperandPieces, NEW p \in AllParams
  PROVE  ReadsNot(<<x, Word("LIKE"), Open(p)>>,
                  [v \in Valuations |-> LikeTruth(AsOperand(Given(x, v)), Meant(p, v), <<>>)])
<1> DEFINE f == [v \in Valuations |-> LikeTruth(AsOperand(Given(x, v)), Meant(p, v), <<>>)]
<1>1. SUFFICES ASSUME NEW t, NEW r, NEW i, NEW e, NEW v \in Valuations, IsReading(t, r),
                      Stands(t, i, <<x, Word("LIKE"), Open(p)>>, e, v), At(t, e) \in Ends \cup {Word("AND")}
               PROVE  r[i].not = Done(f[v], e)
  BY DEF ReadsNot
<1>2. Open(p) \in OperandPieces /\ Given(Open(p), v) = Meant(p, v)
  BY DEF OperandPieces, Given, Open
<1>3. /\ Len(t) \in Nat /\ i \in Nat /\ i \in 1..(Len(t) + 1) /\ e = i + 3
      /\ At(t, i) = Given(x, v) /\ t[i] = Given(x, v) /\ At(t, i + 1) = Word("LIKE")
      /\ At(t, i + 2) = Given(Open(p), v) /\ t[i + 2] = Given(Open(p), v)
  BY <1>1, StandsThree, WordGiven
<1>4. r[i].not = ReadPredicate(t, i)
  BY <1>1, <1>3, PredicateIs
<1>5. IsOperand(At(t, i + 2))
  BY <1>2, <1>3, OperandGiven
<1>6. ReadPredicate(t, i) = ReadLike(t, i)
  BY <1>3, <1>5, AfterOperand
<1>7. At(t, i + 3) # Word("ESCAPE")
  <2>1. Word("ESCAPE") \notin Ends \cup {Word("AND")}
    BY DEF Ends, Word
  <2>2. QED BY <1>1, <1>3, <2>1
<1>8. ReadLike(t, i) = Done(LikeTruth(AsOperand(t[i]), t[i + 2], <<>>), i + 3)
  BY <1>7 DEF ReadLike
<1>9. f[v] = LikeTruth(AsOperand(Given(x, v)), Meant(p, v), <<>>)
  OBVIOUS
<1>10. QED BY <1>2, <1>3, <1>4, <1>6, <1>8, <1>9

\* LIKE with an escape character
LEMMA EscapeReads ==
  ASSUME NEW x \in OperandPieces, NEW p \in AllParams, NEW q \in AllParams
  PROVE  ReadsNot(<<x, Word("LIKE"), Open(p), Word("ESCAPE"), Open(q)>>,
                  [v \in Valuations |-> LikeTruth(AsOperand(Given(x, v)), Meant(p, v), <<Meant(q, v)>>)])
<1> DEFINE f == [v \in Valuations |-> LikeTruth(AsOperand(Given(x, v)), Meant(p, v), <<Meant(q, v)>>)]
<1>1. SUFFICES ASSUME NEW t, NEW r, NEW i, NEW e, NEW v \in Valuations, IsReading(t, r),
                      Stands(t, i, <<x, Word("LIKE"), Open(p), Word("ESCAPE"), Open(q)>>, e, v)
               PROVE  r[i].not = Done(f[v], e)
  BY DEF ReadsNot
<1>2. \A y \in AllParams : Open(y) \in OperandPieces /\ Given(Open(y), v) = Meant(y, v)
  BY DEF OperandPieces, Given, Open
<1>3. /\ Len(t) \in Nat /\ i \in Nat /\ i \in 1..(Len(t) + 1) /\ e = i + 5
      /\ At(t, i) = Given(x, v) /\ t[i] = Given(x, v) /\ At(t, i + 1) = Word("LIKE")
      /\ At(t, i + 2) = Given(Open(p), v) /\ t[i + 2] = Given(Open(p), v)
      /\ At(t, i + 3) = Word("ESCAPE") /\ At(t, i + 4) = Given(Open(q), v) /\ t[i + 4] = Given(Open(q), v)
  BY <1>1, StandsFive, WordGiven
<1>4. r[i].not = ReadPredicate(t, i)
  BY <1>1, <1>3, PredicateIs
<1>5. IsOperand(At(t, i + 2)) /\ IsOperand(At(t, i + 4))
  BY <1>2, <1>3, OperandGiven
<1>6. ReadPredicate(t, i) = ReadLike(t, i)
  BY <1>3, <1>5, AfterOperand
<1>7. ReadLike(t, i) = Done(LikeTruth(AsOperand(t[i]), t[i + 2], <<t[i + 4]>>), i + 5)
  BY <1>3, <1>5 DEF ReadLike
<1>8. f[v] = LikeTruth(AsOperand(Given(x, v)), Meant(p, v), <<Meant(q, v)>>)
  OBVIOUS
<1>9. QED BY <1>2, <1>3, <1>4, <1>6, <1>7, <1>8

\* 1 = 1 and 1 = 0
LEMMA LiteralReads ==
  ASSUME NEW b \in BOOLEAN
  PROVE  ReadsNot(<<Word(IF b THEN "1 = 1" ELSE "1 = 0")>>, [v \in Valuations |-> Always(b)])
<1> DEFINE w == IF b THEN "1 = 1" ELSE "1 = 0"
<1>1. SUFFICES ASSUME NEW t, NEW r, NEW i, NEW e, NEW v \in Valuations, IsReading(t, r), Stands(t, i, <<Word(w)>>, e, v)
               PROVE  r[i].not = Done(Always(b), e)
  BY DEF ReadsNot
<1>2. i \in 1..(Len(t) + 1) /\ e = i + 1 /\ At(t, i) = Word(w)
  BY <1>1, StandsWord
<1>3. r[i].not = ReadNot(t, i, r)
  BY <1>1, <1>2, ReadingAt
<1>4. Word(w) # Word("NOT") /\ Word(w) # Word("(") /\ Word("1 = 1") # Word("1 = 0")
  BY DEF Word
<1>5. ReadNot(t, i, r) = ReadAtom(t, i)
  BY <1>2, <1>4 DEF ReadNot
<1>6. ReadAtom(t, i) = Done(Always(b), i + 1)
  BY <1>2, <1>4 DEF ReadAtom
<1>7. QED BY <1>2, <1>3, <1>5, <1>6

\* The text of an in() with n values, from place i on
InText(t, i, c, ps, n, v) ==
  /\ At(t, i) = Column(c) /\ t[i] = Column(c)
  /\ At(t, i + 1) = Word("IN") /\ At(t, i + 2) = Word("(")
  /\ \A k \in 1..n : At(t, i + 1 + 2 * k) = Meant(ps[k], v) /\ t[i + 1 + 2 * k] = Meant(ps[k], v)
  /\ \A k \in 1..(n - 1) : At(t, i + 2 + 2 * k) = Word(",")
  /\ At(t, i + 2 + 2 * n) = Word(")")

\* in() stands in the text as it was built.
LEMMA InStands ==
  ASSUME NEW t, NEW i, NEW e, NEW v, NEW c \in Columns, NEW ps \in Seq(AllParams), ps # <<>>,
         NEW W, Stands(t, i, W, e, v), IsInPieces(W, c, ps)
  PROVE  /\ InText(t, i, c, ps, Len(ps), v) /\ Len(t) \in Nat /\ i \in Nat /\ i \in 1..(Len(t) + 1)
         /\ e = i + 3 + 2 * Len(ps) /\ Len(ps) \in 1..Len(t)
<1>1. PICK V \in Seq(Pieces) : IsInHead(V, c, ps, Len(ps)) /\ W = V \o <<Word(")")>>
  BY DEF IsInPieces
<1>2. PICK n \in Nat : n = Len(ps) /\ n # 0
  OBVIOUS
<1>3. Word(")") \in Pieces
  BY SmallWords
<1>4. Len(V) = 2 * n + 2 /\ IsInHead(V, c, ps, n)
  BY <1>1, <1>2 DEF IsInHead
<1>5. /\ Len(W) = 2 * n + 3
      /\ \A k \in 1..(2 * n + 2) : W[k] = V[k]
      /\ W[2 * n + 3] = Word(")")
  <2>1. V \in Seq(Pieces) /\ <<Word(")")>> \in Seq(Pieces) /\ Len(<<Word(")")>>) = 1 /\ <<Word(")")>>[1] = Word(")")
    BY <1>3, SinglePiece
  <2>2. /\ Len(W) = Len(V) + 1
        /\ \A k \in 1..Len(V) : W[k] = V[k]
        /\ W[Len(V) + 1] = Word(")")
    BY <1>1, <2>1
  <2>3. Len(V) + 1 = 2 * n + 3
    BY <1>4
  <2>4. QED BY <1>4, <2>2, <2>3
<1>6. /\ \A p : Given(Open(p), v) = Meant(p, v)
      /\ Given(Column(c), v) = Column(c)
      /\ \A w : Given(Word(w), v) = Word(w)
  BY DEF Given, Open, Column, Word
<1>7. /\ W[1] = Column(c) /\ W[2] = Word("IN") /\ W[3] = Word("(")
      /\ \A k \in 1..n : W[2 * k + 2] = Open(ps[k])
      /\ \A k \in 1..(n - 1) : W[2 * k + 3] = Word(",")
  <2>1. \A k \in 1..n : 2 * k + 2 \in 1..(2 * n + 2)
    OBVIOUS
  <2>2. \A k \in 1..(n - 1) : 2 * k + 3 \in 1..(2 * n + 2)
    OBVIOUS
  <2>3. 1 \in 1..(2 * n + 2) /\ 2 \in 1..(2 * n + 2) /\ 3 \in 1..(2 * n + 2)
    BY <1>2
  <2>4. QED BY <1>4, <1>5, <2>1, <2>2, <2>3 DEF IsInHead
<1>8. /\ Len(t) \in Nat /\ i \in 1..(Len(t) + 1) /\ e = i + (2 * n + 3) /\ e <= Len(t) + 1
      /\ \A k \in 1..(2 * n + 3) : t[i + k - 1] = Given(W[k], v)
  BY <1>5 DEF Stands
<1>9. \A k \in 1..(2 * n + 3) : At(t, i + k - 1) = t[i + k - 1]
  BY <1>8 DEF At
<1>10. \A k \in 1..(2 * n + 3) : At(t, i + k - 1) = Given(W[k], v) /\ t[i + k - 1] = Given(W[k], v)
  BY <1>8, <1>9
<1>11. /\ At(t, i) = Column(c) /\ t[i] = Column(c)
       /\ At(t, i + 1) = Word("IN") /\ At(t, i + 2) = Word("(") /\ At(t, i + 2 + 2 * n) = Word(")")
  <2>1. /\ 1 \in 1..(2 * n + 3) /\ 2 \in 1..(2 * n + 3) /\ 3 \in 1..(2 * n + 3) /\ 2 * n + 3 \in 1..(2 * n + 3)
        /\ i + 1 - 1 = i /\ i + 2 - 1 = i + 1 /\ i + 3 - 1 = i + 2 /\ i + (2 * n + 3) - 1 = i + 2 + 2 * n
    BY <1>8
  <2>2. /\ At(t, i + 1 - 1) = Given(W[1], v) /\ t[i + 1 - 1] = Given(W[1], v)
        /\ At(t, i + 2 - 1) = Given(W[2], v) /\ At(t, i + 3 - 1) = Given(W[3], v)
        /\ At(t, i + (2 * n + 3) - 1) = Given(W[2 * n + 3], v)
    BY <1>10, <2>1
  <2>3. /\ At(t, i) = Given(W[1], v) /\ t[i] = Given(W[1], v)
        /\ At(t, i + 1) = Given(W[2], v) /\ At(t, i + 2) = Given(W[3], v)
        /\ At(t, i + 2 + 2 * n) = Given(W[2 * n + 3], v)
    BY <2>1, <2>2
  <2>4. QED BY <1>5, <1>6, <1>7, <2>3
<1>12. ASSUME NEW k \in 1..n
       PROVE  At(t, i + 1 + 2 * k) = Meant(ps[k], v) /\ t[i + 1 + 2 * k] = Meant(ps[k], v)
  <2>1. 2 * k + 2 \in 1..(2 * n + 3) /\ i + (2 * k + 2) - 1 = i + 1 + 2 * k
    BY <1>8
  <2>2. W[2 * k + 2] = Open(ps[k])
    BY <1>7
  <2>3. At(t, i + (2 * k + 2) - 1) = Given(W[2 * k + 2], v) /\ t[i + (2 * k + 2) - 1] = Given(W[2 * k + 2], v)
    BY <1>10, <2>1
  <2>4. QED BY <1>6, <2>1, <2>2, <2>3
<1>13. ASSUME NEW k \in 1..(n - 1)
       PROVE  At(t, i + 2 + 2 * k) = Word(",")
  <2>1. 2 * k + 3 \in 1..(2 * n + 3) /\ i + (2 * k + 3) - 1 = i + 2 + 2 * k
    BY <1>8
  <2>2. W[2 * k + 3] = Word(",")
    BY <1>7
  <2>3. At(t, i + (2 * k + 3) - 1) = Given(W[2 * k + 3], v)
    BY <1>10, <2>1
  <2>4. QED BY <1>6, <2>1, <2>2, <2>3
<1>14. InText(t, i, c, ps, n, v)
  BY <1>11, <1>12, <1>13 DEF InText
<1>15. i \in Nat /\ e = i + 3 + 2 * n /\ n \in 1..Len(t)
  BY <1>2, <1>8
<1>16. QED BY <1>2, <1>8, <1>14, <1>15

\* It is a list of that many values and no other.
LEMMA InTextIs ==
  ASSUME NEW t, NEW i \in Nat, NEW v, NEW c \in Columns, NEW n \in Nat, n # 0, NEW ps, \A k \in 1..n : ps[k] \in AllParams,
         InText(t, i, c, ps, n, v), NEW m \in Nat, m # 0
  PROVE  IsList(t, i + 3, m) <=> m = n
<1>1. /\ Word(",") # Word(")")
      /\ \A p : Meant(p, v) # Word(",") /\ Meant(p, v) # Word(")") /\ IsOperand(Meant(p, v))
  BY DEF Word, Meant, IsOperand
<1>2. /\ \A k \in 1..n : At(t, i + 1 + 2 * k) = Meant(ps[k], v)
      /\ \A k \in 1..(n - 1) : At(t, i + 2 + 2 * k) = Word(",")
      /\ At(t, i + 2 + 2 * n) = Word(")")
  BY DEF InText
<1>3. \A k \in Nat : i + 3 + 2 * k - 2 = i + 1 + 2 * k /\ i + 3 + 2 * k - 1 = i + 2 + 2 * k
  OBVIOUS
<1>4. IsList(t, i + 3, n)
  <2>1. \A k \in 1..n : IsOperand(At(t, i + 3 + 2 * k - 2))
    <3>1. \A k \in 1..n : At(t, i + 3 + 2 * k - 2) = At(t, i + 1 + 2 * k)
      BY <1>3
    <3>2. QED BY <1>1, <1>2, <3>1
  <2>2. \A k \in 1..(n - 1) : At(t, i + 3 + 2 * k - 1) = Word(",")
    <3>1. \A k \in 1..(n - 1) : At(t, i + 3 + 2 * k - 1) = At(t, i + 2 + 2 * k)
      BY <1>3
    <3>2. QED BY <1>2, <3>1
  <2>3. At(t, i + 3 + 2 * n - 1) = Word(")")
    BY <1>2, <1>3
  <2>4. QED BY <2>1, <2>2, <2>3 DEF IsList
<1>5. ASSUME IsList(t, i + 3, m), m < n PROVE FALSE
  <2>1. At(t, i + 2 + 2 * m) = Word(")")
    BY <1>3, <1>5 DEF IsList
  <2>2. m \in 1..(n - 1)
    BY <1>5
  <2>3. QED BY <1>1, <1>2, <2>1, <2>2
<1>6. ASSUME IsList(t, i + 3, m), n < m PROVE FALSE
  <2>1. n \in 1..(m - 1)
    BY <1>6
  <2>2. At(t, i + 3 + 2 * n - 1) = Word(",")
    BY <1>6, <2>1 DEF IsList
  <2>3. QED BY <1>1, <1>2, <1>3, <2>2
<1>7. QED BY <1>4, <1>5, <1>6

\* in() is read as one.
LEMMA InReads ==
  ASSUME NEW c \in Columns, NEW ps \in Seq(AllParams), ps # <<>>, NEW W, IsInPieces(W, c, ps)
  PROVE  ReadsNot(W, [v \in Valuations |-> InTruth(Column(c), [i \in DOMAIN ps |-> Meant(ps[i], v)])])
<1> DEFINE f == [v \in Valuations |-> InTruth(Column(c), [i \in DOMAIN ps |-> Meant(ps[i], v)])]
<1>1. SUFFICES ASSUME NEW t, NEW r, NEW i, NEW e, NEW v \in Valuations, IsReading(t, r), Stands(t, i, W, e, v)
               PROVE  r[i].not = Done(f[v], e)
  BY DEF ReadsNot
<1>2. PICK n \in Nat : n = Len(ps)
  OBVIOUS
<1>3. /\ InText(t, i, c, ps, n, v) /\ Len(t) \in Nat /\ i \in Nat /\ i \in 1..(Len(t) + 1)
      /\ e = i + 3 + 2 * n /\ n \in 1..Len(t)
  BY <1>1, <1>2, InStands
<1>4. \A m \in 1..Len(t) : IsList(t, i + 3, m) <=> m = n
  <2>1. n # 0 /\ \A k \in 1..n : ps[k] \in AllParams
    BY <1>2, <1>3
  <2>2. \A m \in Nat : m # 0 => (IsList(t, i + 3, m) <=> m = n)
    BY <1>3, <2>1, InTextIs
  <2>3. QED BY <2>2
<1>5. /\ \E m \in 1..Len(t) : IsList(t, i + 3, m)
      /\ (CHOOSE m \in 1..Len(t) : IsList(t, i + 3, m)) = n
  BY <1>3, <1>4
<1>6. ReadIn(t, i) = Done(InTruth(AsOperand(t[i]), [k \in 1..n |-> t[i + 1 + 2 * k]]), i + 3 + 2 * n)
  BY <1>5 DEF ReadIn
<1>7. AsOperand(t[i]) = Column(c) /\ At(t, i) = Given(Column(c), v) /\ Column(c) \in OperandPieces
  <2>1. At(t, i) = Column(c) /\ t[i] = Column(c)
    BY <1>3 DEF InText
  <2>2. Column(c) \in OperandPieces
    BY DEF OperandPieces
  <2>3. Given(Column(c), v) = Column(c) /\ AsOperand(Column(c)) = Column(c)
    BY DEF Given, AsOperand, Column
  <2>4. QED BY <2>1, <2>2, <2>3
<1>8. [k \in 1..n |-> t[i + 1 + 2 * k]] = [k \in DOMAIN ps |-> Meant(ps[k], v)]
  <2>1. DOMAIN ps = 1..n
    BY <1>2
  <2>2. \A k \in 1..n : t[i + 1 + 2 * k] = Meant(ps[k], v)
    BY <1>3 DEF InText
  <2>3. QED BY <2>1, <2>2
<1>9. r[i].not = ReadPredicate(t, i)
  BY <1>1, <1>3, <1>7, PredicateIs
<1>10. ReadPredicate(t, i) = ReadIn(t, i)
  BY <1>3, AfterOperand DEF InText
<1>11. f[v] = InTruth(Column(c), [k \in DOMAIN ps |-> Meant(ps[k], v)])
  OBVIOUS
<1>12. QED BY <1>3, <1>6, <1>7, <1>8, <1>9, <1>10, <1>11

------------------------------------------------------------------------------
\* The conditions of one column mean what they are said to.

\* Values are numbers.
LEMMA ValuesAre == Values \subseteq Int /\ Null \in Int
<1>1. Values \subseteq Nat
  BY QueriesAssumption
<1>2. QED BY <1>1 DEF Null

\* A parameter is a value or refers to a variable.
LEMMA ParamIs ==
  ASSUME NEW p \in AllParams
  PROVE  \/ \E b \in BOOLEAN, n \in Nat : p = ValueParam(b, n)
         \/ \E b \in BOOLEAN, x \in Vars : p = RefParam(b, x)
BY DEF AllParams

\* A comparison the other way round is the same.
LEMMA OtherWayMeans ==
  ASSUME NEW c \in Columns, NEW op \in Comparisons, NEW p \in AllParams, NEW v \in Valuations
  PROVE  ComparisonTruth(OtherWay[op], Column(c), Meant(p, v)) = ComparisonTruth(op, Meant(p, v), Column(c))
<1>1. Operand(Meant(p, v), <<>>) \in Int
  <2>1. Values \subseteq Int
    BY ValuesAre
  <2>2. CASE \E b \in BOOLEAN, n \in Nat : p = ValueParam(b, n)
    <3>1. PICK b \in BOOLEAN, n \in Nat : p = ValueParam(b, n)
      BY <2>2
    <3>2. Meant(p, v) = <<"value", n>>
      BY <3>1 DEF Meant, ValueParam
    <3>3. QED BY <3>2 DEF Operand
  <2>3. CASE \E b \in BOOLEAN, x \in Vars : p = RefParam(b, x)
    <3>1. PICK b \in BOOLEAN, x \in Vars : p = RefParam(b, x)
      BY <2>3
    <3>2. v[x] \in Int
      BY <2>1 DEF Valuations
    <3>3. Meant(p, v) = <<"value", v[x]>>
      BY <3>1 DEF Meant, RefParam
    <3>4. QED BY <3>2, <3>3 DEF Operand
  <2>4. QED BY <2>2, <2>3, ParamIs
<1>2. PICK b \in Int : \A row : Operand(Meant(p, v), row) = b
  BY <1>1 DEF Operand, Meant
<1>3. \A row \in Rows : Operand(Column(c), row) \in Int
  <2>1. Values \cup {Null} \subseteq Int
    BY ValuesAre
  <2>2. \A row \in Rows : row[c] \in Int
    BY <2>1 DEF Rows
  <2>3. QED BY <2>2 DEF Operand, Column
<1>4. \A a \in Int : Compare(OtherWay[op], a, b) = Compare(op, b, a)
  BY ZenonT(40) DEF Compare, OtherWay, Comparisons, Truth
<1>5. \A row \in Rows : Compare(OtherWay[op], Operand(Column(c), row), Operand(Meant(p, v), row))
                        = Compare(op, Operand(Meant(p, v), row), Operand(Column(c), row))
  BY <1>2, <1>3, <1>4
<1>6. QED BY <1>5 DEF ComparisonTruth

\* What a query can mean.
Meanings == [Valuations -> [Rows -> 0..2]]

\* What conditions say of a row is 0, 1 or 2.
LEMMA TruthTypes ==
  /\ \A b \in BOOLEAN : Always(b) \in [Rows -> 0..2]
  /\ \A op \in Comparisons : \A x, y : ComparisonTruth(op, x, y) \in [Rows -> 0..2]
  /\ \A x : NullTruth(x) \in [Rows -> 0..2]
  /\ \A x, s : InTruth(x, s) \in [Rows -> 0..2]
  /\ \A x, y, s : LikeTruth(x, y, s) \in [Rows -> 0..2]
  /\ \A f, g : OrOf(f, g) \in [Rows -> 0..2] /\ AndOf(f, g) \in [Rows -> 0..2]
  /\ \A f \in [Rows -> 0..2] : NotOf(f) \in [Rows -> 0..2]
<1>1. \A b : Truth(b) \in 0..2
  BY DEF Truth
<1>2. \A b \in BOOLEAN : Always(b) \in [Rows -> 0..2]
  BY <1>1 DEF Always
<1>3. ASSUME NEW op \in Comparisons, NEW x, NEW y PROVE ComparisonTruth(op, x, y) \in [Rows -> 0..2]
  <2>1. \A a, b : Compare(op, a, b) \in 0..2
    BY DEF Compare, Truth
  <2>2. QED BY <2>1 DEF ComparisonTruth
<1>4. \A x : NullTruth(x) \in [Rows -> 0..2]
  BY <1>1 DEF NullTruth
<1>5. \A x, s : InTruth(x, s) \in [Rows -> 0..2]
  BY DEF InTruth, Truth
<1>6. \A x, y, s : LikeTruth(x, y, s) \in [Rows -> 0..2]
  <2>1. \A a, p, s : Like(a, p, s) \in 0..2
    BY <1>1 DEF Like
  <2>2. QED BY <2>1 DEF LikeTruth
<1>7. \A f, g : OrOf(f, g) \in [Rows -> 0..2] /\ AndOf(f, g) \in [Rows -> 0..2]
  BY DEF OrOf, AndOf, Disjoined, Conjoined
<1>8. \A f \in [Rows -> 0..2] : NotOf(f) \in [Rows -> 0..2]
  BY DEF NotOf
<1>9. QED BY <1>2, <1>3, <1>4, <1>5, <1>6, <1>7, <1>8

\* A query and its common form both say what is meant.
Sound(x) ==
  /\ x.means \in Meanings
  /\ \E W : Built(x.query, W) /\ Means(W, x.means)
  /\ \E q, W : Makes(x.common, q) /\ Built(q, W) /\ Means(W, x.means)

\* A condition means what agrees with it on every valuation.
LEMMA MeansSame ==
  ASSUME NEW W \in Seq(Pieces), W # <<>>, Free(W), NEW f, ReadsNot(W, f), NEW g, \A v \in Valuations : g[v] = f[v]
  PROVE  Means(W, g)
<1>1. Reads(W, f)
  BY NotReads
<1>2. Reads(W, g)
  BY <1>1 DEF Reads
<1>3. QED BY <1>2 DEF Means

\* A condition that was built and made of the same pieces is sound.
LEMMA SoundExpr ==
  ASSUME NEW q, NEW s, NEW g, NEW n, NEW W, W # <<>>, Free(W), NEW f, ReadsNot(W, f), g \in Meanings,
         \A v \in Valuations : g[v] = f[v],
         Built(q, W), NEW r, Makes(s, r), Built(r, W)
  PROVE  Sound(Expr(q, s, g, n))
<1>1. W \in Seq(Pieces)
  BY DEF Built
<1>2. Means(W, g)
  BY <1>1, MeansSame
<1> DEFINE x == Expr(q, s, g, n)
<1>3. x.query = q /\ x.common = s /\ x.means = g
  BY DEF Expr
<1> HIDE DEF x
<1>4. Sound(x)
  BY <1>2, <1>3 DEF Sound
<1>5. QED BY <1>4 DEF x

\* A piece that cannot begin a clause
Plain(x) == \A k \in Keywords : x # Word(k)

\* Columns, parameters and operators are no keywords.
LEMMA PlainPieces ==
  /\ \A x \in OperandPieces : Plain(x)
  /\ \A w \in SqlWords \ Keywords : Plain(Word(w))
  /\ \A w \in Comparisons \cup {"(", ")", ",", "NOT", "AND", "OR", "IN", "LIKE", "ESCAPE", "IS NULL", "IS NOT NULL",
                               "1 = 1", "1 = 0"} : w \in SqlWords \ Keywords
<1>1. ASSUME NEW x \in OperandPieces PROVE Plain(x)
  <2>1. CASE \E c \in NativeColumns : x = Word(c)
    BY <2>1, NativeColumnsAre DEF Plain, Word
  <2>2. CASE ~\E c \in NativeColumns : x = Word(c)
    BY <2>2 DEF OperandPieces, Plain, Word, Column, Open
  <2>3. QED BY <2>1, <2>2
<1>2. \A w \in SqlWords \ Keywords : Plain(Word(w))
  BY DEF Plain, Word
<1>3. \A w \in Comparisons \cup {"(", ")", ",", "NOT", "AND", "OR", "IN", "LIKE", "ESCAPE", "IS NULL", "IS NOT NULL",
                               "1 = 1", "1 = 0"} : w \in SqlWords \ Keywords
  BY DEF SqlWords, Comparisons, Keywords
<1>4. QED BY <1>1, <1>2, <1>3

\* Two pieces
LEMMA FreeTwo ==
  ASSUME NEW a, NEW b, Plain(a), Plain(b)
  PROVE  Free(<<a, b>>) /\ <<a, b>> # <<>>
BY DEF Free, Plain

\* Three pieces
LEMMA FreeThree ==
  ASSUME NEW a, NEW b, NEW c, Plain(a), Plain(b), Plain(c)
  PROVE  Free(<<a, b, c>>) /\ <<a, b, c>> # <<>>
<1> DEFINE s == <<a, b, c>>
<1>1. Len(s) = 3 /\ s[1] = a /\ s[2] = b /\ s[3] = c
  OBVIOUS
<1>2. Len(<<>>) = 0
  OBVIOUS
<1> HIDE DEF s
<1>3. Free(s) /\ s # <<>>
  BY <1>1, <1>2 DEF Free, Plain
<1>4. QED BY <1>3 DEF s

\* Five pieces
LEMMA FreeFive ==
  ASSUME NEW a, NEW b, NEW c, NEW d, NEW e, Plain(a), Plain(b), Plain(c), Plain(d), Plain(e)
  PROVE  Free(<<a, b, c, d, e>>) /\ <<a, b, c, d, e>> # <<>>
<1> DEFINE s == <<a, b, c, d, e>>
<1>1. Len(s) = 5 /\ s[1] = a /\ s[2] = b /\ s[3] = c /\ s[4] = d /\ s[5] = e
  OBVIOUS
<1>2. Len(<<>>) = 0
  OBVIOUS
<1> HIDE DEF s
<1>3. Free(s) /\ s # <<>>
  BY <1>1, <1>2 DEF Free, Plain
<1>4. QED BY <1>3 DEF s

\* The parameters of a column
LEMMA ParamsAre ==
  /\ \A c : Params(c) \subseteq AllParams
  /\ \A b \in BOOLEAN, w \in Values : ValueParam(b, w) \in AllParams
  /\ ValueParam(FALSE, 1) \in AllParams
<1>1. Values \subseteq Nat
  BY QueriesAssumption
<1>2. \A b \in BOOLEAN, n \in Nat : ValueParam(b, n) \in AllParams
  BY DEF AllParams
<1>3. \A b \in BOOLEAN, w \in Values : ValueParam(b, w) \in AllParams
  BY <1>1, <1>2
<1>4. \A b \in BOOLEAN, x \in Vars : RefParam(b, x) \in AllParams
  BY DEF AllParams
<1>5. ValueParam(FALSE, 1) \in AllParams
  <2>1. FALSE \in BOOLEAN /\ 1 \in Nat
    OBVIOUS
  <2>2. QED BY <1>2, <2>1
<1>6. ASSUME NEW c, NEW p \in Params(c) PROVE p \in AllParams
  <2> DEFINE b == c \in LongColumns
  <2>1. b \in BOOLEAN
    OBVIOUS
  <2>2. Params(c) = {ValueParam(b, w) : w \in Values} \cup {RefParam(b, x) : x \in Vars}
    BY DEF Params
  <2> HIDE DEF b
  <2>3. CASE \E w \in Values : p = ValueParam(b, w)
    BY <1>3, <2>1, <2>3, Zenon
  <2>4. CASE \E x \in Vars : p = RefParam(b, x)
    BY <1>4, <2>1, <2>4, Zenon
  <2>5. QED BY <2>2, <2>3, <2>4
<1>7. QED BY <1>3, <1>5, <1>6

\* Pieces of a comparison
LEMMA SoundComparison ==
  ASSUME NEW x \in OperandPieces, NEW op \in Comparisons, NEW y \in OperandPieces, NEW q, NEW s, NEW r, NEW g, NEW n,
         Built(q, <<x, Word(op), y>>), Makes(s, r), Built(r, <<x, Word(op), y>>), g \in Meanings,
         \A v \in Valuations : g[v] = ComparisonTruth(op, AsOperand(Given(x, v)), AsOperand(Given(y, v)))
  PROVE  Sound(Expr(q, s, g, n))
<1> DEFINE f == [v \in Valuations |-> ComparisonTruth(op, AsOperand(Given(x, v)), AsOperand(Given(y, v)))]
           W == <<x, Word(op), y>>
<1>1. W # <<>> /\ Free(W)
  BY PlainPieces, FreeThree
<1>2. ReadsNot(W, f)
  BY ComparisonReads
<1>3. \A v \in Valuations : g[v] = f[v]
  OBVIOUS
<1>4. Built(q, W) /\ Built(r, W)
  OBVIOUS
<1> HIDE DEF f, W
<1>5. QED BY <1>1, <1>2, <1>3, <1>4, SoundExpr

\* What the operands mean
LEMMA OperandsGiven ==
  ASSUME NEW v
  PROVE  /\ \A c \in Columns : Column(c) \in OperandPieces /\ AsOperand(Given(Column(c), v)) = Column(c)
         /\ \A p \in AllParams : Open(p) \in OperandPieces /\ AsOperand(Given(Open(p), v)) = Meant(p, v)
         /\ \A c \in NativeColumns : Word(c) \in OperandPieces /\ AsOperand(Given(Word(c), v)) = Column(c)
<1>1. /\ \A c \in Columns : Column(c) \in OperandPieces
      /\ \A p \in AllParams : Open(p) \in OperandPieces
      /\ \A c \in NativeColumns : Word(c) \in OperandPieces
  BY DEF OperandPieces
<1>2. QED BY <1>1, OperandGiven

\* Comparisons
LEMMA ComparisonSound ==
  ASSUME NEW c \in Columns, NEW op \in Comparisons
  PROVE  /\ \A p \in AllParams : /\ Sound(ComparisonExpr(op, Column(c), <<"param", p>>))
                                /\ Sound(ComparisonExpr(op, <<"param", p>>, Column(c)))
         /\ \A d \in Columns : Sound(ComparisonExpr(op, Column(c), Column(d)))
<1>1. \A v : /\ \A d \in Columns : Meaning(Column(d), v) = Column(d)
             /\ \A p : Meaning(<<"param", p>>, v) = Meant(p, v)
  BY DEF Meaning, IsColumn, Column
<1>2. \A x, y : [v \in Valuations |-> ComparisonTruth(op, Meaning(x, v), Meaning(y, v))] \in Meanings
  BY TruthTypes DEF Meanings
<1>3. OtherWay[op] \in Comparisons
  BY OtherWays
<1>4. ASSUME NEW p \in AllParams PROVE Sound(ComparisonExpr(op, Column(c), <<"param", p>>))
  <2> DEFINE x == Column(c)
             y == <<"param", p>>
             g == [v \in Valuations |-> ComparisonTruth(op, Meaning(x, v), Meaning(y, v))]
             q == Comparison(op, x, y)
  <2>1. Column(c) \in OperandPieces /\ Open(p) \in OperandPieces /\ g \in Meanings
    BY <1>2, OperandsGiven
  <2>2. Built(q, <<Column(c), Word(op), Open(p)>>)
    BY BuiltComparison
  <2>3. Makes(CommonComparison(op, x, y), q)
    BY ComparisonMakes
  <2>4. \A v \in Valuations :
          g[v] = ComparisonTruth(op, AsOperand(Given(Column(c), v)), AsOperand(Given(Open(p), v)))
    BY <1>1, OperandsGiven
  <2>5. ComparisonExpr(op, x, y) = Expr(q, CommonComparison(op, x, y), g, 1)
    BY DEF ComparisonExpr
  <2> HIDE DEF g, q, x, y
  <2>6. Sound(Expr(q, CommonComparison(op, x, y), g, 1))
    BY <2>1, <2>2, <2>3, <2>4, SoundComparison
  <2>7. QED BY <2>5, <2>6 DEF x, y
<1>5. ASSUME NEW p \in AllParams PROVE Sound(ComparisonExpr(op, <<"param", p>>, Column(c)))
  <2> DEFINE x == <<"param", p>>
             y == Column(c)
             g == [v \in Valuations |-> ComparisonTruth(op, Meaning(x, v), Meaning(y, v))]
             q == Comparison(op, x, y)
  <2>1. Column(c) \in OperandPieces /\ Open(p) \in OperandPieces /\ g \in Meanings
    BY <1>2, OperandsGiven
  <2>2. Built(q, <<Column(c), Word(OtherWay[op]), Open(p)>>)
    BY BuiltComparison
  <2>3. Makes(CommonComparison(op, x, y), q)
    BY ComparisonMakes
  <2>4. \A v \in Valuations :
          g[v] = ComparisonTruth(OtherWay[op], AsOperand(Given(Column(c), v)), AsOperand(Given(Open(p), v)))
    <3>1. \A v \in Valuations : g[v] = ComparisonTruth(op, Meant(p, v), Column(c))
      BY <1>1
    <3> HIDE DEF g
    <3>2. QED BY <3>1, OperandsGiven, OtherWayMeans
  <2>5. ComparisonExpr(op, x, y) = Expr(q, CommonComparison(op, x, y), g, 1)
    BY DEF ComparisonExpr
  <2> HIDE DEF g, q, x, y
  <2>6. Sound(Expr(q, CommonComparison(op, x, y), g, 1))
    BY <1>3, <2>1, <2>2, <2>3, <2>4, SoundComparison
  <2>7. QED BY <2>5, <2>6 DEF x, y
<1>6. ASSUME NEW d \in Columns PROVE Sound(ComparisonExpr(op, Column(c), Column(d)))
  <2> DEFINE x == Column(c)
             y == Column(d)
             g == [v \in Valuations |-> ComparisonTruth(op, Meaning(x, v), Meaning(y, v))]
             q == Comparison(op, x, y)
  <2>1. Column(c) \in OperandPieces /\ Column(d) \in OperandPieces /\ g \in Meanings
    BY <1>2, OperandsGiven
  <2>2. Built(q, <<Column(c), Word(op), Column(d)>>)
    BY BuiltComparison
  <2>3. Makes(CommonComparison(op, x, y), q)
    BY ComparisonMakes
  <2>4. \A v \in Valuations :
          g[v] = ComparisonTruth(op, AsOperand(Given(Column(c), v)), AsOperand(Given(Column(d), v)))
    BY <1>1, OperandsGiven
  <2>5. ComparisonExpr(op, x, y) = Expr(q, CommonComparison(op, x, y), g, 1)
    BY DEF ComparisonExpr
  <2> HIDE DEF g, q, x, y
  <2>6. Sound(Expr(q, CommonComparison(op, x, y), g, 1))
    BY <2>1, <2>2, <2>3, <2>4, SoundComparison
  <2>7. QED BY <2>5, <2>6 DEF x, y
<1>7. QED BY <1>4, <1>5, <1>6

\* Tests for NULL
LEMMA NullSound ==
  ASSUME NEW c \in Columns
  PROVE  \A x \in NullTestsOf(c) : Sound(x)
<1>1. Column(c) \in OperandPieces /\ \A v : AsOperand(Given(Column(c), v)) = Column(c)
  BY OperandsGiven
<1> DEFINE f == [v \in Valuations |-> NullTruth(Column(c))]
           g == [v \in Valuations |-> NotOf(NullTruth(Column(c)))]
           h == [v \in Valuations |-> NullTruth(AsOperand(Given(Column(c), v)))]
           k == [v \in Valuations |-> NotOf(NullTruth(AsOperand(Given(Column(c), v))))]
<1>2. f \in Meanings /\ g \in Meanings
  BY TruthTypes DEF Meanings
<1>3. \A v \in Valuations : f[v] = h[v] /\ g[v] = k[v]
  BY <1>1
<1>4. ReadsNot(<<Column(c), Word("IS NULL")>>, h) /\ ReadsNot(<<Column(c), Word("IS NOT NULL")>>, k)
  BY <1>1, NullReads
<1> HIDE DEF f, g, h, k
<1>5. ASSUME NEW w \in {"IS NULL", "IS NOT NULL"}
      PROVE  /\ Free(<<Column(c), Word(w)>>) /\ <<Column(c), Word(w)>> # <<>>
             /\ Built(AppendNative(Part(Column(c)), <<w>>), <<Column(c), Word(w)>>)
             /\ Makes(CommonNull(w, Column(c)), AppendNative(Part(Column(c)), <<w>>))
  <2>1. Plain(Column(c)) /\ Plain(Word(w))
    BY <1>1, PlainPieces
  <2>2. Built(AppendNative(Part(Column(c)), <<w>>), <<Column(c), Word(w)>>)
    BY BuiltNullTest
  <2>3. w \in Postfix /\ w # "op_not"
    BY DEF Postfix
  <2>4. Makes(CommonColumn(Column(c)) \o Leaf(w, <<>>), PutAfter(w, Part(Column(c))))
    BY <2>3, ColumnMakes, PostfixMakes
  <2>5. PutAfter(w, Part(Column(c))) = AppendNative(Part(Column(c)), <<w>>)
    BY <2>3 DEF PutAfter
  <2>6. Free(<<Column(c), Word(w)>>) /\ <<Column(c), Word(w)>> # <<>>
    BY <2>1, FreeTwo
  <2>7. QED BY <2>2, <2>4, <2>5, <2>6 DEF CommonNull
<1>6. Sound(Expr(IsNull(Column(c)), CommonNull("IS NULL", Column(c)), f, 1))
  <2>1. /\ Free(<<Column(c), Word("IS NULL")>>) /\ <<Column(c), Word("IS NULL")>> # <<>>
        /\ Built(IsNull(Column(c)), <<Column(c), Word("IS NULL")>>)
        /\ Makes(CommonNull("IS NULL", Column(c)), IsNull(Column(c)))
    BY <1>5 DEF IsNull
  <2>2. QED BY <1>2, <1>3, <1>4, <2>1, SoundExpr
<1>7. Sound(Expr(IsNotNull(Column(c)), CommonNull("IS NOT NULL", Column(c)), g, 1))
  <2>1. /\ Free(<<Column(c), Word("IS NOT NULL")>>) /\ <<Column(c), Word("IS NOT NULL")>> # <<>>
        /\ Built(IsNotNull(Column(c)), <<Column(c), Word("IS NOT NULL")>>)
        /\ Makes(CommonNull("IS NOT NULL", Column(c)), IsNotNull(Column(c)))
    BY <1>5 DEF IsNotNull
  <2>2. QED BY <1>2, <1>3, <1>4, <2>1, SoundExpr
<1>8. NullTestsOf(c) = {Expr(IsNull(Column(c)), CommonNull("IS NULL", Column(c)), f, 1),
                        Expr(IsNotNull(Column(c)), CommonNull("IS NOT NULL", Column(c)), g, 1)}
  BY DEF NullTestsOf, f, g
<1>9. QED BY <1>6, <1>7, <1>8

\* LIKE
LEMMA LikeSound ==
  ASSUME NEW c \in Columns, NEW p \in AllParams, NEW e \in AllParams
  PROVE  Sound(LikeExpr(c, p)) /\ Sound(EscapeExpr(c, p, e))
<1>1. /\ Column(c) \in OperandPieces /\ \A v : AsOperand(Given(Column(c), v)) = Column(c)
      /\ Open(p) \in OperandPieces /\ Open(e) \in OperandPieces
  BY OperandsGiven
<1>2. Plain(Column(c)) /\ Plain(Open(p)) /\ Plain(Open(e)) /\ Plain(Word("LIKE")) /\ Plain(Word("ESCAPE"))
  BY <1>1, PlainPieces
<1> DEFINE f == [v \in Valuations |-> LikeTruth(Column(c), Meant(p, v), <<>>)]
           g == [v \in Valuations |-> LikeTruth(Column(c), Meant(p, v), <<Meant(e, v)>>)]
           h == [v \in Valuations |-> LikeTruth(AsOperand(Given(Column(c), v)), Meant(p, v), <<>>)]
           k == [v \in Valuations |-> LikeTruth(AsOperand(Given(Column(c), v)), Meant(p, v), <<Meant(e, v)>>)]
           W == <<Column(c), Word("LIKE"), Open(p)>>
           V == <<Column(c), Word("LIKE"), Open(p), Word("ESCAPE"), Open(e)>>
<1>3. f \in Meanings /\ g \in Meanings
  BY TruthTypes DEF Meanings
<1>4. \A v \in Valuations : f[v] = h[v] /\ g[v] = k[v]
  BY <1>1
<1>5. ReadsNot(W, h) /\ ReadsNot(V, k)
  BY <1>1, LikeReads, EscapeReads
<1>6. Free(W) /\ W # <<>> /\ Free(V) /\ V # <<>>
  BY <1>2, FreeThree, FreeFive
<1>7. Built(LikePattern(Column(c), p), W) /\ Built(LikeEscape(Column(c), p, e), V)
  BY BuiltLike, BuiltEscape
<1>8. /\ Makes(CommonOfColumn("op_like", Column(c), <<p>>), LikePattern(Column(c), p))
      /\ Makes(CommonOfColumn("op_like_escape", Column(c), <<p, e>>), LikeEscape(Column(c), p, e))
  BY LikeMakes, EscapeMakes
<1>9. /\ LikeExpr(c, p) = Expr(LikePattern(Column(c), p), CommonOfColumn("op_like", Column(c), <<p>>), f, 1)
      /\ EscapeExpr(c, p, e) = Expr(LikeEscape(Column(c), p, e), CommonOfColumn("op_like_escape", Column(c), <<p, e>>), g, 1)
  BY DEF LikeExpr, EscapeExpr
<1> HIDE DEF f, g, h, k, W, V
<1>10. Sound(Expr(LikePattern(Column(c), p), CommonOfColumn("op_like", Column(c), <<p>>), f, 1))
  BY <1>3, <1>4, <1>5, <1>6, <1>7, <1>8, SoundExpr
<1>11. Sound(Expr(LikeEscape(Column(c), p, e), CommonOfColumn("op_like_escape", Column(c), <<p, e>>), g, 1))
  BY <1>3, <1>4, <1>5, <1>6, <1>7, <1>8, SoundExpr
<1>12. QED BY <1>9, <1>10, <1>11

\* TRUE and FALSE
LEMMA LiteralSound ==
  ASSUME NEW b \in BOOLEAN
  PROVE  Sound(Literal(b))
<1> DEFINE w == IF b THEN "1 = 1" ELSE "1 = 0"
           s == Leaf(IF b THEN "true" ELSE "false", <<>>)
           f == [v \in Valuations |-> Always(b)]
<1>1. ReadsNot(<<Word(w)>>, f) /\ Built(Part(Bool(b)), <<Word(w)>>) /\ Makes(s, Part(Bool(b)))
  BY LiteralReads, BoolPart, BoolMakes
<1>2. Free(<<Word(w)>>) /\ <<Word(w)>> # <<>>
  <2>1. w \notin Keywords
    BY DEF Keywords
  <2> HIDE DEF w
  <2>2. QED BY <2>1, FreeWord
<1>3. f \in Meanings /\ Literal(b) = Expr(Part(Bool(b)), s, f, 1)
  BY TruthTypes DEF Meanings, Literal
<1> HIDE DEF f, s, w
<1>4. Sound(Expr(Part(Bool(b)), s, f, 1))
  BY <1>1, <1>2, <1>3, SoundExpr
<1>5. QED BY <1>3, <1>4

\* in() has no keyword.
LEMMA InFree ==
  ASSUME NEW c \in Columns, NEW ps, NEW n \in Nat, n # 0, NEW V, IsInHead(V, c, ps, n)
  PROVE  Free(V)
<1>1. Plain(Column(c)) /\ \A p : Plain(Open(p))
  BY DEF Plain, Column, Open, Word
<1>2. Plain(Word("IN")) /\ Plain(Word("(")) /\ Plain(Word(","))
  BY PlainPieces
<1>3. SUFFICES ASSUME NEW i \in 1..(2 * n + 2) PROVE Plain(V[i])
  BY DEF Free, Plain, IsInHead
<1>4. CASE i \in 1..3
  <2>1. V[1] = Column(c) /\ V[2] = Word("IN") /\ V[3] = Word("(")
    BY DEF IsInHead
  <2>2. i = 1 \/ i = 2 \/ i = 3
    BY <1>4
  <2>3. QED BY <1>1, <1>2, <2>1, <2>2
<1>5. CASE i \notin 1..3
  <2>1. PICK k \in Nat : i = 2 * k \/ i = 2 * k + 1
    <3>1. i \div 2 \in Nat /\ (i = 2 * (i \div 2) \/ i = 2 * (i \div 2) + 1)
      OBVIOUS
    <3>2. QED BY <3>1
  <2>2. CASE i = 2 * k
    <3>1. k - 1 \in 1..n /\ i = 2 * (k - 1) + 2
      BY <1>5, <2>1, <2>2
    <3>2. V[2 * (k - 1) + 2] = Open(ps[k - 1])
      BY <3>1 DEF IsInHead
    <3>3. QED BY <1>1, <3>1, <3>2
  <2>3. CASE i = 2 * k + 1
    <3>1. k - 1 \in 1..(n - 1) /\ i = 2 * (k - 1) + 3
      BY <1>5, <2>1, <2>3
    <3>2. V[2 * (k - 1) + 3] = Word(",")
      BY <3>1 DEF IsInHead
    <3>3. QED BY <1>2, <3>1, <3>2
  <2>4. QED BY <2>1, <2>2, <2>3
<1>6. QED BY <1>4, <1>5

\* in()
LEMMA InSound ==
  ASSUME NEW c \in Columns, NEW ps \in Seq(AllParams)
  PROVE  Sound(InExpr(c, ps))
<1> DEFINE f == [v \in Valuations |-> IF ps = <<>> THEN Always(FALSE)
                                      ELSE InTruth(Column(c), [i \in DOMAIN ps |-> Meant(ps[i], v)])]
           s == CommonOfColumn("op_in", Column(c), ps)
           q == In(Column(c), ps)
<1>1. f \in Meanings
  BY TruthTypes DEF Meanings
<1>2. Makes(s, q)
  BY InMakes
<1>3. InExpr(c, ps) = Expr(q, s, f, 1)
  BY DEF InExpr
<1>4. CASE ps = <<>>
  <2> DEFINE h == [v \in Valuations |-> Always(FALSE)]
             w == IF FALSE THEN "1 = 1" ELSE "1 = 0"
  <2>1. ReadsNot(<<Word(w)>>, h)
    BY LiteralReads
  <2>2. w = "1 = 0" /\ "1 = 0" \notin Keywords
    BY DEF Keywords
  <2>3. \A v \in Valuations : f[v] = h[v]
    BY <1>4
  <2>4. Built(q, <<Word("1 = 0")>>)
    BY <1>4, BuiltIn
  <2> HIDE DEF h, f, s, q, w
  <2>5. Free(<<Word("1 = 0")>>) /\ <<Word("1 = 0")>> # <<>>
    BY <2>2, FreeWord
  <2>6. ReadsNot(<<Word("1 = 0")>>, h)
    BY <2>1, <2>2
  <2>7. Sound(Expr(q, s, f, 1))
    BY <1>1, <1>2, <2>3, <2>4, <2>5, <2>6, SoundExpr
  <2>8. QED BY <1>3, <2>7
<1>5. CASE ps # <<>>
  <2> DEFINE h == [v \in Valuations |-> InTruth(Column(c), [i \in DOMAIN ps |-> Meant(ps[i], v)])]
  <2>1. PICK W : Built(q, W) /\ IsInPieces(W, c, ps)
    BY <1>5, BuiltIn
  <2>2. ReadsNot(W, h)
    BY <1>5, <2>1, InReads
  <2>3. \A v \in Valuations : f[v] = h[v]
    BY <1>5
  <2> HIDE DEF h, f, s, q
  <2>4. PICK V \in Seq(Pieces) : IsInHead(V, c, ps, Len(ps)) /\ W = V \o <<Word(")")>>
    BY <2>1 DEF IsInPieces
  <2>5. Free(V)
    <3>1. Len(ps) \in Nat /\ Len(ps) # 0
      BY <1>5
    <3>2. QED BY <2>4, <3>1, InFree
  <2>6. Free(<<Word(")")>>) /\ <<Word(")")>> \in Seq(Pieces)
    BY SmallWords
  <2>7. Free(W) /\ W # <<>>
    <3>1. Free(V \o <<Word(")")>>)
      BY <2>5, <2>6, FreeConcat
    <3>2. Len(V \o <<Word(")")>>) = Len(V) + 1 /\ Len(V) \in Nat
      BY <2>6
    <3>3. QED BY <2>4, <3>1, <3>2
  <2>8. Sound(Expr(q, s, f, 1))
    BY <1>1, <1>2, <2>1, <2>2, <2>3, <2>7, SoundExpr
  <2>9. QED BY <1>3, <2>8
<1>6. QED BY <1>4, <1>5

\* A bool column
LEMMA BoolSound ==
  ASSUME NEW c \in Columns
  PROVE  Sound(BoolExpr(c))
<1> DEFINE p == ValueParam(FALSE, 1)
           x == <<"param", p>>
           f == [v \in Valuations |-> ComparisonTruth("=", Column(c), <<"value", 1>>)]
           q == BoolColumn(Column(c))
           s == CommonComparison("=", Column(c), x)
<1>1. p \in AllParams /\ "=" \in Comparisons
  BY ParamsAre DEF Comparisons
<1>2. \A v : Meant(p, v) = <<"value", 1>>
  BY DEF Meant, ValueParam
<1>3. f \in Meanings
  BY <1>1, TruthTypes DEF Meanings
<1>4. BoolExpr(c) = Expr(q, s, f, 1)
  BY DEF BoolExpr
<1>5. q = Compared(Column(c), "=", x)
  BY DEF BoolColumn
<1> HIDE DEF p
<1>6. Built(q, <<Column(c), Word("="), Open(p)>>)
  BY <1>1, <1>5, BuiltCompared
<1>7. Comparison("=", Column(c), x) = Compared(Column(c), "=", x)
  BY DEF Comparison, Equal, IsColumn, Column
<1>8. Makes(s, q)
  BY <1>1, <1>5, <1>7, ComparisonMakes
<1>9. \A v \in Valuations : f[v] = ComparisonTruth("=", AsOperand(Given(Column(c), v)), AsOperand(Given(Open(p), v)))
  BY <1>1, <1>2, OperandsGiven
<1> HIDE DEF f, q, s
<1>10. Sound(Expr(q, s, f, 1))
  BY <1>1, <1>3, <1>6, <1>8, <1>9, OperandsGiven, SoundComparison
<1>11. QED BY <1>4, <1>10

\* Native text: the words are pieces of their own.
LEMMA NativeWords ==
  ASSUME NEW c \in NativeColumns
  PROVE  /\ <<c, "=">> \in Seq(Vocabulary) \ {<<>>} /\ Words(<<c, "=">>) = <<Word(c), Word("=")>>
         /\ <<"=", c>> \in Seq(Vocabulary) \ {<<>>} /\ Words(<<"=", c>>) = <<Word("="), Word(c)>>
         /\ <<c, "IS NULL">> \in Seq(Vocabulary) \ {<<>>} /\ Words(<<c, "IS NULL">>) = <<Word(c), Word("IS NULL")>>
         /\ Word(c) \in Pieces /\ Word("=") \in Pieces
<1>1. c \in Vocabulary /\ "=" \in Vocabulary /\ "IS NULL" \in Vocabulary
  BY NativeColumnsAre, SqlWordsAre DEF Comparisons
<1>2. \A a, b \in Vocabulary : <<a, b>> \in Seq(Vocabulary) \ {<<>>}
  OBVIOUS
<1>3. \A a, b : Words(<<a, b>>) = <<Word(a), Word(b)>>
  BY DEF Words
<1>4. QED BY <1>1, <1>2, <1>3, PieceTypes

\* Three pieces, as two and one
LEMMA TwoAndOnePiece ==
  ASSUME NEW a \in Pieces, NEW b \in Pieces, NEW c \in Pieces
  PROVE  <<a, b>> \o <<c>> = <<a, b, c>> /\ <<a>> \o <<b, c>> = <<a, b, c>>
<1>1. (<<a>> \o <<b>>) \o <<c>> = <<a, b, c>> /\ <<a>> \o <<b>> = <<a, b>> /\ <<b>> \o <<c>> = <<b, c>>
  BY TwoPieces, ThreePieces
<1>2. <<a>> \in Seq(Pieces) /\ <<b>> \in Seq(Pieces) /\ <<c>> \in Seq(Pieces)
  BY SinglePiece
<1>3. (<<a>> \o <<b>>) \o <<c>> = <<a>> \o (<<b>> \o <<c>>)
  BY <1>2, AssocPieces
<1>4. QED BY <1>1, <1>3

\* A test for NULL in native text
LEMMA NativeNullSound ==
  ASSUME NEW c \in NativeColumns
  PROVE  Sound(NativeNull(c))
<1> DEFINE f == [v \in Valuations |-> NullTruth(Column(c))]
           h == [v \in Valuations |-> NullTruth(AsOperand(Given(Word(c), v)))]
           W == <<Word(c), Word("IS NULL")>>
           q == Part(Native(<<c, "IS NULL">>))
           s == Leaf("native", <<c, "IS NULL">>)
<1>1. Word(c) \in OperandPieces /\ \A v : AsOperand(Given(Word(c), v)) = Column(c)
  BY OperandsGiven
<1>2. ReadsNot(W, h)
  BY <1>1, NullReads
<1>3. \A v \in Valuations : f[v] = h[v]
  BY <1>1
<1>4. Free(W) /\ W # <<>>
  <2>1. Plain(Word(c)) /\ Plain(Word("IS NULL"))
    BY <1>1, PlainPieces
  <2>2. QED BY <2>1, FreeTwo
<1>5. Built(q, W) /\ Makes(s, q)
  BY NativeWords, NativePart, NativeMakes
<1>6. f \in Meanings /\ NativeNull(c) = Expr(q, s, f, 1)
  BY TruthTypes DEF Meanings, NativeNull
<1> HIDE DEF f, h, W, q, s
<1>7. QED BY <1>2, <1>3, <1>4, <1>5, <1>6, SoundExpr

\* Both are there: text and a parameter.
LEMMA AddMakes ==
  ASSUME NEW s, NEW x, Makes(s, x), NEW t, NEW y, Makes(t, y)
  PROVE  Makes(CommonAdd(s, t), Glued(x, y))
<1>1. s # <<>> /\ t # <<>>
  BY DEF Makes
<1>2. "op_add" \in Binary /\ Put("op_add", x, y) = Glued(x, y)
  BY DEF Binary, Put, Comparisons
<1>3. Makes(Combined("op_add", s, t), Put("op_add", x, y))
  BY <1>2, CombinedMakes
<1>4. QED BY <1>1, <1>2, <1>3 DEF CommonAdd

\* A parameter after native text
LEMMA ParamAfterSound ==
  ASSUME NEW c \in NativeColumns, NEW p \in AllParams
  PROVE  /\ Sound(ParamAfter(TextAndParam(<<c, "=">>, p), c, p))
         /\ Sound(ParamAfter(AddedParam(Part(Native(<<c, "=">>)), p), c, p))
<1> DEFINE f == [v \in Valuations |-> ComparisonTruth("=", Column(c), Meant(p, v))]
           W == <<Word(c), Word("="), Open(p)>>
           x == Part(Native(<<c, "=">>))
           s == CommonAdd(Leaf("native", <<c, "=">>), CommonParam(p))
<1>1. Built(x, <<Word(c), Word("=")>>)
  BY NativeWords, NativePart
<1>2. <<Word(c), Word("=")>> \o <<Open(p)>> = W
  BY NativeWords, PieceTypes, TwoAndOnePiece
<1>3. Makes(s, Glued(x, AppendParam(None, p)))
  BY NativeWords, NativeMakes, ParamMakes, AddMakes
<1>4. \A v \in Valuations : f[v] = ComparisonTruth("=", AsOperand(Given(Word(c), v)), AsOperand(Given(Open(p), v)))
  BY OperandsGiven
<1>5. f \in Meanings /\ "=" \in Comparisons
  BY TruthTypes DEF Meanings, Comparisons
<1>6. \A q : ParamAfter(q, c, p) = Expr(q, s, f, 1)
  BY DEF ParamAfter
<1>7. TextAndParam(<<c, "=">>, p) = AppendParam(x, p) /\ AddedParam(x, p) = AppendParam(Copy(x), p)
  BY DEF TextAndParam, AddedParam
<1> HIDE DEF f, x, s
<1>8. Copy(x) = x
  BY <1>1, CopyIs DEF Built
<1>9. Built(AppendParam(x, p), W) /\ Glued(x, AppendParam(None, p)) = AppendParam(x, p)
  <2>1. Built(AppendParam(x, p), <<Word(c), Word("=")>> \o <<Open(p)>>)
    BY <1>1, BuiltParam
  <2>2. QED BY <1>1, <1>2, <2>1, ParamGlued
<1>10. \A q : q = AppendParam(x, p) => Sound(Expr(q, s, f, 1))
  BY <1>3, <1>4, <1>5, <1>9, OperandsGiven, SoundComparison
<1>11. QED BY <1>6, <1>7, <1>8, <1>10 DEF x

\* A parameter before native text
LEMMA ParamBeforeSound ==
  ASSUME NEW c \in NativeColumns, NEW p \in AllParams
  PROVE  /\ Sound(ParamBefore(ParamAndText(p, <<"=", c>>), c, p))
         /\ Sound(ParamBefore(ParamAdded(p, Part(Native(<<"=", c>>))), c, p))
<1> DEFINE f == [v \in Valuations |-> ComparisonTruth("=", Meant(p, v), Column(c))]
           W == <<Open(p), Word("="), Word(c)>>
           x == AppendParam(None, p)
           y == Part(Native(<<"=", c>>))
           s == CommonAdd(CommonParam(p), Leaf("native", <<"=", c>>))
<1>1. Built(x, <<Open(p)>>) /\ Built(y, <<Word("="), Word(c)>>)
  BY BuiltOpen, NativeWords, NativePart
<1>2. <<Open(p)>> \o <<Word("="), Word(c)>> = W
  BY NativeWords, PieceTypes, TwoAndOnePiece
<1>3. Makes(s, Glued(x, y))
  BY NativeWords, NativeMakes, ParamMakes, AddMakes
<1>4. \A v \in Valuations : f[v] = ComparisonTruth("=", AsOperand(Given(Open(p), v)), AsOperand(Given(Word(c), v)))
  BY OperandsGiven
<1>5. f \in Meanings /\ "=" \in Comparisons
  BY TruthTypes DEF Meanings, Comparisons
<1>6. \A q : ParamBefore(q, c, p) = Expr(q, s, f, 1)
  BY DEF ParamBefore
<1>7. /\ ParamAndText(p, <<"=", c>>) = AppendNative(x, <<"=", c>>)
      /\ ParamAdded(p, y) = Plus(x, y)
  BY DEF ParamAndText, ParamAdded
<1> HIDE DEF f, s
<1>8. Built(AppendNative(x, <<"=", c>>), W)
  <2> HIDE DEF x, y
  <2>1. Built(AppendNative(x, <<"=", c>>), <<Open(p)>> \o Words(<<"=", c>>))
    BY <1>1, NativeWords, BuiltNative
  <2>2. QED BY <1>2, <2>1, NativeWords
<1> HIDE DEF x, y
<1>9. Built(Plus(x, y), W) /\ Built(Glued(x, y), W)
  BY <1>1, <1>2, BuiltPlus, BuiltGlued
<1>10. \A q : Built(q, W) => Sound(Expr(q, s, f, 1))
  BY <1>3, <1>4, <1>5, <1>9, OperandsGiven, SoundComparison
<1>11. QED BY <1>6, <1>7, <1>8, <1>9, <1>10 DEF y

\* A condition of one column, as a query
OneCondition(x) ==
  Sound(x) /\ x.conditions = 1 /\ x.negated = FALSE /\ x.ordered = FALSE /\ DOMAIN x = DOMAIN NoExpr

\* A sound one
LEMMA OneConditionIs ==
  ASSUME NEW q, NEW s, NEW f, Sound(Expr(q, s, f, 1))
  PROVE  OneCondition(Expr(q, s, f, 1))
<1> DEFINE x == Expr(q, s, f, 1)
<1>1. x.conditions = 1 /\ x.negated = FALSE /\ x.ordered = FALSE
  BY DEF Expr
<1>2. Sound(x)
  OBVIOUS
<1>3. DOMAIN x = DOMAIN NoExpr
  BY DEF Expr, NoExpr
<1> HIDE DEF x
<1>4. OneCondition(x)
  BY <1>1, <1>2, <1>3 DEF OneCondition
<1>5. QED BY <1>4 DEF x

\* Every kind of them
LEMMA ComparisonsSound ==
  ASSUME NEW c \in Columns, NEW x \in ComparisonsOf(c)
  PROVE  OneCondition(x)
<1>1. CASE \E op \in Comparisons, p \in Params(c) :
             x = ComparisonExpr(op, Column(c), <<"param", p>>) \/ x = ComparisonExpr(op, <<"param", p>>, Column(c))
  <2>1. PICK op \in Comparisons, p \in Params(c) :
          x = ComparisonExpr(op, Column(c), <<"param", p>>) \/ x = ComparisonExpr(op, <<"param", p>>, Column(c))
    BY <1>1
  <2>2. p \in AllParams
    BY ParamsAre
  <2>3. Sound(x)
    BY <2>1, <2>2, ComparisonSound
  <2>4. QED BY <2>1, <2>3, OneConditionIs DEF ComparisonExpr
<1>2. CASE \E op \in Comparisons, d \in ShortColumns \ {c} : x = ComparisonExpr(op, Column(c), Column(d))
  <2>1. PICK op \in Comparisons, d \in ShortColumns \ {c} : x = ComparisonExpr(op, Column(c), Column(d))
    BY <1>2
  <2>2. d \in Columns
    BY DEF Columns
  <2>3. Sound(x)
    BY <2>1, <2>2, ComparisonSound
  <2>4. QED BY <2>1, <2>3, OneConditionIs DEF ComparisonExpr
<1>3. QED BY <1>1, <1>2 DEF ComparisonsOf

LEMMA NullTestsSound ==
  ASSUME NEW c \in Columns, NEW x \in NullTestsOf(c)
  PROVE  OneCondition(x)
<1>1. Sound(x)
  BY NullSound
<1> DEFINE A == Expr(IsNull(Column(c)), CommonNull("IS NULL", Column(c)), [v \in Valuations |-> NullTruth(Column(c))], 1)
           B == Expr(IsNotNull(Column(c)), CommonNull("IS NOT NULL", Column(c)),
                     [v \in Valuations |-> NotOf(NullTruth(Column(c)))], 1)
<1>0. x = A \/ x = B
  BY Zenon DEF NullTestsOf
<1>2. \E q, s, f : x = Expr(q, s, f, 1)
  BY <1>0, Zenon
<1> HIDE DEF A, B
<1>3. PICK q, s, f : x = Expr(q, s, f, 1)
  BY <1>2
<1>4. Sound(Expr(q, s, f, 1))
  BY <1>1, <1>3
<1>5. QED BY <1>3, <1>4, OneConditionIs

\* Lists of values are lists of parameters.
LEMMA ListsAre ==
  ASSUME NEW ps \in ValueLists
  PROVE  ps \in Seq(AllParams)
<1>1. PICK n \in 0..MaxValues : ps \in [1..n -> {ValueParam(FALSE, w) : w \in Values}]
  BY DEF ValueLists
<1>2. \A w \in Values : ValueParam(FALSE, w) \in AllParams
  BY ParamsAre
<1>3. n \in Nat /\ ps \in [1..n -> AllParams]
  <2>1. n \in Nat
    BY <1>1
  <2>2. {ValueParam(FALSE, w) : w \in Values} \subseteq AllParams
    BY <1>2
  <2>3. QED BY <1>1, <2>1, <2>2
<1>4. QED BY <1>3

LEMMA InsSound ==
  ASSUME NEW c \in Columns, NEW x \in InOf(c)
  PROVE  OneCondition(x)
<1>1. PICK ps \in ValueLists : x = InExpr(c, ps)
  BY DEF InOf
<1>2. Sound(x)
  BY <1>1, ListsAre, InSound
<1>3. PICK q, s, f : x = Expr(q, s, f, 1)
  BY <1>1, Zenon DEF InExpr
<1>4. Sound(Expr(q, s, f, 1))
  BY <1>2, <1>3
<1>5. QED BY <1>3, <1>4, OneConditionIs

LEMMA LikesSound ==
  ASSUME NEW c \in Columns, NEW x \in LikesOf(c)
  PROVE  OneCondition(x)
<1>1. CASE \E p \in Params(c) : x = LikeExpr(c, p)
  <2>1. PICK p \in Params(c) : x = LikeExpr(c, p)
    BY <1>1
  <2>2. p \in AllParams
    BY ParamsAre
  <2>3. Sound(x)
    BY <2>1, <2>2, LikeSound
  <2>4. QED BY <2>1, <2>3, OneConditionIs DEF LikeExpr
<1>2. CASE \E p \in Params(c), w \in Values : x = EscapeExpr(c, p, ValueParam(FALSE, w))
  <2>1. PICK p \in Params(c), w \in Values : x = EscapeExpr(c, p, ValueParam(FALSE, w))
    BY <1>2
  <2>2. p \in AllParams /\ ValueParam(FALSE, w) \in AllParams
    BY ParamsAre
  <2>3. Sound(x)
    BY <2>1, <2>2, LikeSound
  <2>4. QED BY <2>1, <2>3, OneConditionIs DEF EscapeExpr
<1> DEFINE A == {LikeExpr(c, p) : p \in Params(c)}
           B == UNION {{EscapeExpr(c, p, ValueParam(FALSE, w)) : w \in Values} : p \in Params(c)}
<1>3. LikesOf(c) = A \cup B
  BY Zenon DEF LikesOf
<1>4. x \in A => \E p \in Params(c) : x = LikeExpr(c, p)
  OBVIOUS
<1>5. x \in B => \E p \in Params(c), w \in Values : x = EscapeExpr(c, p, ValueParam(FALSE, w))
  BY Zenon
<1> HIDE DEF A, B
<1>6. QED BY <1>1, <1>2, <1>3, <1>4, <1>5

LEMMA NativesSound ==
  ASSUME NEW c \in NativeColumns, NEW x \in NativesOf(c)
  PROVE  OneCondition(x)
<1>1. CASE x = NativeNull(c)
  BY <1>1, NativeNullSound, OneConditionIs DEF NativeNull
<1>2. CASE \E p \in Params(c) : \/ x = ParamAfter(TextAndParam(<<c, "=">>, p), c, p)
                               \/ x = ParamAfter(AddedParam(Part(Native(<<c, "=">>)), p), c, p)
  <2>1. PICK p \in Params(c) : \/ x = ParamAfter(TextAndParam(<<c, "=">>, p), c, p)
                               \/ x = ParamAfter(AddedParam(Part(Native(<<c, "=">>)), p), c, p)
    BY <1>2
  <2>2. p \in AllParams
    BY ParamsAre
  <2>3. Sound(x)
    BY <2>1, <2>2, ParamAfterSound
  <2>4. QED BY <2>1, <2>3, OneConditionIs DEF ParamAfter
<1>3. CASE \E p \in Params(c) : \/ x = ParamBefore(ParamAndText(p, <<"=", c>>), c, p)
                               \/ x = ParamBefore(ParamAdded(p, Part(Native(<<"=", c>>))), c, p)
  <2>1. PICK p \in Params(c) : \/ x = ParamBefore(ParamAndText(p, <<"=", c>>), c, p)
                               \/ x = ParamBefore(ParamAdded(p, Part(Native(<<"=", c>>))), c, p)
    BY <1>3
  <2>2. p \in AllParams
    BY ParamsAre
  <2>3. Sound(x)
    BY <2>1, <2>2, ParamBeforeSound
  <2>4. QED BY <2>1, <2>3, OneConditionIs DEF ParamBefore
<1>4. QED BY <1>1, <1>2, <1>3 DEF NativesOf

\* Every condition that is made, and so every operand
LEMMA ConditionsSound ==
  ASSUME NEW x \in Conditions
  PROVE  OneCondition(x)
<1>1. CASE \E c \in Columns : x \in ComparisonsOf(c) \/ x \in NullTestsOf(c)
  BY <1>1, ComparisonsSound, NullTestsSound
<1>2. CASE \E c \in ShortColumns : x \in InOf(c) \/ x \in LikesOf(c)
  <2>1. \A c \in ShortColumns : c \in Columns
    BY DEF Columns
  <2>2. QED BY <1>2, <2>1, InsSound, LikesSound
<1>3. CASE \E c \in BoolColumns : x = BoolExpr(c)
  <2>1. PICK c \in BoolColumns : x = BoolExpr(c)
    BY <1>3
  <2>2. c \in Columns
    BY QueriesAssumption DEF Columns
  <2>3. Sound(x)
    BY <2>1, <2>2, BoolSound
  <2>4. QED BY <2>1, <2>3, OneConditionIs DEF BoolExpr
<1>4. CASE \E c \in NativeColumns : x \in NativesOf(c)
  BY <1>4, NativesSound
<1>5. CASE \E b \in BOOLEAN : x = Literal(b)
  <2>1. PICK b \in BOOLEAN : x = Literal(b)
    BY <1>5
  <2>2. Sound(x)
    BY <2>1, LiteralSound
  <2>3. QED BY <2>1, <2>2, OneConditionIs DEF Literal
<1> DEFINE A == UNION {ComparisonsOf(c) \cup NullTestsOf(c) : c \in Columns}
           B == UNION {InOf(c) \cup LikesOf(c) : c \in ShortColumns}
           C == {BoolExpr(c) : c \in BoolColumns}
           D == UNION {NativesOf(c) : c \in NativeColumns}
           E == {Literal(b) : b \in BOOLEAN}
<1>6. Conditions = A \cup B \cup C \cup D \cup E
  BY Zenon DEF Conditions
<1>7. x \in A => \E c \in Columns : x \in ComparisonsOf(c) \/ x \in NullTestsOf(c)
  BY Zenon
<1>8. x \in B => \E c \in ShortColumns : x \in InOf(c) \/ x \in LikesOf(c)
  BY Zenon
<1>9. x \in D => \E c \in NativeColumns : x \in NativesOf(c)
  BY Zenon
<1>10. (x \in C => \E c \in BoolColumns : x = BoolExpr(c)) /\ (x \in E => \E b \in BOOLEAN : x = Literal(b))
  BY Zenon
<1> HIDE DEF A, B, C, D, E
<1>11. QED BY <1>1, <1>2, <1>3, <1>4, <1>5, <1>6, <1>7, <1>8, <1>9, <1>10

\* What is combined is a condition.
LEMMA OperandsSound ==
  ASSUME NEW x \in Operands
  PROVE  OneCondition(x)
BY OperandsAssumption, ConditionsSound

------------------------------------------------------------------------------
\* Conditions that are combined mean what they are said to.

\* A query, and a common one, that mean f.
Says(q, f) == \E W : Built(q, W) /\ Means(W, f)
Gives(s, f) == \E q : Makes(s, q) /\ Says(q, f)

\* Soundness in these words
LEMMA SoundIs ==
  ASSUME NEW x
  PROVE  Sound(x) <=> x.means \in Meanings /\ Says(x.query, x.means) /\ Gives(x.common, x.means)
BY DEF Sound, Says, Gives

\* ... or what agrees with it.
LEMMA SaysSame ==
  ASSUME NEW q, NEW f, Says(q, f), NEW g, \A v \in Valuations : g[v] = f[v]
  PROVE  Says(q, g)
<1>1. PICK W : Built(q, W) /\ Means(W, f)
  BY DEF Says
<1>2. Reads(W, g)
  BY <1>1 DEF Means, Reads
<1>3. Means(W, g)
  BY <1>1, <1>2 DEF Means
<1>4. QED BY <1>1, <1>3 DEF Says

\* One word alone
LEMMA BuiltOne ==
  ASSUME NEW q, NEW W, Built(q, W), NEW x \in Parts, q.clause = <<x>>, NEW w, Written(x) = <<Word(w)>>
  PROVE  W = <<Word(w)>>
<1>1. Tokens(q.clause) = <<Word(w)>>
  BY TokensOne
<1>2. Text(W) = <<Word(w)>> /\ W \in Seq(Pieces)
  BY <1>1 DEF Built
<1>3. Len(Text(W)) = 1 /\ Text(W)[1] = Word(w)
  BY <1>2
<1>4. Len(W) = 1 /\ (Text(W)[1] # Param => Text(W)[1] = W[1])
  BY <1>2, <1>3, TextType
<1>5. Word(w) # Param
  BY DEF Word, Param
<1>6. W[1] = Word(w)
  BY <1>3, <1>4, <1>5
<1>7. QED BY <1>2, <1>4, <1>6

\* One word means one thing.
LEMMA OneWordMeans ==
  ASSUME NEW w, NEW f, NEW g, Reads(<<Word(w)>>, f), Reads(<<Word(w)>>, g), NEW v \in Valuations
  PROVE  f[v] = g[v]
<1> DEFINE t == <<Word(w)>>
<1>1. Len(t) = 1 /\ t[1] = Word(w) /\ At(t, 2) = <<"end">>
  <2>1. Len(t) = 1 /\ t[1] = Word(w)
    OBVIOUS
  <2> HIDE DEF t
  <2>2. QED BY <2>1 DEF At
<1>2. Given(t[1], v) = t[1]
  BY <1>1, WordGiven
<1>3. Reads(t, f) /\ Reads(t, g)
  OBVIOUS
<1> HIDE DEF t
<1>4. Stands(t, 1, t, 2, v)
  BY <1>1, <1>2 DEF Stands
<1>5. IsReading(t, Reading(t))
  BY <1>1, ReadingIs
<1>6. At(t, 2) \in Ends /\ At(t, 2) # Word("OR")
  BY <1>1, EndsAre
<1>7. \A h : Reads(t, h) => Reading(t)[1].or = ReadOr(t, Done(h[v], 2), Reading(t))
  BY <1>4, <1>5, <1>6 DEF Reads
<1>8. \A h : ReadOr(t, Done(h[v], 2), Reading(t)) = Done(h[v], 2)
  BY <1>6, NoOr
<1>9. Done(f[v], 2) = Done(g[v], 2)
  BY <1>3, <1>7, <1>8
<1>10. QED BY <1>9, DoneIs

\* TRUE alone
LEMMA BuiltTrue ==
  ASSUME NEW q, NEW W, Built(q, W), ConstTrue(q)
  PROVE  W = <<Word("1 = 1")>>
<1>1. q.clause = <<Bool(TRUE)>> /\ Bool(TRUE) \in Parts
  BY BoolPart DEF ConstTrue
<1>2. Written(Bool(TRUE)) = <<Word("1 = 1")>>
  BY WrittenParts
<1> DEFINE w == "1 = 1"
           x == Bool(TRUE)
<1>3. Written(x) = <<Word(w)>> /\ q.clause = <<x>> /\ x \in Parts
  BY <1>1, <1>2
<1> HIDE DEF w, x
<1>4. W = <<Word(w)>>
  BY <1>3, BuiltOne
<1>5. QED BY <1>4 DEF w

\* TRUE means every row.
LEMMA TrueMeans ==
  ASSUME NEW f, Means(<<Word("1 = 1")>>, f), NEW v \in Valuations
  PROVE  f[v] = Always(TRUE)
<1> DEFINE h == [u \in Valuations |-> Always(TRUE)]
<1>1. h[v] = Always(TRUE)
  OBVIOUS
<1>2. ReadsNot(<<Word("1 = 1")>>, h)
  <2>1. ReadsNot(<<Word(IF TRUE THEN "1 = 1" ELSE "1 = 0")>>, h)
    BY LiteralReads
  <2>2. QED BY <2>1, Zenon
<1> HIDE DEF h
<1>3. Reads(<<Word("1 = 1")>>, f) /\ <<Word("1 = 1")>> \in Seq(Pieces)
  BY DEF Means
<1>4. Reads(<<Word("1 = 1")>>, h)
  BY <1>2, <1>3, NotReads
<1>5. f[v] = h[v]
  BY <1>3, <1>4, OneWordMeans
<1>6. QED BY <1>1, <1>5

\* A query that is TRUE alone
LEMMA SaysTrue ==
  ASSUME NEW q, NEW f, Says(q, f), ConstTrue(q), NEW v \in Valuations
  PROVE  f[v] = Always(TRUE)
<1>1. PICK W : Built(q, W) /\ Means(W, f)
  BY DEF Says
<1>2. W = <<Word("1 = 1")>>
  BY <1>1, BuiltTrue
<1>3. QED BY <1>1, <1>2, TrueMeans

\* TRUE changes no AND.
LEMMA AndTrue ==
  ASSUME NEW f \in [Rows -> 0..2]
  PROVE  AndOf(f, Always(TRUE)) = f /\ AndOf(Always(TRUE), f) = f
<1>1. \A row \in Rows : Always(TRUE)[row] = 2
  BY DEF Always, Truth
<1>2. \A row \in Rows : f[row] \in 0..2
  OBVIOUS
<1>3. \A row \in Rows : Conjoined(f[row], Always(TRUE)[row]) = f[row] /\ Conjoined(Always(TRUE)[row], f[row]) = f[row]
  <2>1. \A n \in 0..2 : Conjoined(n, 2) = n /\ Conjoined(2, n) = n
    BY DEF Conjoined
  <2>2. QED BY <1>1, <1>2, <2>1
<1>4. f = [row \in Rows |-> f[row]]
  OBVIOUS
<1>5. QED BY <1>3, <1>4 DEF AndOf

\* AND, with TRUE left out
LEMMA SaysAnd ==
  ASSUME NEW x, NEW f \in Meanings, Says(x, f), NEW y, NEW g \in Meanings, Says(y, g)
  PROVE  Says(And(x, y), [v \in Valuations |-> AndOf(f[v], g[v])])
<1> DEFINE h == [v \in Valuations |-> AndOf(f[v], g[v])]
<1>0. \A v \in Valuations : h[v] = AndOf(f[v], g[v]) /\ f[v] \in [Rows -> 0..2] /\ g[v] \in [Rows -> 0..2]
  BY DEF Meanings
<1>1. PICK W : Built(x, W) /\ Means(W, f)
  BY DEF Says
<1>2. PICK V : Built(y, V) /\ Means(V, g)
  BY DEF Says
<1>3. Copy(x) = x /\ Copy(y) = y
  BY <1>1, <1>2, CopyIs DEF Built
<1>4. CASE ConstTrue(y)
  <2> HIDE DEF h
  <2>1. ASSUME NEW v \in Valuations PROVE h[v] = f[v]
    <3>1. g[v] = Always(TRUE)
      BY <1>4, SaysTrue
    <3>2. QED BY <1>0, <3>1, AndTrue
  <2>2. And(x, y) = x
    BY <1>3, <1>4 DEF And
  <2>3. Says(x, h)
    BY <2>1, SaysSame
  <2>4. QED BY <2>2, <2>3 DEF h
<1>5. CASE ~ConstTrue(y) /\ ConstTrue(x)
  <2> HIDE DEF h
  <2>1. ASSUME NEW v \in Valuations PROVE h[v] = g[v]
    <3>1. f[v] = Always(TRUE)
      BY <1>5, SaysTrue
    <3>2. QED BY <1>0, <3>1, AndTrue
  <2>2. And(x, y) = y
    BY <1>3, <1>5 DEF And
  <2>3. Says(y, h)
    BY <2>1, SaysSame
  <2>4. QED BY <2>2, <2>3 DEF h
<1>6. CASE ~ConstTrue(y) /\ ~ConstTrue(x)
  <2>1. And(x, y) = Joined(x, <<")", "AND", "(">>, y)
    BY <1>6 DEF And
  <2>2. Built(Joined(x, <<")", "AND", "(">>, y), InParentheses(W, Joint("AND"), V))
    BY <1>1, <1>2, BuiltJoined
  <2>3. Means(InParentheses(W, Joint("AND"), V), h)
    BY <1>1, <1>2, MeansBoth
  <2>4. QED BY <2>1, <2>2, <2>3 DEF Says
<1>7. QED BY <1>4, <1>5, <1>6

\* OR
LEMMA SaysOr ==
  ASSUME NEW x, NEW f, Says(x, f), NEW y, NEW g, Says(y, g)
  PROVE  Says(Or(x, y), [v \in Valuations |-> OrOf(f[v], g[v])])
<1>1. PICK W : Built(x, W) /\ Means(W, f)
  BY DEF Says
<1>2. PICK V : Built(y, V) /\ Means(V, g)
  BY DEF Says
<1>3. Built(Joined(x, <<")", "OR", "(">>, y), InParentheses(W, Joint("OR"), V))
  BY <1>1, <1>2, BuiltJoined
<1>4. Means(InParentheses(W, Joint("OR"), V), [v \in Valuations |-> OrOf(f[v], g[v])])
  BY <1>1, <1>2, MeansBoth
<1>5. QED BY <1>3, <1>4 DEF Says, Or

\* NOT
LEMMA SaysNot ==
  ASSUME NEW x, NEW f, Says(x, f)
  PROVE  Says(Negated(x), [v \in Valuations |-> NotOf(f[v])])
<1>1. PICK W : Built(x, W) /\ Means(W, f)
  BY DEF Says
<1>2. Built(Negated(x), Negation(W))
  BY <1>1, BuiltNegated
<1>3. Means(Negation(W), [v \in Valuations |-> NotOf(f[v])])
  BY <1>1, MeansNegation
<1>4. QED BY <1>2, <1>3 DEF Says

\* Text with an OR in it, however it is added
LEMMA SaysTextOr ==
  ASSUME NEW x, NEW f, Says(x, f), NEW y, NEW g, Says(y, g)
  PROVE  /\ Says(Added(x, TextAdded(<<"OR">>, y)), [v \in Valuations |-> OrOf(f[v], g[v])])
         /\ Says(Added(AddedText(x, <<"OR">>), y), [v \in Valuations |-> OrOf(f[v], g[v])])
<1> DEFINE h == [v \in Valuations |-> OrOf(f[v], g[v])]
<1>1. PICK W : Built(x, W) /\ Means(W, f)
  BY DEF Says
<1>2. PICK V : Built(y, V) /\ Means(V, g)
  BY DEF Says
<1>3. "OR" \in Vocabulary /\ <<"OR">> \in Seq(Vocabulary) \ {<<>>} /\ Words(<<"OR">>) = <<Word("OR")>>
  BY SqlWordsAre, OneWord
<1>4. Means(W \o (<<Word("OR")>> \o V), h)
  BY <1>1, <1>2, MeansOr
<1>5. Copy(x) = x
  BY <1>1, CopyIs DEF Built
<1> HIDE DEF h
<1>6. Says(Added(x, TextAdded(<<"OR">>, y)), h)
  <2>1. Built(TextAdded(<<"OR">>, y), <<Word("OR")>> \o V)
    <3>1. Built(Part(Native(<<"OR">>)), <<Word("OR")>>)
      BY <1>3, NativePart
    <3>2. QED BY <1>2, <3>1, BuiltPlus DEF TextAdded
  <2>2. Built(Plus(x, TextAdded(<<"OR">>, y)), W \o (<<Word("OR")>> \o V))
    BY <1>1, <2>1, BuiltPlus
  <2>3. QED BY <1>4, <1>5, <2>2 DEF Added, Says
<1>7. Says(Added(AddedText(x, <<"OR">>), y), h)
  <2> DEFINE z == AddedText(x, <<"OR">>)
  <2>1. Built(z, W \o <<Word("OR")>>)
    BY <1>1, <1>3, <1>5, BuiltWord DEF AddedText
  <2> HIDE DEF z
  <2>2. Copy(z) = z
    BY <2>1, CopyIs DEF Built
  <2>3. Built(Plus(z, y), (W \o <<Word("OR")>>) \o V)
    BY <1>2, <2>1, BuiltPlus
  <2>4. W \in Seq(Pieces) /\ V \in Seq(Pieces) /\ <<Word("OR")>> \in Seq(Pieces)
    BY <1>1, <1>2, SmallWords DEF Built
  <2>5. (W \o <<Word("OR")>>) \o V = W \o (<<Word("OR")>> \o V)
    BY <2>4, AssocPieces
  <2>6. Says(Plus(z, y), h)
    BY <1>4, <2>3, <2>5 DEF Says
  <2>7. QED BY <2>2, <2>6 DEF Added, z
<1>8. QED BY <1>6, <1>7 DEF h

\* The same for common queries.
LEMMA GivesOne ==
  ASSUME NEW s, NEW f, Gives(s, f), IsTrue(s), NEW v \in Valuations
  PROVE  f[v] = Always(TRUE)
<1>1. PICK q : Makes(s, q) /\ Says(q, f)
  BY DEF Gives
<1>2. Makes(Leaf("true", <<>>), Part(Bool(TRUE)))
  <2>1. Makes(Leaf(IF TRUE THEN "true" ELSE "false", <<>>), Part(Bool(TRUE)))
    BY BoolMakes
  <2>2. QED BY <2>1
<1>3. q = Part(Bool(TRUE))
  <2>1. Translated(s) = q /\ Translated(s) = Part(Bool(TRUE))
    BY <1>1, <1>2, MakesTranslated DEF IsTrue
  <2>2. QED BY <2>1
<1>4. ConstTrue(q)
  BY <1>3 DEF ConstTrue, Part, None
<1>5. QED BY <1>1, <1>4, SaysTrue

\* The same for the common query
LEMMA GivesSame ==
  ASSUME NEW s, NEW f, Gives(s, f), NEW g, \A v \in Valuations : g[v] = f[v]
  PROVE  Gives(s, g)
<1>1. PICK q : Makes(s, q) /\ Says(q, f)
  BY DEF Gives
<1>2. Says(q, g)
  BY <1>1, SaysSame
<1>3. QED BY <1>1, <1>2 DEF Gives

\* AND and OR of common queries
LEMMA GivesBoth ==
  ASSUME NEW s, NEW f, Gives(s, f), NEW t, NEW g, Gives(t, g)
  PROVE  /\ Gives(Combined("op_and", s, t), [v \in Valuations |-> AndOf(f[v], g[v])])
         /\ Gives(Combined("op_or", s, t), [v \in Valuations |-> OrOf(f[v], g[v])])
<1>1. PICK x : Makes(s, x) /\ Says(x, f)
  BY DEF Gives
<1>2. PICK y : Makes(t, y) /\ Says(y, g)
  BY DEF Gives
<1>3. PICK W : Built(x, W) /\ Means(W, f)
  BY <1>1 DEF Says
<1>4. PICK V : Built(y, V) /\ Means(V, g)
  BY <1>2 DEF Says
<1>5. /\ "op_and" \in Binary /\ "op_or" \in Binary
      /\ "op_and" \notin Comparisons /\ "op_or" \notin Comparisons
  BY DEF Binary, Comparisons
<1>6. /\ Put("op_and", x, y) =
           AppendNative(Glued(Part(Native(<<"(">>)), Glued(AppendNative(x, <<")", "AND", "(">>), y)), <<")">>)
      /\ Put("op_or", x, y) =
           AppendNative(Glued(Part(Native(<<"(">>)), Glued(AppendNative(x, <<")", "OR", "(">>), y)), <<")">>)
  BY <1>5 DEF Put
<1>7. /\ Makes(Combined("op_and", s, t), Put("op_and", x, y))
      /\ Makes(Combined("op_or", s, t), Put("op_or", x, y))
  BY <1>1, <1>2, <1>5, CombinedMakes
<1>8. /\ Built(Put("op_and", x, y), InParentheses(W, Joint("AND"), V))
      /\ Built(Put("op_or", x, y), InParentheses(W, Joint("OR"), V))
  BY <1>3, <1>4, <1>6, BuiltLogic
<1>9. /\ Means(InParentheses(W, Joint("AND"), V), [v \in Valuations |-> AndOf(f[v], g[v])])
      /\ Means(InParentheses(W, Joint("OR"), V), [v \in Valuations |-> OrOf(f[v], g[v])])
  BY <1>3, <1>4, MeansBoth
<1>10. QED BY <1>7, <1>8, <1>9 DEF Gives, Says

\* AND, with TRUE left out
LEMMA GivesAnd ==
  ASSUME NEW s, NEW f \in Meanings, Gives(s, f), NEW t, NEW g \in Meanings, Gives(t, g)
  PROVE  Gives(CommonAnd(s, t), [v \in Valuations |-> AndOf(f[v], g[v])])
<1> DEFINE h == [v \in Valuations |-> AndOf(f[v], g[v])]
<1>1. \A v \in Valuations : h[v] = AndOf(f[v], g[v]) /\ f[v] \in [Rows -> 0..2] /\ g[v] \in [Rows -> 0..2]
  BY DEF Meanings
<1>2. Gives(Combined("op_and", s, t), h)
  BY GivesBoth
<1> HIDE DEF h
<1>3. CASE IsTrue(t)
  <2>1. ASSUME NEW v \in Valuations PROVE h[v] = f[v]
    <3>1. g[v] = Always(TRUE)
      BY <1>3, GivesOne
    <3>2. QED BY <1>1, <3>1, AndTrue
  <2>2. Gives(s, h)
    BY <2>1, GivesSame
  <2>3. CommonAnd(s, t) = s
    BY <1>3 DEF CommonAnd
  <2>4. QED BY <2>2, <2>3 DEF h
<1>4. CASE ~IsTrue(t) /\ IsTrue(s)
  <2>1. ASSUME NEW v \in Valuations PROVE h[v] = g[v]
    <3>1. f[v] = Always(TRUE)
      BY <1>4, GivesOne
    <3>2. QED BY <1>1, <3>1, AndTrue
  <2>2. Gives(t, h)
    BY <2>1, GivesSame
  <2>3. CommonAnd(s, t) = t
    BY <1>4 DEF CommonAnd
  <2>4. QED BY <2>2, <2>3 DEF h
<1>5. CASE ~IsTrue(t) /\ ~IsTrue(s)
  <2>1. CommonAnd(s, t) = Combined("op_and", s, t)
    BY <1>5 DEF CommonAnd
  <2>2. QED BY <1>2, <2>1 DEF h
<1>6. QED BY <1>3, <1>4, <1>5

\* NOT
LEMMA GivesNot ==
  ASSUME NEW s, NEW f, Gives(s, f)
  PROVE  Gives(CommonNot(s), [v \in Valuations |-> NotOf(f[v])])
<1>1. PICK x : Makes(s, x) /\ Says(x, f)
  BY DEF Gives
<1>2. PICK W : Built(x, W) /\ Means(W, f)
  BY <1>1 DEF Says
<1>3. Makes(CommonNot(s), PutAfter("op_not", x))
  BY <1>1, PostfixMakes DEF CommonNot, Postfix
<1>4. PutAfter("op_not", x) = AppendNative(Glued(Part(Native(<<"NOT", "(">>)), x), <<")">>)
  BY DEF PutAfter
<1>5. Built(PutAfter("op_not", x), Negation(W))
  BY <1>2, <1>4, BuiltNegated
<1>6. Means(Negation(W), [v \in Valuations |-> NotOf(f[v])])
  BY <1>2, MeansNegation
<1>7. QED BY <1>3, <1>5, <1>6 DEF Gives, Says

\* OR as text
LEMMA GivesTextOr ==
  ASSUME NEW s, NEW f, Gives(s, f), NEW t, NEW g, Gives(t, g)
  PROVE  Gives(CommonAdd(CommonAdd(s, Leaf("native", <<"OR">>)), t), [v \in Valuations |-> OrOf(f[v], g[v])])
<1>1. PICK x : Makes(s, x) /\ Says(x, f)
  BY DEF Gives
<1>2. PICK y : Makes(t, y) /\ Says(y, g)
  BY DEF Gives
<1>3. PICK W : Built(x, W) /\ Means(W, f)
  BY <1>1 DEF Says
<1>4. PICK V : Built(y, V) /\ Means(V, g)
  BY <1>2 DEF Says
<1>5. <<"OR">> \in Seq(Vocabulary) \ {<<>>} /\ Words(<<"OR">>) = <<Word("OR")>>
  BY SqlWordsAre, OneWord
<1> DEFINE o == Part(Native(<<"OR">>))
<1>6. Makes(Leaf("native", <<"OR">>), o) /\ Built(o, <<Word("OR")>>)
  BY <1>5, NativeMakes, NativePart
<1> HIDE DEF o
<1>7. Makes(CommonAdd(CommonAdd(s, Leaf("native", <<"OR">>)), t), Glued(Glued(x, o), y))
  BY <1>1, <1>2, <1>6, AddMakes
<1>8. Built(Glued(Glued(x, o), y), (W \o <<Word("OR")>>) \o V)
  BY <1>3, <1>4, <1>6, BuiltGlued
<1>9. W \in Seq(Pieces) /\ V \in Seq(Pieces) /\ <<Word("OR")>> \in Seq(Pieces)
  BY <1>3, <1>4, SmallWords DEF Built
<1>10. (W \o <<Word("OR")>>) \o V = W \o (<<Word("OR")>> \o V)
  BY <1>9, AssocPieces
<1>11. Means(W \o (<<Word("OR")>> \o V), [v \in Valuations |-> OrOf(f[v], g[v])])
  BY <1>3, <1>4, MeansOr
<1>12. QED BY <1>7, <1>8, <1>10, <1>11 DEF Gives, Says

\* Queries that are combined
LEMMA SoundAnd ==
  ASSUME NEW x, Sound(x), NEW y, Sound(y)
  PROVE  Sound(AndExpr(x, y))
<1> DEFINE h == BothMean(x, y)
           q == And(x.query, y.query)
           s == CommonAnd(x.common, y.common)
<1>1. /\ x.means \in Meanings /\ Says(x.query, x.means) /\ Gives(x.common, x.means)
      /\ y.means \in Meanings /\ Says(y.query, y.means) /\ Gives(y.common, y.means)
  BY SoundIs
<1>2. h \in Meanings /\ Says(q, h) /\ Gives(s, h)
  <2>1. h \in Meanings
    BY <1>1, TruthTypes DEF BothMean, Meanings
  <2>2. Says(q, h) /\ Gives(s, h)
    BY <1>1, SaysAnd, GivesAnd, Zenon DEF BothMean
  <2>3. QED BY <2>1, <2>2
<1>3. PICK n : n = x.conditions + y.conditions
  OBVIOUS
<1>4. PICK z : z = AndExpr(x, y) /\ z = Expr(q, s, h, n)
  BY <1>3 DEF AndExpr, Both
<1> HIDE DEF h, q, s
<1>5. z.query = q /\ z.common = s /\ z.means = h
  BY <1>4 DEF Expr
<1>6. Sound(z)
  BY <1>2, <1>5, SoundIs
<1>7. QED BY <1>4, <1>6

\* OR, by the operator and as text
LEMMA SoundOr ==
  ASSUME NEW x, Sound(x), NEW y, Sound(y)
  PROVE  Sound(OrExpr(x, y)) /\ Sound(TextOrExpr(x, y))
<1> DEFINE h == EitherMeans(x, y)
           q == Or(x.query, y.query)
           s == CommonOr(x.common, y.common)
           p == IF x.conditions = 1 THEN Added(x.query, TextAdded(<<"OR">>, y.query))
                ELSE Added(AddedText(x.query, <<"OR">>), y.query)
           t == CommonAdd(CommonAdd(x.common, Leaf("native", <<"OR">>)), y.common)
<1>1. /\ x.means \in Meanings /\ Says(x.query, x.means) /\ Gives(x.common, x.means)
      /\ y.means \in Meanings /\ Says(y.query, y.means) /\ Gives(y.common, y.means)
  BY SoundIs
<1>2. h \in Meanings /\ Says(q, h) /\ Gives(s, h)
  <2>1. h \in Meanings
    BY <1>1, TruthTypes DEF EitherMeans, Meanings
  <2>2. Says(q, h) /\ Gives(s, h)
    BY <1>1, SaysOr, GivesBoth, Zenon DEF EitherMeans, CommonOr
  <2>3. QED BY <2>1, <2>2
<1>3. Says(p, h) /\ Gives(t, h)
  BY <1>1, SaysTextOr, GivesTextOr, Zenon DEF EitherMeans
<1>4. PICK n : n = x.conditions + y.conditions
  OBVIOUS
<1>5. PICK z : z = OrExpr(x, y) /\ z = Expr(q, s, h, n)
  BY <1>4 DEF OrExpr, Both
<1>6. PICK u : u = TextOrExpr(x, y) /\ u = Expr(p, t, h, n)
  BY <1>4 DEF TextOrExpr, Both
<1> HIDE DEF h, q, s, p, t
<1>7. z.query = q /\ z.common = s /\ z.means = h
  BY <1>5 DEF Expr
<1>8. u.query = p /\ u.common = t /\ u.means = h
  BY <1>6 DEF Expr
<1>9. Sound(z) /\ Sound(u)
  BY <1>2, <1>3, <1>7, <1>8, SoundIs
<1>10. QED BY <1>5, <1>6, <1>9

\* NOT
LEMMA SoundNot ==
  ASSUME NEW x, Sound(x)
  PROVE  Sound(NotExpr(x))
<1> DEFINE h == [v \in Valuations |-> NotOf(x.means[v])]
           q == Negated(x.query)
           s == CommonNot(x.common)
<1>1. x.means \in Meanings /\ Says(x.query, x.means) /\ Gives(x.common, x.means)
  BY SoundIs
<1>2. h \in Meanings /\ Says(q, h) /\ Gives(s, h)
  BY <1>1, SaysNot, GivesNot, TruthTypes DEF Meanings
<1>3. NotExpr(x) = [Expr(q, s, h, x.conditions) EXCEPT !.negated = TRUE]
  BY DEF NotExpr
<1> HIDE DEF h, q, s
<1>4. NotExpr(x).query = q /\ NotExpr(x).common = s /\ NotExpr(x).means = h
  BY <1>3 DEF Expr
<1>5. QED BY <1>2, <1>4, SoundIs

------------------------------------------------------------------------------
\* The finished text, with the WHERE, the ORDER BY and the optimised TRUE.

\* A finished text: a condition or none, and what the rows are ordered by.
OrderBy == Word("ORDER BY")
Ordering(c) == <<OrderBy, Column(c)>>
Condenses(V, f) == V \in Seq(Pieces) /\ Free(V) /\ IF V = <<>> THEN f = Everything ELSE Reads(V, f)
Phrase(W, f) == \E V : Condenses(V, f) /\ (W = V \/ \E c \in Columns : W = V \o Ordering(c))
TextSays(q, f) == \E W : Built(q, W) /\ Phrase(W, f)
TextGives(s, f) == \E q : Makes(s, q) /\ TextSays(q, f)

\* A condition is one.
LEMMA MeansCondenses ==
  ASSUME NEW W, NEW f, Means(W, f)
  PROVE  Condenses(W, f)
BY DEF Means, Condenses

\* Nothing selects every row.
LEMMA NothingCondenses == Condenses(<<>>, Everything)
<1>1. <<>> \in Seq(Pieces) /\ Len(<<>>) = 0
  OBVIOUS
<1>2. Free(<<>>)
  BY <1>1 DEF Free
<1>3. QED BY <1>1, <1>2 DEF Condenses

\* A condition is a finished text,
LEMMA SaysText ==
  ASSUME NEW q, NEW f, Says(q, f)
  PROVE  TextSays(q, f)
BY MeansCondenses DEF Says, TextSays, Phrase

\* in a common query, too.
LEMMA GivesText ==
  ASSUME NEW s, NEW f, Gives(s, f)
  PROVE  TextGives(s, f)
BY SaysText DEF Gives, TextGives

\* ORDER BY is a word, as text and in a common query.
LEMMA OrderWord ==
  /\ "ORDER BY" \in Vocabulary /\ Word("ORDER BY") \in Pieces /\ <<Word("ORDER BY")>> \in Seq(Pieces)
  /\ Built(Part(Native(<<"ORDER BY">>)), <<Word("ORDER BY")>>)
  /\ Makes(Leaf("native", <<"ORDER BY">>), Part(Native(<<"ORDER BY">>)))
<1> DEFINE w == "ORDER BY"
<1>1. w \in Vocabulary
  BY SqlWordsAre
<1> HIDE DEF w
<1>2. Word(w) \in Pieces /\ <<Word(w)>> \in Seq(Pieces)
  BY <1>1, PieceTypes, SinglePiece
<1>3. <<w>> \in Seq(Vocabulary) \ {<<>>} /\ Words(<<w>>) = <<Word(w)>>
  BY <1>1, OneWord
<1>4. Built(Part(Native(<<w>>)), <<Word(w)>>) /\ Makes(Leaf("native", <<w>>), Part(Native(<<w>>)))
  BY <1>3, NativePart, NativeMakes
<1>5. QED BY <1>1, <1>2, <1>4 DEF w

\* ORDER BY and a column
LEMMA OrderingIs ==
  ASSUME NEW W \in Seq(Pieces), NEW c \in Columns
  PROVE  /\ (W \o <<Word("ORDER BY")>>) \o <<Column(c)>> = W \o Ordering(c)
         /\ Ordering(c) \in Seq(Pieces) /\ <<Word("ORDER BY")>> \o <<Column(c)>> = Ordering(c)
         /\ <<>> \o Ordering(c) = Ordering(c)
<1>1. Word("ORDER BY") \in Pieces /\ Column(c) \in Pieces
  BY OrderWord, PieceTypes
<1>2. <<Word("ORDER BY")>> \in Seq(Pieces) /\ <<Column(c)>> \in Seq(Pieces)
  BY <1>1, SinglePiece
<1>3. <<Word("ORDER BY")>> \o <<Column(c)>> = Ordering(c) /\ Ordering(c) \in Seq(Pieces)
  BY <1>1, TwoPieces DEF Ordering, OrderBy
<1>4. (W \o <<Word("ORDER BY")>>) \o <<Column(c)>> = W \o (<<Word("ORDER BY")>> \o <<Column(c)>>)
  BY <1>2, AssocPieces
<1>5. <<>> \o Ordering(c) = Ordering(c)
  BY <1>3, ConcatEmptySeq
<1>6. QED BY <1>3, <1>4, <1>5

\* Adding the ORDER BY, to a condition or to nothing
LEMMA TextOrdered ==
  ASSUME NEW q, NEW W, NEW f, Built(q, W), Condenses(W, f), NEW c \in Columns
  PROVE  /\ TextSays(AddedColumn(AddedText(q, <<"ORDER BY">>), c), f)
         /\ TextSays(Glued(Glued(q, Part(Native(<<"ORDER BY">>))), Part(Column(c))), f)
<1> DEFINE U == W \o <<Word("ORDER BY")>>
           X == U \o <<Column(c)>>
<1>1. W \in Seq(Pieces) /\ Copy(q) = q
  BY CopyIs DEF Condenses, Built
<1>2. X = W \o Ordering(c)
  BY <1>1, OrderingIs
<1>3. Phrase(X, f)
  BY <1>2 DEF Phrase
<1>4. Built(AddedText(q, <<"ORDER BY">>), U)
  BY <1>1, OrderWord, BuiltWord DEF AddedText
<1>5. Built(Glued(q, Part(Native(<<"ORDER BY">>))), U)
  BY OrderWord, BuiltGlued
<1> HIDE DEF U
<1>6. Built(AddedColumn(AddedText(q, <<"ORDER BY">>), c), X)
  <2> DEFINE z == AddedText(q, <<"ORDER BY">>)
  <2>1. Built(z, U)
    BY <1>4
  <2> HIDE DEF z
  <2>2. Copy(z) = z
    BY <2>1, CopyIs DEF Built
  <2>3. Built(AppendColumn(z, c), X)
    BY <2>1, BuiltColumn
  <2>4. AddedColumn(z, c) = AppendColumn(z, c)
    BY <2>2 DEF AddedColumn
  <2>5. QED BY <2>3, <2>4 DEF z
<1>7. Built(Glued(Glued(q, Part(Native(<<"ORDER BY">>))), Part(Column(c))), X)
  BY <1>5, ColumnPart, BuiltGlued
<1> HIDE DEF X
<1>8. QED BY <1>3, <1>6, <1>7 DEF TextSays

\* A common query with ORDER BY
LEMMA GivesOrdered ==
  ASSUME NEW s, NEW f, Gives(s, f), NEW c \in Columns
  PROVE  TextGives(CommonAdd(CommonAdd(s, Leaf("native", <<"ORDER BY">>)), CommonColumn(Column(c))), f)
<1>1. PICK q : Makes(s, q) /\ Says(q, f)
  BY DEF Gives
<1>2. PICK W : Built(q, W) /\ Condenses(W, f)
  BY <1>1, MeansCondenses DEF Says
<1> DEFINE o == Part(Native(<<"ORDER BY">>))
           l == Leaf("native", <<"ORDER BY">>)
<1>3. Makes(l, o) /\ Makes(CommonColumn(Column(c)), Part(Column(c)))
  BY OrderWord, ColumnMakes
<1>4. TextSays(Glued(Glued(q, o), Part(Column(c))), f)
  BY <1>2, TextOrdered
<1> HIDE DEF o, l
<1>5. Makes(CommonAdd(s, l), Glued(q, o))
  BY <1>1, <1>3, AddMakes
<1>6. Makes(CommonAdd(CommonAdd(s, l), CommonColumn(Column(c))), Glued(Glued(q, o), Part(Column(c))))
  BY <1>3, <1>5, AddMakes
<1>7. QED BY <1>4, <1>6 DEF TextGives, l

\* ORDER BY alone
LEMMA GivesOnlyOrdered ==
  ASSUME NEW c \in Columns
  PROVE  TextGives(CommonAdd(CommonAdd(<<>>, Leaf("native", <<"ORDER BY">>)), CommonColumn(Column(c))), Everything)
<1> DEFINE o == Part(Native(<<"ORDER BY">>))
           l == Leaf("native", <<"ORDER BY">>)
           z == Glued(o, Part(Column(c)))
<1>1. Makes(l, o) /\ Makes(CommonColumn(Column(c)), Part(Column(c)))
  BY OrderWord, ColumnMakes
<1>2. CommonAdd(<<>>, l) = l
  BY DEF CommonAdd
<1>3. Built(o, <<Word("ORDER BY")>>) /\ Built(Part(Column(c)), <<Column(c)>>)
  BY OrderWord, ColumnPart
<1> HIDE DEF o, l
<1>4. Makes(CommonAdd(l, CommonColumn(Column(c))), z)
  BY <1>1, AddMakes
<1>5. Built(z, <<Word("ORDER BY")>> \o <<Column(c)>>)
  BY <1>3, BuiltGlued
<1>6. <<Word("ORDER BY")>> \o <<Column(c)>> = <<>> \o Ordering(c)
  <2>1. <<>> \in Seq(Pieces)
    OBVIOUS
  <2>2. QED BY <2>1, OrderingIs
<1>7. Phrase(<<Word("ORDER BY")>> \o <<Column(c)>>, Everything)
  BY <1>6, NothingCondenses DEF Phrase
<1> HIDE DEF z
<1>8. TextSays(z, Everything)
  BY <1>5, <1>7 DEF TextSays
<1>9. QED BY <1>2, <1>4, <1>8 DEF TextGives, l

\* The first piece is that of the first part.
LEMMA FirstPart ==
  ASSUME NEW q, NEW W, Built(q, W), q.clause # <<>>
  PROVE  /\ W # <<>> /\ W \in Seq(Pieces) /\ Len(W) \in Nat /\ Len(W) >= 1
         /\ Head(q.clause) \in Parts /\ Text(W)[1] = Written(Head(q.clause))[1]
<1>1. q.clause \in Seq(Parts) /\ W \in Seq(Pieces) /\ Tokens(q.clause) = Text(W)
  BY DEF Built, Matched, Query
<1>2. PICK x \in Parts, s \in Seq(Parts) : x = Head(q.clause) /\ s = Tail(q.clause) /\ q.clause = <<x>> \o s
  <2>1. Head(q.clause) \in Parts /\ Tail(q.clause) \in Seq(Parts)
    BY <1>1
  <2>2. QED BY <1>1, <2>1, HeadThenTail
<1>3. <<x>> \in Seq(Parts) /\ Tokens(<<x>>) = Written(x)
  BY TokensOne
<1>4. PICK a \in Seq(Token), b \in Seq(Token) : a = Written(x) /\ b = Tokens(s) /\ a # <<>>
  BY WrittenType, <1>1, TokensConcat
<1>5. Text(W) = a \o b
  BY <1>1, <1>2, <1>3, <1>4, TokensConcat
<1>6. Len(a) \in Nat /\ Len(b) \in Nat /\ Len(a) # 0
  BY <1>4, EmptySeq
<1>7. Len(a \o b) = Len(a) + Len(b) /\ (a \o b)[1] = a[1]
  BY <1>6, ConcatProperties
<1>8. Len(Text(W)) = Len(W) /\ Len(W) \in Nat
  BY <1>1, TextType
<1>9. Len(W) >= 1 /\ W # <<>>
  BY <1>5, <1>6, <1>7, <1>8
<1>10. QED BY <1>1, <1>2, <1>4, <1>5, <1>7, <1>8, <1>9

\* No part, no piece
LEMMA NothingBuilt ==
  ASSUME NEW q, NEW W, Built(q, W), q.clause = <<>>
  PROVE  W = <<>>
<1>1. Text(W) = <<>> /\ W \in Seq(Pieces)
  BY TokensEmpty DEF Built
<1>2. Len(W) = 0
  BY <1>1, TextType
<1>3. QED BY <1>1, <1>2

\* A native first part is read off the first piece.
LEMMA FirstWord ==
  ASSUME NEW q, NEW W, Built(q, W), q.clause # <<>>, Kind(Head(q.clause)) = "native"
  PROVE  W[1] = Word(Head(Head(q.clause)[2]))
<1>1. PICK x \in Parts : x = Head(q.clause) /\ Text(W)[1] = Written(x)[1]
  BY FirstPart
<1>2. PICK ws \in Seq(Vocabulary) \ {<<>>} : x = Native(ws) /\ x[2] = ws
  BY <1>1, KindIsNative
<1>3. Written(x) = Words(ws)
  BY <1>2, WrittenParts
<1>4. Len(ws) \in Nat /\ Len(ws) # 0 /\ Head(ws) = ws[1]
  BY EmptySeq
<1>5. Words(ws)[1] = Word(ws[1])
  BY <1>4, WordsType
<1>6. Text(W)[1] = Word(Head(ws)) /\ Word(Head(ws)) # Param
  BY <1>1, <1>3, <1>4, <1>5 DEF Word, Param
<1>7. W \in Seq(Pieces) /\ Len(W) \in Nat /\ Len(W) >= 1
  BY FirstPart
<1>8. Text(W)[1] # Param => Text(W)[1] = W[1]
  <2>1. 1 \in 1..Len(W)
    BY <1>7
  <2>2. QED BY <1>7, <2>1, TextType
<1>9. QED BY <1>1, <1>2, <1>6, <1>8

\* Another first part is no keyword.
LEMMA FirstOther ==
  ASSUME NEW q, NEW W, Built(q, W), q.clause # <<>>, Kind(Head(q.clause)) # "native"
  PROVE  W[1] # OrderBy
<1> DEFINE w == "ORDER BY"
<1>1. PICK x \in Parts : x = Head(q.clause) /\ Text(W)[1] = Written(x)[1]
  BY FirstPart
<1>2. \/ \E b \in BOOLEAN : x = Bool(b)
      \/ \E c \in Columns : x = Column(c)
      \/ x = Param
  <2>1. Kind(x) # "native"
    BY <1>1
  <2>2. ~\E ws \in Seq(Vocabulary) \ {<<>>} : x = Native(ws)
    BY <2>1 DEF Kind, Native
  <2>3. QED BY <2>2 DEF Parts
<1>3. \A b \in BOOLEAN : w # (IF b THEN "1 = 1" ELSE "1 = 0")
  OBVIOUS
<1>4. \A u : u # w => Word(u) # OrderBy
  <2> HIDE DEF w
  <2>1. \A u : u # w => Word(u) # Word(w)
    BY DEF Word
  <2>2. QED BY <2>1 DEF w, OrderBy
<1> HIDE DEF w
<1>5. \A u : <<u>>[1] = u
  OBVIOUS
<1>6. Written(x)[1] # OrderBy
  <2>1. CASE \E b \in BOOLEAN : x = Bool(b)
    <3>1. PICK b \in BOOLEAN : x = Bool(b)
      BY <2>1
    <3>2. PICK u : u = (IF b THEN "1 = 1" ELSE "1 = 0") /\ Written(x) = <<Word(u)>>
      BY <3>1, WrittenParts, Zenon
    <3>3. Word(u) # OrderBy
      BY <1>3, <1>4, <3>2, Zenon
    <3>4. Written(x)[1] = Word(u)
      BY <1>5, <3>2, Zenon
    <3>5. QED BY <3>3, <3>4
  <2>2. CASE \E c \in Columns : x = Column(c)
    <3>1. PICK c \in Columns : x = Column(c)
      BY <2>2
    <3>2. Written(x)[1] = Column(c)
      BY <1>5, <3>1, WrittenParts
    <3>3. QED BY <3>2 DEF Word, Column, OrderBy
  <2>3. CASE x = Param
    <3>1. Written(x)[1] = Param
      BY <1>5, <2>3, WrittenParts
    <3>2. QED BY <3>1 DEF Word, Param, OrderBy
  <2>4. QED BY <1>2, <2>1, <2>2, <2>3
<1>7. W \in Seq(Pieces) /\ Len(W) \in Nat /\ Len(W) >= 1
  BY FirstPart
<1>8. Text(W)[1] = Shown(W[1])
  <2>1. 1 \in 1..Len(W)
    BY <1>7
  <2>2. QED BY <1>7, <2>1, TextType
<1>9. Shown(OrderBy) = OrderBy
  BY DEF Shown, Word, Param, OrderBy
<1>10. QED BY <1>1, <1>6, <1>8, <1>9

\* Pieces that are put together, place by place
LEMMA Joins ==
  ASSUME NEW V \in Seq(Pieces), NEW U \in Seq(Pieces), NEW W, W = V \o U
  PROVE  /\ W \in Seq(Pieces) /\ Len(W) = Len(V) + Len(U) /\ Len(V) \in Nat /\ Len(U) \in Nat
         /\ \A i \in 1..Len(V) : W[i] = V[i]
         /\ \A i \in 1..Len(U) : W[Len(V) + i] = U[i]
<1>1. V \o U \in Seq(Pieces) /\ Len(V \o U) = Len(V) + Len(U) /\ Len(V) \in Nat /\ Len(U) \in Nat
  BY ConcatProperties
<1>2. \A i \in 1..Len(V) : (V \o U)[i] = V[i]
  BY <1>1
<1>3. \A i \in 1..Len(U) : (V \o U)[Len(V) + i] = U[i]
  BY <1>1
<1>4. QED BY <1>1, <1>2, <1>3

\* Lengths of pieces
LEMMA Lengths ==
  ASSUME NEW V \in Seq(Pieces)
  PROVE  Len(V) \in Nat /\ (V = <<>> <=> Len(V) = 0)
BY EmptySeq, LenProperties

\* ORDER BY and a column are pieces.
LEMMA OrderingType ==
  ASSUME NEW c \in Columns
  PROVE  /\ Ordering(c) \in Seq(Pieces) /\ Len(Ordering(c)) = 2
         /\ Ordering(c)[1] = OrderBy /\ Ordering(c)[2] = Column(c)
<1>1. <<>> \in Seq(Pieces)
  OBVIOUS
<1>2. Ordering(c) \in Seq(Pieces)
  BY <1>1, OrderingIs
<1>3. Len(Ordering(c)) = 2 /\ Ordering(c)[1] = OrderBy /\ Ordering(c)[2] = Column(c)
  BY DEF Ordering
<1>4. QED BY <1>2, <1>3

\* A text starts with its condition, and without one with ORDER BY.
LEMMA PhraseFirst ==
  ASSUME NEW V \in Seq(Pieces), Free(V), NEW W, W = V \/ \E c \in Columns : W = V \o Ordering(c)
  PROVE  /\ V # <<>> => W # <<>> /\ \A k \in Keywords : W[1] # Word(k)
         /\ V = <<>> /\ W # <<>> => W[1] = OrderBy
<1>1. Len(V) \in Nat /\ (V # <<>> => Len(V) >= 1) /\ (V # <<>> => 1 \in 1..Len(V))
  BY Lengths
<1>2. V # <<>> => \A k \in Keywords : V[1] # Word(k)
  BY <1>1 DEF Free
<1>3. ASSUME NEW c \in Columns, W = V \o Ordering(c)
      PROVE  /\ V # <<>> => W # <<>> /\ W[1] = V[1]
             /\ V = <<>> => W[1] = OrderBy
  <2>1. PICK U \in Seq(Pieces) : U = Ordering(c) /\ Len(U) = 2 /\ U[1] = OrderBy
    BY OrderingType
  <2>2. /\ W \in Seq(Pieces) /\ Len(W) = Len(V) + 2
        /\ \A i \in 1..Len(V) : W[i] = V[i]
    <3>1. W = V \o U
      BY <1>3, <2>1
    <3>2. W \in Seq(Pieces) /\ Len(W) = Len(V) + Len(U) /\ \A i \in 1..Len(V) : W[i] = V[i]
      BY <3>1, Joins
    <3>3. QED BY <2>1, <3>2
  <2>3. W # <<>>
    BY <1>1, <2>2, Lengths
  <2>4. V # <<>> => W[1] = V[1]
    BY <1>1, <2>2
  <2>5. V = <<>> => W = U
    BY <1>3, <2>1, ConcatEmptySeq
  <2>6. QED BY <2>1, <2>3, <2>4, <2>5
<1>4. QED BY <1>2, <1>3

\* What begins the text
Where(V) == IF V = <<>> THEN <<>> ELSE <<Word("WHERE")>>

\* The text starts with WHERE if and only if there is a condition.
LEMMA PrefixIs ==
  ASSUME NEW q, NEW W, Built(q, W), NEW V \in Seq(Pieces), Free(V),
         W = V \/ \E c \in Columns : W = V \o Ordering(c)
  PROVE  ClausePrefix(q) = Where(V) /\ Clause(q) = Where(V) \o Text(W)
<1> DEFINE h == Head(q.clause)
<1>1. "ORDER BY" \in Keywords
  BY DEF Keywords
<1>2. \A k \in Keywords : <<"ORDER BY", k>> \notin BeginsWith
  BY QueriesAssumption
<1>3. \A ws : Head(ws) = "ORDER BY" => CheckPrefix(ws)
  <2> DEFINE w == "ORDER BY"
  <2>1. w \in Keywords /\ ~\E k \in Keywords : <<w, k>> \in BeginsWith
    BY <1>1, <1>2
  <2> HIDE DEF w
  <2>2. \A ws : Head(ws) = w => CheckPrefix(ws)
    BY <2>1 DEF CheckPrefix
  <2>3. QED BY <2>2 DEF w
<1>4. \A ws : CheckPrefix(ws) => Head(ws) \in Keywords
  BY DEF CheckPrefix
<1>5. ClausePrefix(q) = IF q.clause = <<>> \/ (Kind(h) = "native" /\ CheckPrefix(h[2]))
                        THEN <<>> ELSE <<Word("WHERE")>>
  BY Zenon DEF ClausePrefix
<1>6. q.clause # <<>> /\ Kind(h) = "native" => W # <<>> /\ W[1] = Word(Head(h[2]))
  BY FirstPart, FirstWord
<1>7. q.clause # <<>> /\ Kind(h) # "native" => W # <<>> /\ W[1] # OrderBy
  BY FirstPart, FirstOther
<1>8. q.clause = <<>> => W = <<>>
  BY NothingBuilt
<1> HIDE DEF h
<1>9. CASE V = <<>>
  <2>1. W # <<>> => W[1] = OrderBy
    BY <1>9, PhraseFirst
  <2>2. q.clause = <<>> \/ (Kind(h) = "native" /\ Head(h[2]) = "ORDER BY")
    <3>1. \A u, w : Word(u) = Word(w) => u = w
      BY DEF Word
    <3>2. CASE q.clause # <<>> /\ Kind(h) = "native"
      <4> DEFINE w == "ORDER BY"
      <4>1. Word(Head(h[2])) = Word(w)
        BY <1>6, <2>1, <3>2 DEF OrderBy
      <4> HIDE DEF w
      <4>2. Head(h[2]) = w
        BY <3>1, <4>1
      <4>3. QED BY <3>2, <4>2 DEF w
    <3>3. CASE q.clause # <<>> /\ Kind(h) # "native"
      BY <1>7, <2>1, <3>3
    <3>4. QED BY <3>2, <3>3
  <2>3. ClausePrefix(q) = <<>>
    BY <1>3, <1>5, <2>2
  <2>4. QED BY <1>9, <2>3 DEF Clause, Built, Tokens, Where
<1>10. CASE V # <<>>
  <2>1. W # <<>> /\ \A k \in Keywords : W[1] # Word(k)
    BY <1>10, PhraseFirst
  <2>2. ~(q.clause = <<>> \/ (Kind(h) = "native" /\ CheckPrefix(h[2])))
    BY <1>4, <1>6, <1>8, <2>1
  <2>3. ClausePrefix(q) = <<Word("WHERE")>>
    BY <1>5, <2>2
  <2>4. QED BY <1>10, <2>3 DEF Clause, Built, Tokens, Where
<1>11. QED BY <1>9, <1>10

\* A condition that is TRUE alone
LEMMA TrueCondenses ==
  ASSUME NEW f \in Meanings, Condenses(<<Word("1 = 1")>>, f)
  PROVE  f = Everything
<1> DEFINE w == "1 = 1"
           t == <<Word(w)>>
<1>1. t # <<>> /\ Means(t, f)
  <2>1. t # <<>>
    OBVIOUS
  <2> HIDE DEF t
  <2>2. QED BY <2>1 DEF Condenses, Means, t
<1>2. \A v \in Valuations : f[v] = Always(TRUE)
  BY <1>1, TrueMeans
<1>3. f = [v \in Valuations |-> f[v]]
  BY DEF Meanings
<1>4. QED BY <1>2, <1>3 DEF Everything

\* A word, with nothing or a keyword after it, in a finished text
LEMMA FirstIsAll ==
  ASSUME NEW w, Word(w) # OrderBy, NEW f, NEW m \in Nat, NEW W \in Seq(Pieces), Phrase(W, f), Len(W) = 1 + m,
         W[1] = Word(w), m # 0 => \E k \in Keywords : W[2] = Word(k)
  PROVE  Condenses(<<Word(w)>>, f) /\ (m = 0 \/ \E c \in Columns : W = <<Word(w)>> \o Ordering(c))
<1>1. Len(W) # 0
  OBVIOUS
<1>2. W # <<>>
  BY <1>1, Lengths
<1>3. PICK V : Condenses(V, f) /\ (W = V \/ \E c \in Columns : W = V \o Ordering(c))
  BY DEF Phrase
<1>4. V \in Seq(Pieces) /\ Free(V)
  BY <1>3 DEF Condenses
<1>5. PICK n \in Nat : n = Len(V) /\ (V = <<>> <=> n = 0)
  BY <1>4, Lengths
<1>6. /\ \A i \in 1..n : W[i] = V[i]
      /\ W = V => 1 + m = n
      /\ 1 + m = n \/ 1 + m = n + 2
  <2>1. ASSUME NEW c \in Columns, W = V \o Ordering(c)
        PROVE  (\A i \in 1..n : W[i] = V[i]) /\ 1 + m = n + 2
    <3>1. PICK o \in Seq(Pieces) : o = Ordering(c) /\ Len(o) = 2
      BY OrderingType
    <3>2. W = V \o o
      BY <2>1, <3>1
    <3>3. Len(W) = Len(V) + Len(o) /\ \A i \in 1..Len(V) : W[i] = V[i]
      BY <1>4, <3>2, Joins
    <3>4. QED BY <1>5, <3>1, <3>3
  <2>2. QED BY <1>3, <1>5, <2>1
<1>7. n <= 1
  <2>1. SUFFICES ASSUME n >= 2 PROVE FALSE
    BY <1>5
  <2>2. m # 0 /\ 2 \in 1..n
    BY <1>6, <2>1
  <2>3. PICK k \in Keywords : W[2] = Word(k)
    BY <2>2
  <2>4. V[2] = Word(k)
    BY <1>6, <2>2, <2>3
  <2>5. QED BY <1>4, <1>5, <2>2, <2>4 DEF Free
<1>8. V # <<>>
  <2>1. SUFFICES ASSUME V = <<>> PROVE FALSE
    OBVIOUS
  <2>2. W[1] = OrderBy
    BY <1>2, <1>3, <1>4, <2>1, PhraseFirst
  <2>3. QED BY <2>2
<1>9. n = 1
  BY <1>5, <1>7, <1>8
<1>10. Len(V) = 1 /\ V[1] = Word(w)
  BY <1>5, <1>6, <1>9
<1>11. V = <<Word(w)>>
  BY <1>4, <1>10
<1>12. W = V => m = 0
  BY <1>6, <1>9
<1>13. QED BY <1>3, <1>11, <1>12

\* What is left when a first word is removed that says nothing
LEMMA FirstRemoved ==
  ASSUME NEW w \in Vocabulary, Word(w) # OrderBy, NEW f, Condenses(<<Word(w)>>, f) => f = Everything,
         NEW U \in Seq(Pieces), U = <<>> \/ \E k \in Keywords : U[1] = Word(k),
         NEW t \in Seq(Pieces), t = <<Word(w)>>, Len(t) = 1, t[1] = Word(w), NEW W, W = t \o U, Phrase(W, f)
  PROVE  Phrase(U, f)
<1>1. PICK m \in Nat : m = Len(U) /\ (U = <<>> <=> m = 0)
  BY Lengths
<1>2. /\ W \in Seq(Pieces) /\ Len(W) = Len(t) + Len(U)
      /\ \A i \in 1..Len(t) : W[i] = t[i]
      /\ \A i \in 1..Len(U) : W[Len(t) + i] = U[i]
  BY Joins
<1>3. Len(W) = 1 + m /\ W[1] = Word(w) /\ (m # 0 => W[2] = U[1])
  <2>1. 1 \in 1..1 /\ (m # 0 => 1 \in 1..m) /\ 1 + 1 = 2
    BY <1>1
  <2>2. m # 0 => W[1 + 1] = U[1]
    BY <1>1, <1>2, <2>1
  <2>3. QED BY <1>1, <1>2, <2>1, <2>2
<1>4. m # 0 => \E k \in Keywords : W[2] = Word(k)
  BY <1>1, <1>3
<1>5. Condenses(t, f) /\ (m = 0 \/ \E c \in Columns : W = t \o Ordering(c))
  BY <1>2, <1>3, <1>4, FirstIsAll, ZenonT(40)
<1>6. Condenses(<<>>, f)
  BY <1>5, NothingCondenses
<1>7. U = <<>> \/ \E c \in Columns : U = <<>> \o Ordering(c)
  <2>1. CASE m = 0
    BY <1>1, <2>1
  <2>2. CASE \E c \in Columns : W = t \o Ordering(c)
    <3>1. PICK c \in Columns : W = t \o Ordering(c)
      BY <2>2
    <3>2. PICK o \in Seq(Pieces) : o = Ordering(c) /\ <<>> \o o = o
      BY OrderingType, ConcatEmptySeq
    <3>3. t \o U = t \o o
      BY <3>1, <3>2
    <3>4. U = o
      BY <3>3, ConcatSimplifications
    <3>5. QED BY <3>2, <3>4
  <2>3. QED BY <1>5, <2>1, <2>2
<1>8. QED BY <1>6, <1>7 DEF Phrase

\* TRUE can go from the front of a finished text,
LEMMA TrueRemoved ==
  ASSUME NEW f \in Meanings, NEW U \in Seq(Pieces), Phrase(<<Word("1 = 1")>> \o U, f),
         U = <<>> \/ \E k \in Keywords : U[1] = Word(k)
  PROVE  Phrase(U, f)
<1> DEFINE w == "1 = 1"
<1>1. w \in Vocabulary /\ Word(w) # OrderBy
  BY SqlWordsAre DEF Word, OrderBy
<1>2. Condenses(<<Word(w)>>, f) => f = Everything
  BY TrueCondenses
<1> HIDE DEF w
<1>3. Phrase(<<Word(w)>> \o U, f)
  BY DEF w
<1>4. PICK t \in Seq(Pieces) : t = <<Word(w)>> /\ Len(t) = 1 /\ t[1] = Word(w)
  BY <1>1, PieceTypes, SinglePiece
<1>5. PICK W : W = t \o U /\ Phrase(W, f)
  BY <1>3, <1>4
<1>6. QED BY <1>1, <1>2, <1>4, <1>5, FirstRemoved

\* What is left of a sequence of one and of more
LEMMA TailIs ==
  ASSUME NEW s \in Seq(Parts), s # <<>>
  PROVE  /\ Len(s) = 1 => Tail(s) = <<>>
         /\ Len(s) # 1 => Tail(s) # <<>> /\ Head(Tail(s)) = s[2]
<1>1. PICK n \in Nat : n = Len(s) /\ n # 0
  BY EmptySeq, LenProperties
<1>2. PICK u \in Seq(Parts), m \in Nat : u = Tail(s) /\ m = Len(u) /\ m = n - 1 /\ \A i \in 1..m : u[i] = s[i + 1]
  <2>1. PICK u \in Seq(Parts) : u = Tail(s) /\ Len(u) = Len(s) - 1 /\ \A i \in 1..Len(u) : u[i] = s[i + 1]
    BY HeadTailProperties
  <2>2. n - 1 \in Nat /\ Len(u) = n - 1
    BY <1>1, <2>1
  <2>3. QED BY <2>1, <2>2
<1>3. n = 1 => u = <<>>
  BY <1>2, EmptySeq
<1>4. n # 1 => u # <<>> /\ Head(u) = u[1] /\ u[1] = s[2]
  <2>1. SUFFICES ASSUME n # 1 PROVE u # <<>> /\ Head(u) = u[1] /\ u[1] = s[2]
    OBVIOUS
  <2>2. m # 0 /\ 1 \in 1..m /\ 1 + 1 = 2
    BY <1>1, <1>2, <2>1
  <2>3. u # <<>>
    BY <1>2, <2>2, EmptySeq
  <2>4. u[1] = s[1 + 1]
    BY <1>2, <2>2
  <2>5. QED BY <2>2, <2>3, <2>4
<1>5. QED BY <1>1, <1>2, <1>3, <1>4

\* so optimising changes nothing of what the text says.
LEMMA OptimizedSays ==
  ASSUME NEW q, NEW f \in Meanings, TextSays(q, f)
  PROVE  TextSays(Optimized(q), f)
<1>1. PICK W : Built(q, W) /\ Phrase(W, f)
  BY DEF TextSays
<1> DEFINE r == [q EXCEPT !.clause = Tail(@)]
           C == q.clause # <<>> /\ Head(q.clause) = Bool(TRUE)
           D == Len(q.clause) = 1 \/ (Kind(q.clause[2]) = "native" /\ CheckPrefix(q.clause[2][2]))
<1>2. Optimized(q) = IF C /\ D THEN r ELSE q
  BY DEF Optimized
<1>3. CASE ~(C /\ D)
  BY <1>2, <1>3
<1>4. CASE C /\ D
  <2>1. q.clause # <<>> /\ Head(q.clause) = Bool(TRUE) /\ Bool(TRUE) # Param
    BY <1>4 DEF Bool, Param
  <2>2. PICK U \in Seq(Pieces) : W = Written(Bool(TRUE)) \o U /\ Built(r, U)
    BY <1>1, <2>1, BuiltTail
  <2>3. Written(Bool(TRUE)) = <<Word("1 = 1")>>
    BY WrittenParts
  <2>4. PICK s \in Seq(Parts) : s = q.clause /\ r.clause = Tail(s) /\ s # <<>> /\ Len(s) \in Nat /\ Len(s) >= 1
    <3>1. q.clause \in Seq(Parts) /\ r.clause = Tail(q.clause)
      BY <1>1 DEF Built, Matched, Query
    <3>2. Len(q.clause) \in Nat /\ Len(q.clause) >= 1
      BY <2>1, <3>1, EmptySeq
    <3>3. QED BY <2>1, <3>1, <3>2
  <2> HIDE DEF r
  <2>5. U = <<>> \/ \E k \in Keywords : U[1] = Word(k)
    <3>1. CASE Len(s) = 1
      <4>1. Tail(s) = <<>>
        BY <2>4, <3>1, TailIs
      <4>2. QED BY <2>2, <2>4, <4>1, NothingBuilt
    <3>2. CASE Len(s) # 1
      <4>1. Kind(q.clause[2]) = "native" /\ CheckPrefix(q.clause[2][2])
        BY <1>4, <2>4, <3>2
      <4>2. r.clause # <<>> /\ Head(r.clause) = q.clause[2]
        BY <2>4, <3>2, TailIs
      <4>3. U[1] = Word(Head(q.clause[2][2]))
        BY <2>2, <4>1, <4>2, FirstWord
      <4>4. Head(q.clause[2][2]) \in Keywords
        BY <4>1 DEF CheckPrefix
      <4>5. QED BY <4>3, <4>4
    <3>3. QED BY <3>1, <3>2
  <2>6. Phrase(U, f)
    BY <1>1, <2>2, <2>3, <2>5, TrueRemoved
  <2>7. TextSays(r, f)
    BY <2>2, <2>6 DEF TextSays
  <2>8. QED BY <1>2, <1>4, <2>7
<1>5. QED BY <1>3, <1>4

------------------------------------------------------------------------------
\* The buffers that are bound, and the values that are sent.

\* The buffers that are bound
IsKept(f, ps, n) ==
  f = [i \in 0..n |-> IF i = 0 THEN <<>>
                      ELSE IF HasBuffer(ps[i]) THEN Append(f[i - 1], ps[i]) ELSE f[i - 1]]

\* There are such lists of buffers.
LEMMA KeptExists ==
  ASSUME NEW ps, NEW m \in Nat
  PROVE  \E f : IsKept(f, ps, m)
<1> DEFINE T == {n \in Nat : ~(\E f : IsKept(f, ps, n))}
<1>1. SUFFICES ASSUME T # {} PROVE FALSE
  OBVIOUS
<1>2. PICK n \in T : \A y \in T : n <= y
  BY <1>1, Least
<1>3. n # 0
  <2> DEFINE f == [i \in 0..0 |-> <<>>]
  <2>1. IsKept(f, ps, 0)
    BY DEF IsKept
  <2>2. QED BY <2>1
<1>4. n - 1 \in Nat /\ n - 1 \notin T
  BY <1>2, <1>3
<1>5. PICK g : IsKept(g, ps, n - 1)
  BY <1>4
<1> DEFINE Next1(x) == IF HasBuffer(ps[n]) THEN Append(x, ps[n]) ELSE x
           f == [i \in 0..n |-> IF i < n THEN g[i] ELSE Next1(g[n - 1])]
<1>6. DOMAIN f = 0..n /\ f = [i \in 0..n |-> f[i]]
  OBVIOUS
<1>7. \A i \in 0..(n - 1) : f[i] = g[i]
  OBVIOUS
<1>8. f[n] = Next1(f[n - 1])
  BY <1>3, <1>7
<1> HIDE DEF f
<1>9. \A i \in 0..(n - 1) : g[i] = IF i = 0 THEN <<>>
                                   ELSE IF HasBuffer(ps[i]) THEN Append(g[i - 1], ps[i]) ELSE g[i - 1]
  BY <1>5 DEF IsKept
<1>10. ASSUME NEW i \in 0..n
       PROVE  f[i] = IF i = 0 THEN <<>> ELSE IF HasBuffer(ps[i]) THEN Append(f[i - 1], ps[i]) ELSE f[i - 1]
  <2>1. CASE i = n
    BY <1>3, <1>8, <2>1
  <2>2. CASE i # n
    <3>1. i \in 0..(n - 1) /\ (i # 0 => i - 1 \in 0..(n - 1))
      BY <2>2
    <3>2. QED BY <1>7, <1>9, <3>1
  <2>3. QED BY <2>1, <2>2
<1>11. IsKept(f, ps, n)
  BY <1>6, <1>10 DEF IsKept
<1>12. QED BY <1>2, <1>11

\* Of k parameters all are bound, in order, or fewer than k.
KeptIs(b, ps, k) ==
  /\ b \in Seq(AllParams) /\ Len(b) <= k
  /\ Len(b) = k => \A i \in 1..k : b[i] = ps[i]
  /\ (\A i \in 1..k : HasBuffer(ps[i])) => Len(b) = k

\* One parameter more
LEMMA KeptStep ==
  ASSUME NEW ps, NEW k \in Nat, NEW j \in Nat, j = k + 1, ps[j] \in AllParams, NEW b, KeptIs(b, ps, k)
  PROVE  KeptIs(IF HasBuffer(ps[j]) THEN Append(b, ps[j]) ELSE b, ps, j)
<1>1. b \in Seq(AllParams) /\ Len(b) <= k
  BY DEF KeptIs
<1>2. PICK n \in Nat : n = Len(b) /\ n <= k
  BY <1>1, LenProperties
<1>3. n = k => \A i \in 1..k : b[i] = ps[i]
  BY <1>2 DEF KeptIs
<1>4. (\A i \in 1..j : HasBuffer(ps[i])) => n = k
  BY <1>2 DEF KeptIs
<1>5. CASE HasBuffer(ps[j])
  <2>1. PICK c \in Seq(AllParams) : /\ c = Append(b, ps[j]) /\ Len(c) = n + 1
                                    /\ (\A i \in 1..n : c[i] = b[i]) /\ c[n + 1] = ps[j]
    BY <1>1, <1>2, AppendProperties, ZenonT(40)
  <2>2. Len(c) = j => \A i \in 1..j : c[i] = ps[i]
    <3>1. SUFFICES ASSUME Len(c) = j, NEW i \in 1..j PROVE c[i] = ps[i]
      OBVIOUS
    <3>2. n = k
      BY <1>2, <2>1, <3>1
    <3>3. CASE i = j
      BY <2>1, <3>2, <3>3
    <3>4. CASE i # j
      <4>1. i \in 1..k
        BY <3>4
      <4>2. QED BY <1>3, <2>1, <3>2, <4>1
    <3>5. QED BY <3>3, <3>4
  <2>3. KeptIs(c, ps, j)
    BY <1>2, <1>4, <2>1, <2>2 DEF KeptIs
  <2>4. QED BY <1>5, <2>1, <2>3
<1>6. CASE ~HasBuffer(ps[j])
  <2>1. Len(b) <= j /\ Len(b) # j
    BY <1>2
  <2>2. ~\A i \in 1..j : HasBuffer(ps[i])
    BY <1>6
  <2>3. KeptIs(b, ps, j)
    BY <1>1, <2>1, <2>2 DEF KeptIs
  <2>4. QED BY <1>6, <2>3
<1>7. QED BY <1>5, <1>6

\* Every list of buffers
LEMMA KeptAre ==
  ASSUME NEW ps \in Seq(AllParams), NEW n \in Nat, n = Len(ps), NEW f, IsKept(f, ps, n)
  PROVE  KeptIs(f[n], ps, n)
<1> DEFINE T == {k \in 0..n : ~KeptIs(f[k], ps, k)}
<1>1. SUFFICES ASSUME T # {} PROVE FALSE
  OBVIOUS
<1>2. T \in SUBSET Nat
  OBVIOUS
<1>3. PICK j \in T : \A y \in T : j <= y
  BY <1>1, <1>2, Least
<1>4. \A i \in 0..n : f[i] = IF i = 0 THEN <<>>
                             ELSE IF HasBuffer(ps[i]) THEN Append(f[i - 1], ps[i]) ELSE f[i - 1]
  BY DEF IsKept
<1>5. j # 0
  <2>1. f[0] = <<>>
    BY <1>4
  <2>2. <<>> \in Seq(AllParams) /\ Len(<<>>) = 0
    OBVIOUS
  <2>3. KeptIs(<<>>, ps, 0)
    BY <2>2 DEF KeptIs
  <2>4. QED BY <1>3, <2>1, <2>3
<1>6. PICK k \in Nat : j = k + 1 /\ k = j - 1 /\ k \in 0..n
  BY <1>3, <1>5
<1>7. KeptIs(f[k], ps, k)
  BY <1>3, <1>6
<1>8. j \in Nat /\ ps[j] \in AllParams
  BY <1>5, ElementOfSeq
<1>9. f[j] = IF HasBuffer(ps[j]) THEN Append(f[k], ps[j]) ELSE f[k]
  BY <1>4, <1>5, <1>6
<1>10. KeptIs(f[j], ps, j)
  BY <1>6, <1>7, <1>8, <1>9, KeptStep
<1>11. QED BY <1>3, <1>10

\* The bound buffers
LEMMA BuffersAre ==
  ASSUME NEW ps \in Seq(AllParams), NEW n \in Nat, n = Len(ps)
  PROVE  KeptIs(Buffers(ps, n), ps, n)
<1> DEFINE S(f) == [i \in 0..n |-> IF i = 0 THEN <<>>
                                   ELSE IF HasBuffer(ps[i]) THEN Append(f[i - 1], ps[i]) ELSE f[i - 1]]
           g == CHOOSE f : f = S(f)
<1>1. \E f : f = S(f)
  <2>1. PICK f : IsKept(f, ps, n)
    BY KeptExists
  <2>2. f = S(f)
    BY <2>1, Zenon DEF IsKept
  <2> HIDE DEF S
  <2>3. QED BY <2>2
<1>2. Buffers(ps, n) = g[n]
  BY DEF Buffers
<1> HIDE DEF S
<1>3. g = S(g)
  BY <1>1
<1> HIDE DEF g
<1>4. IsKept(g, ps, n)
  BY <1>3 DEF IsKept, S
<1>5. QED BY <1>2, <1>4, KeptAre

Start == Word("WHERE")

\* WHERE is a word.
LEMMA StartIs ==
  /\ Start \in Token /\ Start # Param /\ Start # OrderBy
  /\ <<Start>> \in Seq(Token) /\ Len(<<Start>>) = 1 /\ <<Start>>[1] = Start
<1> DEFINE w == "WHERE"
<1>1. w \in Vocabulary
  BY SqlWordsAre
<1>2. \A u : Word(u) # Param
  BY DEF Word, Param
<1>3. Start = Word(w) /\ w # "ORDER BY"
  BY DEF Start
<1>4. Word(w) # OrderBy
  BY <1>3 DEF Word, OrderBy
<1> HIDE DEF w
<1>5. Word(w) \in Token
  BY <1>1 DEF Token
<1>6. QED BY <1>2, <1>3, <1>4, <1>5, SingleType

\* What begins the text has no question mark.
LEMMA WhereIs ==
  ASSUME NEW V
  PROVE  /\ Where(V) \in Seq(Token) /\ Len(Where(V)) \in Nat
         /\ V = <<>> => Where(V) = <<>> /\ Len(Where(V)) = 0
         /\ V # <<>> => Where(V) = <<Start>> /\ Len(Where(V)) = 1 /\ Where(V)[1] = Start
         /\ \A i \in 1..Len(Where(V)) : Where(V)[i] # Param
<1>1. Where(V) = IF V = <<>> THEN <<>> ELSE <<Start>>
  BY DEF Where, Start
<1>2. CASE V = <<>>
  <2>1. <<>> \in Seq(Token) /\ Len(<<>>) = 0 /\ 1..0 = {}
    OBVIOUS
  <2>2. PICK P : P = <<>> /\ P = Where(V)
    BY <1>1, <1>2
  <2>3. P \in Seq(Token) /\ Len(P) = 0 /\ Len(P) \in Nat /\ \A i \in 1..Len(P) : P[i] # Param
    BY <2>1, <2>2
  <2>4. QED BY <1>2, <2>2, <2>3, Zenon
<1>3. CASE V # <<>>
  <2>1. PICK P : P = <<Start>> /\ P = Where(V)
    BY <1>1, <1>3
  <2>2. P \in Seq(Token) /\ Len(P) = 1 /\ Len(P) \in Nat /\ P[1] = Start
    BY <2>1, StartIs
  <2>3. \A i \in 1..Len(P) : P[i] # Param
    BY <2>2, StartIs
  <2>4. QED BY <1>3, <2>1, <2>2, <2>3, Zenon
<1>4. QED BY <1>2, <1>3

\* Tokens that are put together, place by place
AreJoined(text, P, X, m, n) ==
  /\ text \in Seq(Token) /\ Len(text) = m + n
  /\ \A i \in 1..m : text[i] = P[i]
  /\ \A i \in 1..n : text[m + i] = X[i]

\* Any two texts
LEMMA TokensJoin ==
  ASSUME NEW P \in Seq(Token), NEW X \in Seq(Token)
  PROVE  AreJoined(P \o X, P, X, Len(P), Len(X))
<1>1. P \o X \in Seq(Token) /\ Len(P \o X) = Len(P) + Len(X)
  BY ConcatProperties
<1>2. \A i \in 1..Len(P) : (P \o X)[i] = P[i]
  OBVIOUS
<1>3. \A i \in 1..Len(X) : (P \o X)[Len(P) + i] = X[i]
  OBVIOUS
<1>4. QED BY <1>1, <1>2, <1>3 DEF AreJoined

\* The text: what begins it and the tokens of the pieces.
Consists(text, m, n, P, W) ==
  /\ text \in Seq(Token) /\ m \in Nat /\ n \in Nat /\ Len(text) = m + n /\ n = Len(W)
  /\ \A i \in 1..m : text[i] = P[i]
  /\ Follows(text, m, Text(W), n)
  /\ \A j \in 0..n : Marks(text, m + j) = Marks(Text(W), j)

\* The text of a finished query
LEMMA TextOf ==
  ASSUME NEW V, NEW W \in Seq(Pieces), NEW P, P = Where(V), NEW text, text = P \o Text(W)
  PROVE  Consists(text, Len(P), Len(W), P, W)
<1>1. PICK m \in Nat : m = Len(P) /\ P \in Seq(Token) /\ \A i \in 1..m : P[i] # Param
  BY WhereIs
<1>2. PICK X \in Seq(Token), n \in Nat : X = Text(W) /\ n = Len(X) /\ n = Len(W)
  BY TextType
<1>3. AreJoined(text, P, X, m, n)
  <2>1. text = P \o X
    BY <1>1, <1>2
  <2>2. AreJoined(P \o X, P, X, Len(P), Len(X))
    BY <1>1, <1>2, TokensJoin, Zenon
  <2>3. QED BY <1>1, <1>2, <2>1, <2>2, Zenon
<1>4. /\ text \in Seq(Token) /\ Len(text) = m + n
      /\ \A i \in 1..m : text[i] = P[i]
      /\ \A i \in 1..n : text[m + i] = X[i]
  BY <1>3 DEF AreJoined
<1>5. Marks(text, m) = 0
  <2>1. {i \in 1..m : text[i] = Param} = {}
    BY <1>1, <1>4
  <2>2. QED BY <2>1, FS_EmptySet DEF Marks
<1>6. ASSUME NEW j \in 0..n PROVE Follows(text, m, X, j)
  <2>1. \A i \in 1..j : i \in 1..n
    OBVIOUS
  <2>2. \A i \in 1..j : text[m + i] = X[i]
    BY <1>4, <2>1
  <2>3. QED BY <2>2 DEF Follows
<1>7. ASSUME NEW j \in 0..n PROVE Marks(text, m + j) = Marks(X, j)
  <2>1. PICK k \in Nat : k = j
    OBVIOUS
  <2>2. Marks(text, m + k) = Marks(text, m) + Marks(X, k) /\ Marks(X, k) \in Nat
    BY <1>6, <2>1, MarksAfter, MarksAreNat
  <2>3. QED BY <1>5, <2>1, <2>2
<1>8. Follows(text, m, X, n)
  BY <1>4 DEF Follows
<1>9. Consists(text, m, n, P, W)
  BY <1>2, <1>4, <1>7, <1>8 DEF Consists
<1>10. QED BY <1>1, <1>2, <1>9

\* The values that are sent are those that the parameters mean.
Gets(values, ps, v) == \A k \in 1..Len(ps) : <<"value", values[k]>> = Meant(ps[k], v)

\* The text with values for its question marks
LEMMA FilledIs ==
  ASSUME NEW text, NEW values, NEW n \in Nat, n = Len(text), text \in Seq(Token)
  PROVE  /\ Len(Filled(text, values)) = n /\ (n = 0 => Filled(text, values) = <<>>)
         /\ \A i \in 1..n : Filled(text, values)[i] =
              IF text[i] = Param THEN <<"value", values[Marks(text, i)]>> ELSE text[i]
<1> DEFINE G(i) == IF text[i] = Param THEN <<"value", values[Marks(text, i)]>> ELSE text[i]
<1>1. DOMAIN text = 1..n
  OBVIOUS
<1>2. Filled(text, values) = [i \in 1..n |-> G(i)]
  BY <1>1 DEF Filled
<1> HIDE DEF G
<1>3. Len([i \in 1..n |-> G(i)]) = n /\ \A i \in 1..n : [j \in 1..n |-> G(j)][i] = G(i)
  OBVIOUS
<1>4. n = 0 => [i \in 1..n |-> G(i)] = <<>>
  OBVIOUS
<1>5. QED BY <1>2, <1>3, <1>4 DEF G

\* With the values that its parameters mean, the text holds what was meant.
LEMMA FilledStands ==
  ASSUME NEW V, NEW W \in Seq(Pieces), NEW ps, InPlace(ps, W), NEW v \in Valuations, NEW values, Gets(values, ps, v),
         NEW text, text = Where(V) \o Text(W), NEW t, t = Filled(text, values)
  PROVE  /\ Len(t) \in Nat /\ Len(t) = Len(Where(V)) + Len(W) /\ (Len(t) = 0 => t = <<>>)
         /\ Stands(t, Len(Where(V)) + 1, W, Len(t) + 1, v)
         /\ V # <<>> => t[1] = Start
<1>1. PICK P : P = Where(V)
  OBVIOUS
<1>2. PICK m \in Nat, n \in Nat : m = Len(P) /\ n = Len(W) /\ Consists(text, m, n, P, W)
  <2>1. Consists(text, Len(P), Len(W), P, W)
    BY <1>1, TextOf
  <2>2. Len(P) \in Nat /\ Len(W) \in Nat
    BY <2>1 DEF Consists
  <2>3. QED BY <2>1, <2>2, Zenon
<1>3. PICK l \in Nat : l = m + n /\ l = Len(text) /\ text \in Seq(Token)
  BY <1>1, <1>2 DEF Consists
<1>4. /\ Len(t) = l /\ (l = 0 => t = <<>>)
      /\ \A i \in 1..l : t[i] = IF text[i] = Param THEN <<"value", values[Marks(text, i)]>> ELSE text[i]
  BY <1>3, FilledIs
<1>5. ASSUME NEW k \in 1..n PROVE t[m + k] = Given(W[k], v)
  <2>1. m + k \in 1..l /\ k \in 0..n /\ k \in Nat
    BY <1>3
  <2>2. text[m + k] = Text(W)[k] /\ Marks(text, m + k) = Marks(Text(W), k)
    BY <1>1, <1>2, <2>1 DEF Consists, Follows
  <2>3. k \in 1..Len(W)
    BY <1>2
  <2>4. CASE Text(W)[k] = Param
    <3>1. PICK p \in AllParams : W[k] = Open(p)
      BY <2>3, <2>4, TextType
    <3>2. PICK j : j = Marks(Text(W), k) /\ p = ps[j]
      BY <2>3, <3>1 DEF InPlace
    <3>3. j \in 1..Len(ps)
      <4>1. Marks(Text(W), k) \in 1..Marks(Text(W), Len(W))
        BY <2>3, <3>1, OpenIsMarked
      <4>2. QED BY <3>2, <4>1 DEF InPlace
    <3>4. t[m + k] = <<"value", values[j]>>
      BY <1>4, <2>1, <2>2, <2>4, <3>2
    <3>5. <<"value", values[j]>> = Meant(p, v)
      BY <3>2, <3>3 DEF Gets
    <3>6. Given(W[k], v) = Meant(p, v)
      BY <3>1 DEF Given, Open
    <3>7. QED BY <3>4, <3>5, <3>6
  <2>5. CASE Text(W)[k] # Param
    <3>1. Text(W)[k] = Shown(W[k]) /\ Text(W)[k] = W[k]
      BY <2>3, <2>5, TextType
    <3>2. Given(W[k], v) = W[k]
      BY <2>5, <3>1 DEF Given, Shown
    <3>3. QED BY <1>4, <2>1, <2>2, <2>5, <3>1, <3>2
  <2>6. QED BY <2>4, <2>5
<1>6. Stands(t, m + 1, W, l + 1, v)
  <2>1. \A k \in 1..n : t[m + 1 + k - 1] = Given(W[k], v)
    <3>1. \A k \in 1..n : m + 1 + k - 1 = m + k
      OBVIOUS
    <3>2. QED BY <1>5, <3>1
  <2>2. m + 1 \in 1..(l + 1) /\ l + 1 = m + 1 + n /\ l + 1 <= l + 1
    BY <1>3
  <2>3. QED BY <1>1, <1>2, <1>3, <1>4, <2>1, <2>2 DEF Stands
<1>7. ASSUME V # <<>> PROVE t[1] = Start
  <2>1. m = 1 /\ P[1] = Start
    BY <1>1, <1>2, <1>7, WhereIs
  <2>2. text[1] = P[1] /\ 1 \in 1..l
    BY <1>1, <1>2, <1>3, <2>1 DEF Consists
  <2>3. QED BY <1>4, <2>1, <2>2, StartIs
<1>8. QED BY <1>1, <1>2, <1>3, <1>4, <1>6, <1>7

------------------------------------------------------------------------------
\* The text as it is executed: what the server reads is what was meant.

\* The text that the server is offered: from a WHERE, if there is a condition, to the end.
Offers(t, V, W, v) ==
  /\ Len(t) \in Nat /\ Len(t) = Len(Where(V)) + Len(W) /\ (Len(t) = 0 => t = <<>>)
  /\ Stands(t, Len(Where(V)) + 1, W, Len(t) + 1, v)
  /\ V # <<>> => t[1] = Start

\* WHERE, ORDER BY and the end are told apart.
LEMMA OrderIs ==
  /\ OrderBy \in Ends /\ OrderBy # Word("OR") /\ <<"end">> \in Ends /\ <<"end">> # Word("OR")
  /\ <<"end">> # Start /\ OrderBy # Start
<1>1. OrderBy \in Ends /\ OrderBy # Word("OR") /\ <<"end">> \in Ends /\ <<"end">> # Word("OR")
  BY EndsAre, Zenon DEF OrderBy
<1>2. <<"end">> # Start
  BY DEF Start, Word
<1>3. QED BY <1>1, <1>2, StartIs

\* How the condition of a statement is found
LEMMA ConditionIs ==
  ASSUME NEW t
  PROVE  /\ t = <<>> \/ At(t, 1) = OrderBy => Condition(t) = Done(Always(TRUE), 1)
         /\ LET x == Reading(t)[2].or IN
            t # <<>> /\ At(t, 1) = Start /\ x.ok /\ At(t, x.next) \in {<<"end">>, OrderBy} => Condition(t) = x
<1> DEFINE x == Reading(t)[2].or
<1>1. t = <<>> => At(t, 1) = <<"end">>
  BY DEF At
<1>2. Condition(t) = CASE t = <<>> \/ At(t, 1) = OrderBy -> Done(Always(TRUE), 1)
                       [] At(t, 1) = Start -> IF x.ok /\ At(t, x.next) \in {<<"end">>, OrderBy} THEN x ELSE Failed
                       [] OTHER -> Failed
  BY Zenon DEF Condition, OrderBy, Start
<1> HIDE DEF x
<1>3. OrderBy # Start /\ <<"end">> # Start
  BY OrderIs
<1>4. t = <<>> \/ At(t, 1) = OrderBy => Condition(t) = Done(Always(TRUE), 1)
  BY <1>1, <1>2, <1>3
<1>5. t # <<>> /\ At(t, 1) = Start /\ x.ok /\ At(t, x.next) \in {<<"end">>, OrderBy} => Condition(t) = x
  BY <1>1, <1>2, <1>3
<1>6. QED BY <1>4, <1>5 DEF x

\* A text without a condition selects every row.
LEMMA NothingOffered ==
  ASSUME NEW W \in Seq(Pieces), NEW f, Condenses(<<>>, f), W = <<>> \/ \E c \in Columns : W = <<>> \o Ordering(c),
         NEW v \in Valuations, NEW t, Offers(t, <<>>, W, v)
  PROVE  Condition(t) = Done(f[v], 1)
<1>1. f[v] = Always(TRUE)
  BY DEF Condenses, Everything
<1>2. Where(<<>>) = <<>> /\ Len(<<>>) = 0
  BY DEF Where
<1>3. Len(t) = Len(W) /\ Len(t) \in Nat /\ (Len(t) = 0 => t = <<>>) /\ Stands(t, 1, W, Len(t) + 1, v)
  <2>1. PICK n \in Nat : n = Len(W)
    BY Lengths
  <2>2. 0 + n = n /\ 0 + 1 = 1
    OBVIOUS
  <2>3. QED BY <1>2, <2>1, <2>2, Zenon DEF Offers
<1>4. t = <<>> \/ At(t, 1) = OrderBy
  <2>1. CASE W = <<>>
    BY <1>2, <1>3, <2>1
  <2>2. CASE \E c \in Columns : W = <<>> \o Ordering(c)
    <3>1. PICK c \in Columns : W = <<>> \o Ordering(c)
      BY <2>2
    <3>2. W = Ordering(c)
      BY <3>1, OrderingType, ConcatEmptySeq
    <3>3. Len(W) = 2 /\ W[1] = OrderBy
      BY <3>2, OrderingType
    <3>4. t[1 + 1 - 1] = Given(W[1], v)
      BY <1>3, <3>3 DEF Stands
    <3>5. Given(OrderBy, v) = OrderBy
      BY DEF Given, OrderBy, Word
    <3>6. t[1] = OrderBy /\ 1 <= Len(t)
      BY <1>3, <3>3, <3>4, <3>5
    <3>7. QED BY <3>6 DEF At
  <2>3. QED BY <2>1, <2>2
<1>5. QED BY <1>1, <1>4, ConditionIs

\* What stands up to the end or the ORDER BY is the condition.
LEMMA StandsBefore ==
  ASSUME NEW V \in Seq(Pieces), NEW W, W = V \/ \E c \in Columns : W = V \o Ordering(c),
         NEW v, NEW t, NEW i, Stands(t, i, W, Len(t) + 1, v)
  PROVE  \E e : Stands(t, i, V, e, v) /\ At(t, e) \in {<<"end">>, OrderBy}
<1>1. Len(t) \in Nat
  BY DEF Stands
<1>2. At(t, Len(t) + 1) = <<"end">>
  BY <1>1 DEF At
<1>3. ASSUME NEW c \in Columns, W = V \o Ordering(c)
      PROVE  \E e : Stands(t, i, V, e, v) /\ At(t, e) \in {<<"end">>, OrderBy}
  <2>1. PICK o \in Seq(Pieces) : o = Ordering(c) /\ Len(o) = 2 /\ o[1] = OrderBy
    BY OrderingType
  <2>2. Stands(t, i, V \o o, Len(t) + 1, v)
    BY <1>3, <2>1
  <2>3. PICK e : Stands(t, i, V, e, v) /\ Stands(t, e, o, Len(t) + 1, v)
    BY <2>2, StandsConcat
  <2>4. e \in Nat /\ e <= Len(t) /\ t[e + 1 - 1] = Given(o[1], v)
    BY <1>1, <2>1, <2>3 DEF Stands
  <2>5. Given(OrderBy, v) = OrderBy
    BY DEF Given, OrderBy, Word
  <2>6. t[e] = OrderBy
    BY <2>1, <2>4, <2>5
  <2>7. At(t, e) = OrderBy
    BY <2>4, <2>6 DEF At
  <2>8. QED BY <2>3, <2>7
<1>4. QED BY <1>2, <1>3

\* A text with a condition selects what the condition says.
LEMMA ConditionOffered ==
  ASSUME NEW V \in Seq(Pieces), V # <<>>, NEW W \in Seq(Pieces), NEW f, Condenses(V, f),
         W = V \/ \E c \in Columns : W = V \o Ordering(c), NEW v \in Valuations, NEW t, Offers(t, V, W, v)
  PROVE  Condition(t).ok /\ Condition(t).truth = f[v]
<1>1. Len(Where(V)) = 1
  BY WhereIs
<1>2. Len(t) \in Nat /\ t[1] = Start /\ Len(t) >= 1 /\ Stands(t, 2, W, Len(t) + 1, v)
  <2>1. PICK n \in Nat : n = Len(W)
    BY Lengths
  <2>2. PICK l \in Nat : l = Len(t) /\ l = 1 + n
    BY <1>1, <2>1 DEF Offers
  <2>3. 1 + 1 = 2 /\ l >= 1
    BY <2>2
  <2>4. Stands(t, 1 + 1, W, Len(t) + 1, v) /\ t[1] = Start
    BY <1>1 DEF Offers
  <2>5. QED BY <2>2, <2>3, <2>4, Zenon
<1>3. t # <<>> /\ At(t, 1) = Start
  BY <1>2 DEF At
<1>4. PICK e : Stands(t, 2, V, e, v) /\ At(t, e) \in {<<"end">>, OrderBy}
  BY <1>2, StandsBefore
<1>5. At(t, e) \in Ends /\ At(t, e) # Word("OR")
  BY <1>4, OrderIs
<1> DEFINE r == Reading(t)
           x == r[2].or
<1>6. IsReading(t, r)
  BY <1>2, ReadingIs
<1> HIDE DEF r
<1>7. Reads(V, f)
  BY Zenon DEF Condenses
<1>8. r[2].or = ReadOr(t, Done(f[v], e), r)
  BY <1>4, <1>5, <1>6, <1>7 DEF Reads
<1>9. x = Done(f[v], e)
  BY <1>5, <1>8, NoOr
<1>10. x.ok /\ x.truth = f[v] /\ x.next = e
  BY <1>9, DoneIs
<1>11. Condition(t) = x
  BY <1>3, <1>4, <1>10, ConditionIs, Zenon DEF r
<1>12. QED BY <1>10, <1>11

\* A finished text with the values that its parameters mean is read as what it says.
LEMMA OfferedIs ==
  ASSUME NEW q, NEW f, NEW W, Built(q, W), Phrase(W, f), NEW v \in Valuations, NEW values, Gets(values, q.parameters, v)
  PROVE  LET x == Condition(Filled(Clause(q), values)) IN x.ok /\ x.truth = f[v]
<1>1. PICK V : Condenses(V, f) /\ (W = V \/ \E c \in Columns : W = V \o Ordering(c))
  BY DEF Phrase
<1>2. V \in Seq(Pieces) /\ Free(V)
  BY <1>1 DEF Condenses
<1>3. W \in Seq(Pieces) /\ InPlace(q.parameters, W)
  BY DEF Built
<1>4. Clause(q) = Where(V) \o Text(W)
  BY <1>1, <1>2, PrefixIs
<1> DEFINE t == Filled(Clause(q), values)
<1>5. Offers(t, V, W, v)
  <2>1. PICK text, ps : text = Clause(q) /\ text = Where(V) \o Text(W) /\ ps = q.parameters
    BY <1>4
  <2>2. PICK u : u = Filled(text, values) /\ u = t
    BY <2>1
  <2>3. InPlace(ps, W) /\ Gets(values, ps, v)
    BY <1>3, <2>1
  <2>4. Offers(u, V, W, v)
    BY <1>3, <2>1, <2>2, <2>3, FilledStands DEF Offers
  <2>5. QED BY <2>2, <2>4
<1> HIDE DEF t
<1>6. CASE V = <<>>
  <2>1. Condenses(<<>>, f) /\ (W = <<>> \/ \E c \in Columns : W = <<>> \o Ordering(c)) /\ Offers(t, <<>>, W, v)
    BY <1>1, <1>5, <1>6
  <2>2. Condition(t) = Done(f[v], 1)
    BY <1>3, <2>1, NothingOffered
  <2>3. QED BY <2>2, DoneIs DEF t
<1>7. CASE V # <<>>
  BY <1>1, <1>2, <1>3, <1>5, <1>7, ConditionOffered DEF t
<1>8. QED BY <1>6, <1>7

\* The statement is sent what its parameters mean, if every parameter is bound.
LEMMA ParamKind ==
  ASSUME NEW p \in AllParams
  PROVE  \/ p.by = "value" /\ p.by # "ref"
         \/ p.by = "ref" /\ p.by # "value" /\ p.long \in BOOLEAN /\ p.var \in Vars
<1>1. CASE \E b \in BOOLEAN, n \in Nat : p = ValueParam(b, n)
  <2>1. PICK b \in BOOLEAN, n \in Nat : p = ValueParam(b, n)
    BY <1>1
  <2>2. p.by = "value"
    BY <2>1 DEF ValueParam
  <2>3. QED BY <2>2
<1>2. CASE \E b \in BOOLEAN, x \in Vars : p = RefParam(b, x)
  <2>1. PICK b \in BOOLEAN, x \in Vars : p = RefParam(b, x)
    BY <1>2
  <2>2. p.by = "ref" /\ p.long = b /\ p.var = x
    BY <2>1 DEF RefParam
  <2>3. QED BY <2>2
<1>3. QED BY <1>1, <1>2 DEF AllParams

\* A parameter is sent as what it means now.
LEMMA SentIs ==
  ASSUME NEW p \in AllParams, NEW image, p.by = "ref" => p \in DOMAIN image,
         NEW initialised, initialised = InitParameters(image)
  PROVE  <<"value", Sent(p, initialised)>> = Meant(p, variable)
<1>1. CASE p.by = "value" /\ p.by # "ref"
  <2>1. Sent(p, initialised) = p.value
    BY <1>1 DEF Sent
  <2>2. QED BY <1>1, <2>1 DEF Meant
<1>2. CASE p.by = "ref" /\ p.by # "value" /\ p.long \in BOOLEAN /\ p.var \in Vars
  <2>1. initialised[p] = variable[p.var]
    BY <1>2 DEF InitParameters
  <2>2. Sent(p, initialised) = variable[p.var]
    BY <1>2, <2>1 DEF Sent
  <2>3. QED BY <1>2, <2>2 DEF Meant
<1>3. QED BY <1>1, <1>2, ParamKind

\* The parameters by reference
Referred(ps) == {r \in ToSet(ps) : r.by = "ref"}

\* ... and so are all of them.
LEMMA ValuesGet ==
  ASSUME NEW ps \in Seq(AllParams), NEW n \in Nat, n = Len(ps), NEW bound, KeptIs(bound, ps, n), Len(bound) = n,
         NEW image, DOMAIN image = Referred(ps), NEW initialised, initialised = InitParameters(image)
  PROVE  Gets([k \in DOMAIN bound |-> Sent(bound[k], initialised)], ps, variable)
<1>1. bound \in Seq(AllParams) /\ \A k \in 1..n : bound[k] = ps[k]
  BY DEF KeptIs
<1>2. DOMAIN bound = 1..n
  BY <1>1
<1>3. ASSUME NEW k \in 1..n PROVE <<"value", Sent(bound[k], initialised)>> = Meant(ps[k], variable)
  <2>1. ps[k] \in AllParams /\ ps[k] \in ToSet(ps)
    BY ElementOfSeq DEF ToSet
  <2>2. PICK p \in AllParams : p = ps[k] /\ p \in ToSet(ps)
    BY <2>1
  <2>3. p.by = "ref" => p \in DOMAIN image
    BY <2>2 DEF Referred
  <2>4. <<"value", Sent(p, initialised)>> = Meant(p, variable)
    BY <2>3, SentIs
  <2>5. bound[k] = p
    BY <1>1, <2>2
  <2>6. QED BY <2>2, <2>4, <2>5
<1>4. QED BY <1>2, <1>3 DEF Gets

\* A finished query has as many parameters as its text question marks.
LEMMA ClauseIs ==
  ASSUME NEW q, NEW f, TextSays(q, f)
  PROVE  /\ Clause(q) \in Seq(Token) /\ q.parameters \in Seq(AllParams) /\ q.bind = q.parameters
         /\ Len(q.parameters) \in Nat /\ q.count = Len(q.parameters)
         /\ Marks(Clause(q), Len(Clause(q))) = Len(q.parameters)
<1>1. PICK W : Built(q, W) /\ Phrase(W, f)
  BY DEF TextSays
<1>2. PICK V : Condenses(V, f) /\ (W = V \/ \E c \in Columns : W = V \o Ordering(c))
  BY <1>1 DEF Phrase
<1>3. V \in Seq(Pieces) /\ Free(V)
  BY <1>2 DEF Condenses
<1>4. W \in Seq(Pieces) /\ InPlace(q.parameters, W) /\ Matched(q)
  BY <1>1 DEF Built
<1>5. PICK text, P, X : text = Clause(q) /\ P = Where(V) /\ text = P \o Text(W) /\ X = Text(W)
  BY <1>1, <1>2, <1>3, PrefixIs
<1>6. Consists(text, Len(P), Len(W), P, W)
  BY <1>4, <1>5, TextOf
<1>7. PICK m \in Nat, n \in Nat : m = Len(P) /\ n = Len(W) /\ Consists(text, m, n, P, W)
  BY <1>6, Zenon DEF Consists
<1>8. text \in Seq(Token) /\ Len(text) = m + n /\ Marks(text, m + n) = Marks(X, n)
  <2>1. n \in 0..n
    OBVIOUS
  <2>2. QED BY <1>5, <1>7, <2>1 DEF Consists
<1>9. Len(q.parameters) = Marks(X, n)
  BY <1>4, <1>5, <1>7 DEF InPlace
<1>10. Marks(text, Len(text)) = Len(q.parameters)
  BY <1>8, <1>9
<1>11. q.parameters \in Seq(AllParams) /\ q.bind = q.parameters /\ q.count = Len(q.parameters)
  BY <1>4 DEF Matched, Query
<1>12. Len(q.parameters) \in Nat
  BY <1>11, LenProperties
<1>13. QED BY <1>5, <1>8, <1>10, <1>11, <1>12

\* What the server reads of it
LEMMA TextIsRead ==
  ASSUME NEW q, NEW f, TextSays(q, f), NEW v \in Valuations, NEW values, Gets(values, q.parameters, v)
  PROVE  LET x == Condition(Filled(Clause(q), values)) IN x.ok /\ x.truth = f[v]
<1>1. PICK W : Built(q, W) /\ Phrase(W, f)
  BY DEF TextSays
<1>2. QED BY <1>1, OfferedIs

------------------------------------------------------------------------------
\* The inductive invariant: one step for each action.

\* A query as it is built: in both classes it says what it means, and one that is
\* not ordered yet can be combined.
Composed(x) ==
  /\ x.conditions \in 0..MaxConditions /\ x.negated \in BOOLEAN /\ x.ordered \in BOOLEAN
  /\ x.means \in Meanings /\ TextSays(x.query, x.means) /\ TextGives(x.common, x.means)
  /\ ~x.ordered => Sound(x)
  /\ DOMAIN x = DOMAIN NoExpr

\* A statement was prepared from such a query.
PreparedFrom(s, q) ==
  /\ s.means \in Meanings /\ TextSays(q, s.means)
  /\ s.text = Clause(q) /\ s.parameters = q.parameters /\ s.bound = Buffers(q.bind, q.count)
  /\ DOMAIN s.image = Referred(q.parameters)
  /\ s.text # NoStatement.text /\ DOMAIN s = DOMAIN NoStatement

\* What a statement was answered: it lacked a buffer, or was read as it was meant.
Answers(s, a, v) ==
  \/ a = NoAnswer
  \/ a = <<"refused">> /\ \E p \in ToSet(s.parameters) : ~HasBuffer(p)
  \/ \E t : /\ a = <<"read", t>>
            /\ Condition(t).ok /\ Condition(t).truth = s.means[v]

IInv ==
  /\ variable \in Valuations
  /\ expr = NoExpr \/ (Composed(expr) /\ prepared = NoStatement)
  /\ prepared = NoStatement \/ \E q : PreparedFrom(prepared, q)
  /\ Answers(prepared, answer, variable)
  /\ prepared = NoStatement => answer = NoAnswer

\* Selecting every row is a meaning.
LEMMA EverythingIs == Everything \in Meanings
BY TruthTypes DEF Everything, Meanings

\* The query before it has parts
LEMMA NoExprIs ==
  /\ NoExpr.query = None /\ NoExpr.common = <<>> /\ NoExpr.means = Everything /\ NoExpr.conditions = 0
  /\ NoExpr.negated = FALSE /\ NoExpr.ordered = FALSE
BY DEF NoExpr, Expr

\* A sound condition is composed.
LEMMA SoundComposed ==
  ASSUME NEW x, Sound(x), x.conditions \in 0..MaxConditions, x.negated \in BOOLEAN, x.ordered = FALSE,
         DOMAIN x = DOMAIN NoExpr
  PROVE  Composed(x)
<1>1. x.means \in Meanings /\ Says(x.query, x.means) /\ Gives(x.common, x.means)
  BY SoundIs
<1>2. TextSays(x.query, x.means) /\ TextGives(x.common, x.means)
  BY <1>1, SaysText, GivesText
<1>3. QED BY <1>1, <1>2 DEF Composed

\* Initially
LEMMA InitInv == Init => IInv
BY DEF Init, IInv, Answers

\* One step for each action
LEMMA BecomeInv ==
  ASSUME IInv, NEW x, Become(x), prepared = NoStatement, x.conditions <= MaxConditions => Composed(x)
  PROVE  IInv'
<1>1. Composed(x) /\ expr' = x /\ variable' = variable /\ prepared' = prepared /\ answer' = answer
  BY DEF Become
<1>2. answer' = NoAnswer /\ prepared' = NoStatement /\ variable' \in Valuations
  BY <1>1 DEF IInv
<1>3. Composed(expr')
  BY <1>1
<1>4. QED BY <1>2, <1>3 DEF IInv, Answers

\* Making a condition
LEMMA MakeInv ==
  ASSUME IInv, Make
  PROVE  IInv'
<1>1. PICK x \in Conditions : Become(x) /\ prepared = NoStatement
  BY DEF Make
<1>2. Sound(x) /\ x.conditions = 1 /\ x.negated = FALSE /\ x.ordered = FALSE /\ DOMAIN x = DOMAIN NoExpr
  BY ConditionsSound DEF OneCondition
<1>3. x.conditions <= MaxConditions => Composed(x)
  <2>1. MaxConditions \in Nat
    BY QueriesAssumption
  <2>2. x.conditions <= MaxConditions => x.conditions \in 0..MaxConditions
    BY <1>2, <2>1
  <2>3. QED BY <1>2, <2>2, SoundComposed
<1>4. QED BY <1>1, <1>3, BecomeInv

\* Combining two queries
LEMMA CombinedIs ==
  ASSUME NEW x, NEW y, NEW z \in {AndExpr(x, y), OrExpr(x, y), TextOrExpr(x, y)}
  PROVE  /\ z.conditions = x.conditions + y.conditions /\ z.negated = FALSE /\ z.ordered = FALSE
         /\ DOMAIN z = DOMAIN NoExpr
<1>1. PICK n : n = x.conditions + y.conditions
  OBVIOUS
<1>2. \E q, s, f : z = Expr(q, s, f, n)
  <2>1. CASE z = AndExpr(x, y)
    BY <1>1, <2>1 DEF AndExpr, Both
  <2>2. CASE z = OrExpr(x, y)
    BY <1>1, <2>2 DEF OrExpr, Both
  <2>3. CASE z = TextOrExpr(x, y)
    BY <1>1, <2>3, Zenon DEF TextOrExpr, Both
  <2>4. QED BY <2>1, <2>2, <2>3
<1>3. PICK q, s, f : z = Expr(q, s, f, n)
  BY <1>2
<1>4. z.conditions = n /\ z.negated = FALSE /\ z.ordered = FALSE /\ DOMAIN z = DOMAIN NoExpr
  BY <1>3 DEF Expr, NoExpr
<1>5. QED BY <1>1, <1>4

\* What can be combined
Combinable(x) == Sound(x) /\ x.conditions \in Nat

\* Combining
LEMMA CombinedInv ==
  ASSUME IInv, prepared = NoStatement, NEW x, Combinable(x), NEW y, Combinable(y),
         NEW z \in {AndExpr(x, y), OrExpr(x, y), TextOrExpr(x, y)}, Become(z)
  PROVE  IInv'
<1>1. PICK m \in Nat, n \in Nat : m = x.conditions /\ n = y.conditions
  BY DEF Combinable
<1>2. z.conditions = m + n /\ z.negated = FALSE /\ z.ordered = FALSE /\ DOMAIN z = DOMAIN NoExpr
  BY <1>1, CombinedIs
<1>3. Sound(z)
  BY SoundAnd, SoundOr DEF Combinable
<1>4. z.conditions <= MaxConditions => Composed(z)
  <2>1. MaxConditions \in Nat
    BY QueriesAssumption
  <2>2. z.conditions <= MaxConditions => z.conditions \in 0..MaxConditions
    BY <1>2, <2>1
  <2>3. QED BY <1>2, <1>3, <2>2, SoundComposed
<1>5. QED BY <1>4, BecomeInv

\* What is combined is sound.
LEMMA ConditionIsSound ==
  ASSUME IInv, IsCondition
  PROVE  /\ Sound(expr) /\ expr.conditions \in 0..MaxConditions /\ expr.ordered = FALSE
         /\ Combinable(expr) /\ prepared = NoStatement
<1>1. expr # NoExpr
  BY NoExprIs DEF IsCondition
<1>2. Composed(expr) /\ prepared = NoStatement
  BY <1>1 DEF IInv
<1>3. expr.ordered = FALSE /\ Sound(expr) /\ expr.conditions \in 0..MaxConditions
  BY <1>2 DEF Composed, IsCondition
<1>4. expr.conditions \in Nat
  <2>1. MaxConditions \in Nat
    BY QueriesAssumption
  <2>2. \A n \in 0..MaxConditions : n \in Nat
    BY <2>1
  <2>3. QED BY <1>3, <2>2
<1>5. QED BY <1>2, <1>3, <1>4 DEF Combinable

\* So are the operands.
LEMMA OperandCombinable ==
  ASSUME NEW y \in Operands
  PROVE  Combinable(y)
<1>1. Sound(y) /\ y.conditions = 1
  BY OperandsSound DEF OneCondition
<1>2. 1 \in Nat
  OBVIOUS
<1>3. QED BY <1>1, <1>2, Zenon DEF Combinable

\* &&
LEMMA ConjoinInv ==
  ASSUME IInv, Conjoin
  PROVE  IInv'
<1>1. PICK y \in Operands : Become(AndExpr(expr, y)) \/ Become(AndExpr(y, expr))
  BY DEF Conjoin
<1>2. Combinable(expr) /\ Combinable(y) /\ prepared = NoStatement
  BY ConditionIsSound, OperandCombinable DEF Conjoin, Combines
<1>3. QED BY <1>1, <1>2, CombinedInv

\* ||
LEMMA DisjoinInv ==
  ASSUME IInv, Disjoin
  PROVE  IInv'
<1>1. PICK y \in Operands : Become(OrExpr(expr, y)) \/ Become(OrExpr(y, expr))
  BY DEF Disjoin
<1>2. Combinable(expr) /\ Combinable(y) /\ prepared = NoStatement
  BY ConditionIsSound, OperandCombinable DEF Disjoin, Combines
<1>3. QED BY <1>1, <1>2, CombinedInv

\* OR as text
LEMMA JoinTextInv ==
  ASSUME IInv, JoinText
  PROVE  IInv'
<1>1. PICK y \in Operands : Become(TextOrExpr(expr, y)) \/ Become(TextOrExpr(y, expr))
  BY DEF JoinText
<1>2. Combinable(expr) /\ Combinable(y) /\ prepared = NoStatement
  BY ConditionIsSound, OperandCombinable DEF JoinText, Combines
<1>3. QED BY <1>1, <1>2, CombinedInv

\* !
LEMMA NegateInv ==
  ASSUME IInv, Negate
  PROVE  IInv'
<1>1. IsCondition /\ Become(NotExpr(expr))
  BY DEF Negate
<1>2. Sound(expr) /\ expr.conditions \in 0..MaxConditions /\ prepared = NoStatement
  BY <1>1, ConditionIsSound
<1>3. PICK z : z = NotExpr(expr)
  OBVIOUS
<1>4. z.conditions = expr.conditions /\ z.negated = TRUE /\ z.ordered = FALSE /\ DOMAIN z = DOMAIN NoExpr
  BY <1>3 DEF NotExpr, Expr, NoExpr
<1>5. Sound(z)
  BY <1>2, <1>3, SoundNot
<1>6. Composed(z)
  BY <1>2, <1>4, <1>5, SoundComposed
<1>7. QED BY <1>1, <1>2, <1>3, <1>6, BecomeInv

\* Ordering a query, or nothing
LEMMA OrderedIs ==
  ASSUME NEW x, DOMAIN x = DOMAIN NoExpr, NEW c
  PROVE  LET y == OrderedExpr(x, c) IN
         /\ y.query = AddedColumn(AddedText(x.query, <<"ORDER BY">>), c)
         /\ y.common = CommonAdd(CommonAdd(x.common, Leaf("native", <<"ORDER BY">>)), CommonColumn(Column(c)))
         /\ y.means = x.means /\ y.conditions = x.conditions /\ y.negated = x.negated /\ y.ordered = TRUE
         /\ DOMAIN y = DOMAIN NoExpr
<1> DEFINE w == "ORDER BY"
           p == AddedColumn(AddedText(x.query, <<w>>), c)
           s == CommonAdd(CommonAdd(x.common, Leaf("native", <<w>>)), CommonColumn(Column(c)))
           y == [x EXCEPT !.query = p, !.common = s, !.ordered = TRUE]
<1>1. OrderedExpr(x, c) = y
  BY Zenon DEF OrderedExpr
<1>2. DOMAIN NoExpr = {"query", "common", "means", "conditions", "negated", "ordered"}
  BY DEF NoExpr, Expr
<1> HIDE DEF p, s
<1>3. /\ y.query = p /\ y.common = s /\ y.means = x.means /\ y.conditions = x.conditions
      /\ y.negated = x.negated /\ y.ordered = TRUE /\ DOMAIN y = DOMAIN NoExpr
  BY <1>2
<1> HIDE DEF y
<1>4. QED BY <1>1, <1>3, Zenon DEF p, s, w

\* The text of an ordered query
LEMMA OrderedSays ==
  ASSUME NEW x, x = NoExpr \/ Sound(x), NEW c \in Columns
  PROVE  /\ TextSays(AddedColumn(AddedText(x.query, <<"ORDER BY">>), c), x.means)
         /\ TextGives(CommonAdd(CommonAdd(x.common, Leaf("native", <<"ORDER BY">>)), CommonColumn(Column(c))), x.means)
<1>1. CASE x = NoExpr
  <2>1. TextSays(AddedColumn(AddedText(None, <<"ORDER BY">>), c), Everything)
    BY BuiltNone, NothingCondenses, TextOrdered, Zenon
  <2>2. QED BY <1>1, <2>1, NoExprIs, GivesOnlyOrdered, Zenon
<1>2. CASE Sound(x)
  <2>1. Says(x.query, x.means) /\ Gives(x.common, x.means)
    BY <1>2, SoundIs
  <2>2. PICK W : Built(x.query, W) /\ Condenses(W, x.means)
    BY <2>1, MeansCondenses DEF Says
  <2>3. TextSays(AddedColumn(AddedText(x.query, <<"ORDER BY">>), c), x.means)
    BY <2>2, TextOrdered, Zenon
  <2>4. QED BY <2>1, <2>3, GivesOrdered, Zenon
<1>3. QED BY <1>1, <1>2

\* Ordering
LEMMA OrderInv ==
  ASSUME IInv, Order
  PROVE  IInv'
<1>1. PICK c \in ShortColumns : Become(OrderedExpr(expr, c)) /\ ~expr.ordered /\ prepared = NoStatement
  BY DEF Order
<1>2. c \in Columns
  BY DEF Columns
<1>3. /\ expr = NoExpr \/ Sound(expr)
      /\ DOMAIN expr = DOMAIN NoExpr /\ expr.conditions \in 0..MaxConditions /\ expr.negated \in BOOLEAN
      /\ expr.means \in Meanings
  <2>1. CASE expr = NoExpr
    <3>1. MaxConditions \in Nat
      BY QueriesAssumption
    <3>2. 0 \in 0..MaxConditions
      BY <3>1
    <3>3. QED BY <2>1, <3>2, NoExprIs, EverythingIs
  <2>2. CASE Composed(expr)
    BY <1>1, <2>2 DEF Composed
  <2>3. QED BY <2>1, <2>2 DEF IInv
<1>4. PICK x, y : x = expr /\ y = OrderedExpr(x, c) /\ Become(y)
  BY <1>1
<1>5. /\ TextSays(y.query, y.means) /\ TextGives(y.common, y.means) /\ y.means = x.means
      /\ y.conditions = x.conditions /\ y.negated = x.negated /\ y.ordered = TRUE
      /\ DOMAIN y = DOMAIN NoExpr
  <2> DEFINE q == AddedColumn(AddedText(x.query, <<"ORDER BY">>), c)
             s == CommonAdd(CommonAdd(x.common, Leaf("native", <<"ORDER BY">>)), CommonColumn(Column(c)))
  <2>1. TextSays(q, x.means) /\ TextGives(s, x.means)
    BY <1>2, <1>3, <1>4, OrderedSays, Zenon
  <2>2. /\ y.query = q /\ y.common = s /\ y.means = x.means /\ y.conditions = x.conditions
        /\ y.negated = x.negated /\ y.ordered = TRUE /\ DOMAIN y = DOMAIN NoExpr
    BY <1>3, <1>4, OrderedIs, Zenon
  <2> HIDE DEF q, s
  <2>3. QED BY <2>1, <2>2
<1>6. Composed(y)
  BY <1>3, <1>4, <1>5 DEF Composed
<1>7. QED BY <1>1, <1>4, <1>6, BecomeInv

\* No statement
LEMMA NoStatementIs ==
  /\ NoStatement.text = <<<<"none">>>>
  /\ DOMAIN NoStatement = {"text", "parameters", "bound", "image", "means", "common"}
BY DEF NoStatement

\* A text is not that of no statement.
LEMMA TextIsSome ==
  ASSUME NEW text \in Seq(Token)
  PROVE  text # NoStatement.text
<1>1. SUFFICES ASSUME text = NoStatement.text PROVE FALSE
  OBVIOUS
<1>2. PICK x : x = <<"none">> /\ text = <<x>>
  BY <1>1, NoStatementIs
<1>3. Len(text) = 1 /\ text[1] = x
  BY <1>2
<1>4. x \in Token
  <2>1. 1 \in 1..Len(text)
    BY <1>3
  <2>2. QED BY <1>3, <2>1, ElementOfSeq
<1>5. x[1] = "none"
  BY <1>2
<1>6. \A y \in Token : y[1] # "none"
  <2>1. \A w : Word(w)[1] # "none"
    BY DEF Word
  <2>2. \A c : Column(c)[1] # "none"
    BY DEF Column
  <2>3. Param[1] # "none"
    BY DEF Param
  <2>4. QED BY <2>1, <2>2, <2>3, Zenon DEF Token
<1>7. QED BY <1>4, <1>5, <1>6

\* Preparing, translated or not, optimised or not
LEMMA PrepareInv ==
  ASSUME IInv, NEW common \in BOOLEAN, Prepare(common)
  PROVE  IInv'
<1> DEFINE x == IF common THEN Translated(expr.common) ELSE expr.query
           S(q) == [text |-> Clause(q), parameters |-> q.parameters,
                    bound |-> Buffers(q.bind, q.count),
                    image |-> [p \in Referred(q.parameters) |-> Null],
                    means |-> expr.means, common |-> common]
<1>1. /\ expr # NoExpr /\ expr' = NoExpr /\ variable' = variable /\ answer' = answer
      /\ \E q \in {x, Optimized(x)} : prepared' = S(q)
  BY DEF Prepare, Referred
<1>2. Composed(expr) /\ answer = NoAnswer /\ variable \in Valuations
  BY <1>1 DEF IInv
<1>3. PICK f \in Meanings : f = expr.means /\ TextSays(expr.query, f) /\ TextGives(expr.common, f)
  BY <1>2 DEF Composed
<1>4. TextSays(x, f)
  <2>1. PICK q : Makes(expr.common, q) /\ TextSays(q, f)
    BY <1>3 DEF TextGives
  <2>2. Translated(expr.common) = q
    BY <2>1, MakesTranslated
  <2>3. QED BY <1>3, <2>1, <2>2
<1>5. TextSays(Optimized(x), f)
  BY <1>4, OptimizedSays
<1> HIDE DEF x
<1>6. PICK q : prepared' = S(q) /\ TextSays(q, f)
  BY <1>1, <1>4, <1>5
<1>7. PICK s : s = S(q) /\ s = prepared'
  BY <1>6
<1>8. /\ s.text = Clause(q) /\ s.parameters = q.parameters /\ s.bound = Buffers(q.bind, q.count)
      /\ DOMAIN s.image = Referred(q.parameters) /\ s.means = f
      /\ DOMAIN s = DOMAIN NoStatement
  BY <1>3, <1>7, NoStatementIs
<1> HIDE DEF S
<1>9. s.text # NoStatement.text
  <2>1. Clause(q) \in Seq(Token)
    BY <1>6, ClauseIs
  <2>2. QED BY <1>8, <2>1, TextIsSome
<1>10. PreparedFrom(s, q)
  BY <1>6, <1>8, <1>9 DEF PreparedFrom
<1>11. s # NoStatement
  BY <1>9
<1>12. QED BY <1>1, <1>2, <1>7, <1>10, <1>11 DEF IInv, Answers

\* What the server makes of the values that are sent
LEMMA ExecuteAnswers ==
  ASSUME NEW s, NEW q, PreparedFrom(s, q), variable \in Valuations,
         NEW image, image = InitParameters(s.image),
         NEW values, values = [n \in DOMAIN s.bound |-> Sent(s.bound[n], image)],
         NEW a, a = IF Marks(s.text, Len(s.text)) = Len(values) THEN <<"read", Filled(s.text, values)>>
                    ELSE <<"refused">>
  PROVE  Answers(s, a, variable)
<1>1. PICK ps \in Seq(AllParams), n \in Nat :
        ps = q.parameters /\ n = Len(ps) /\ q.bind = ps /\ q.count = n /\ Marks(s.text, Len(s.text)) = n
  BY ClauseIs DEF PreparedFrom
<1>2. s.bound = Buffers(ps, n) /\ s.parameters = ps /\ DOMAIN s.image = Referred(ps)
  BY <1>1 DEF PreparedFrom
<1>3. PICK bound : bound = s.bound /\ KeptIs(bound, ps, n)
  BY <1>1, <1>2, BuffersAre
<1>4. PICK k \in Nat : k = Len(bound) /\ DOMAIN bound = 1..k
  BY <1>3, LenProperties DEF KeptIs
<1>5. Len(values) = k
  <2> DEFINE G(i) == Sent(bound[i], image)
  <2>1. values = [i \in 1..k |-> G(i)]
    BY <1>3, <1>4
  <2> HIDE DEF G
  <2>2. QED BY <2>1
<1>6. CASE n = k
  <2>1. Gets(values, ps, variable)
    <3>1. Gets([i \in DOMAIN bound |-> Sent(bound[i], image)], ps, variable)
      BY <1>1, <1>2, <1>3, <1>4, <1>6, ValuesGet
    <3>2. QED BY <1>3, <3>1
  <2>2. PICK t : t = Filled(s.text, values) /\ a = <<"read", t>>
    BY <1>1, <1>5, <1>6
  <2>3. Condition(t).ok /\ Condition(t).truth = s.means[variable]
    <3>1. TextSays(q, s.means) /\ s.text = Clause(q)
      BY DEF PreparedFrom
    <3>2. QED BY <1>1, <2>1, <2>2, <3>1, TextIsRead
  <2>4. QED BY <2>2, <2>3 DEF Answers
<1>7. CASE n # k
  <2>1. ~\A i \in 1..n : HasBuffer(ps[i])
    BY <1>3, <1>4, <1>7 DEF KeptIs
  <2>2. PICK i \in 1..n : ~HasBuffer(ps[i])
    BY <2>1
  <2>3. ps[i] \in ToSet(s.parameters)
    BY <1>1, <1>2 DEF ToSet
  <2>4. a = <<"refused">>
    BY <1>1, <1>5, <1>7
  <2>5. QED BY <2>2, <2>3, <2>4 DEF Answers
<1>8. QED BY <1>6, <1>7

\* Executing
LEMMA ExecuteInv ==
  ASSUME IInv, Execute
  PROVE  IInv'
<1> DEFINE image == InitParameters(prepared.image)
           values == [n \in DOMAIN prepared.bound |-> Sent(prepared.bound[n], image)]
           a == IF Marks(prepared.text, Len(prepared.text)) = Len(values)
                THEN <<"read", Filled(prepared.text, values)>> ELSE <<"refused">>
<1>1. /\ prepared # NoStatement /\ prepared' = [prepared EXCEPT !.image = image] /\ answer' = a
      /\ expr' = expr /\ variable' = variable
  BY DEF Execute
<1>2. PICK q : PreparedFrom(prepared, q)
  BY <1>1 DEF IInv
<1>3. variable \in Valuations /\ (expr = NoExpr \/ (Composed(expr) /\ prepared = NoStatement))
  BY DEF IInv
<1>4. Answers(prepared, a, variable)
  <2>1. PICK i, v, b : i = image /\ v = [n \in DOMAIN prepared.bound |-> Sent(prepared.bound[n], i)]
                       /\ b = (IF Marks(prepared.text, Len(prepared.text)) = Len(v)
                               THEN <<"read", Filled(prepared.text, v)>> ELSE <<"refused">>)
                       /\ b = a
    OBVIOUS
  <2> HIDE DEF a, values
  <2>2. Answers(prepared, b, variable)
    BY <1>2, <1>3, <2>1, ExecuteAnswers, Zenon
  <2>3. QED BY <2>1, <2>2
<1>5. DOMAIN image = DOMAIN prepared.image
  BY DEF InitParameters
<1> HIDE DEF image, values, a
<1>6. PICK s : s = [prepared EXCEPT !.image = image] /\ s = prepared'
  BY <1>1
<1>7. /\ s.text = prepared.text /\ s.parameters = prepared.parameters /\ s.bound = prepared.bound
      /\ s.means = prepared.means /\ DOMAIN s.image = DOMAIN prepared.image /\ DOMAIN s = DOMAIN prepared
  BY <1>2, <1>5, <1>6, NoStatementIs DEF PreparedFrom
<1>8. PreparedFrom(s, q)
  BY <1>2, <1>7 DEF PreparedFrom
<1>9. s # NoStatement
  BY <1>8 DEF PreparedFrom
<1>10. Answers(s, a, variable)
  BY <1>4, <1>7 DEF Answers
<1>11. QED BY <1>1, <1>3, <1>6, <1>8, <1>9, <1>10 DEF IInv

\* Changing a variable
LEMMA ChangeInv ==
  ASSUME IInv, Change
  PROVE  IInv'
<1>1. PICK x \in Vars, w \in Values : variable' = [variable EXCEPT ![x] = w]
  BY DEF Change
<1>2. variable' \in Valuations
  BY <1>1 DEF IInv, Valuations
<1>3. expr' = expr /\ prepared' = prepared /\ answer' = NoAnswer
  BY DEF Change
<1>4. QED BY <1>2, <1>3 DEF IInv, Answers

\* Finishing
LEMMA FinishInv ==
  ASSUME IInv, Finish
  PROVE  IInv'
<1>1. prepared # NoStatement /\ prepared' = NoStatement /\ answer' = NoAnswer /\ expr' = expr /\ variable' = variable
  BY DEF Finish
<1>2. QED BY <1>1 DEF IInv, Answers

\* Every step
LEMMA NextInv ==
  ASSUME IInv, [Next]_vars
  PROVE  IInv'
<1>1. CASE Make
  BY <1>1, MakeInv
<1>2. CASE Conjoin
  BY <1>2, ConjoinInv
<1>3. CASE Disjoin
  BY <1>3, DisjoinInv
<1>4. CASE JoinText
  BY <1>4, JoinTextInv
<1>5. CASE Negate
  BY <1>5, NegateInv
<1>6. CASE Order
  BY <1>6, OrderInv
<1>7. ASSUME NEW common \in BOOLEAN, Prepare(common) PROVE IInv'
  BY <1>7, PrepareInv
<1>8. CASE Execute
  BY <1>8, ExecuteInv
<1>9. CASE Change
  BY <1>9, ChangeInv
<1>10. CASE Finish
  BY <1>10, FinishInv
<1>11. CASE UNCHANGED vars
  BY <1>11 DEF vars, IInv
<1>12. QED BY <1>1, <1>2, <1>3, <1>4, <1>5, <1>6, <1>7, <1>8, <1>9, <1>10, <1>11 DEF Next

------------------------------------------------------------------------------
\* The theorems.

\* A query, translated or not, has a parameter for each question mark.
LEMMA ExprMatched ==
  ASSUME IInv, NEW q \in {expr.query, Translated(expr.common)}
  PROVE  Matched(q)
<1>1. CASE expr = NoExpr
  <2>1. expr.query = None /\ expr.common = <<>>
    BY <1>1, NoExprIs
  <2>2. Translated(<<>>) = None
    BY DEF Translated
  <2>3. Matched(None)
    BY BuiltNone DEF Built
  <2>4. QED BY <2>1, <2>2, <2>3
<1>2. CASE Composed(expr)
  <2>1. TextSays(expr.query, expr.means) /\ TextGives(expr.common, expr.means)
    BY <1>2 DEF Composed
  <2>2. PICK z : Makes(expr.common, z) /\ TextSays(z, expr.means)
    BY <2>1 DEF TextGives
  <2>3. Translated(expr.common) = z
    BY <2>2, MakesTranslated
  <2>4. TextSays(q, expr.means)
    BY <2>1, <2>2, <2>3
  <2>5. QED BY <2>4 DEF TextSays, Built
<1>3. QED BY <1>1, <1>2 DEF IInv

\* What the invariant says of types,
LEMMA InvTypeOK ==
  ASSUME IInv
  PROVE  TypeOK
<1>1. /\ expr.conditions \in 0..MaxConditions /\ {expr.negated, expr.ordered} \subseteq BOOLEAN
      /\ expr.means \in [Valuations -> [Rows -> 0..2]]
  <2>1. CASE expr = NoExpr
    <3>1. MaxConditions \in Nat
      BY QueriesAssumption
    <3>2. 0 \in 0..MaxConditions
      BY <3>1
    <3>3. QED BY <2>1, <3>2, NoExprIs, EverythingIs DEF Meanings
  <2>2. CASE Composed(expr)
    BY <2>2 DEF Composed, Meanings
  <2>3. QED BY <2>1, <2>2 DEF IInv
<1>2. answer \in {NoAnswer, <<"refused">>} \/ (Len(answer) = 2 /\ answer[1] = "read")
  <2>1. \A t : Len(<<"read", t>>) = 2 /\ <<"read", t>>[1] = "read"
    OBVIOUS
  <2>2. QED BY <2>1 DEF IInv, Answers
<1>3. ASSUME NEW q \in {expr.query, Translated(expr.common)}
      PROVE  q.count = Marks(q.clause, Len(q.clause))
  BY <1>3, ExprMatched DEF Matched
<1>4. QED BY <1>1, <1>2, <1>3 DEF TypeOK, IInv

\* of question marks and parameters,
LEMMA InvMatch ==
  ASSUME IInv
  PROVE  PlaceholdersMatchParameters
BY ExprMatched DEF PlaceholdersMatchParameters, Matched

\* and of what is read.
LEMMA InvAnswered ==
  ASSUME IInv
  PROVE  Answered
<1>1. Answers(prepared, answer, variable)
  BY DEF IInv
<1>2. CASE answer = NoAnswer
  BY <1>2 DEF Answered, NoAnswer
<1>3. CASE answer = <<"refused">> /\ \E p \in ToSet(prepared.parameters) : ~HasBuffer(p)
  BY <1>3 DEF Answered, NoAnswer
<1>4. ASSUME NEW t, answer = <<"read", t>>, Condition(t).ok, Condition(t).truth = prepared.means[variable]
      PROVE  Answered
  <2>1. answer # NoAnswer /\ answer # <<"refused">> /\ answer[2] = t
    BY <1>4 DEF NoAnswer
  <2>2. \A row \in Rows : Selects(Condition(t), row) <=> prepared.means[variable][row] = 2
    BY <1>4 DEF Selects
  <2> DEFINE x == Condition(t)
  <2>3. x.ok /\ \A row \in Rows : Selects(x, row) <=> prepared.means[variable][row] = 2
    BY <1>4, <2>2
  <2> HIDE DEF x
  <2>4. x = Condition(answer[2])
    BY <2>1 DEF x
  <2>5. QED BY <2>1, <2>3, <2>4, Zenon DEF Answered
<1>5. QED BY <1>1, <1>2, <1>3, <1>4 DEF Answers

\* Every behaviour keeps the invariant.
THEOREM Invariant == Spec => []IInv
<1>1. Init => IInv
  BY InitInv
<1>2. IInv /\ [Next]_vars => IInv'
  BY NextInv
<1>3. QED BY <1>1, <1>2, PTL DEF Spec

\* Whatever an application builds has the types of the model, a binding count that is
\* the number of question marks, and a truth value for each row and valuation.
THEOREM TypeCorrect == Spec => []TypeOK
<1>1. IInv => TypeOK
  BY InvTypeOK
<1>2. QED BY <1>1, Invariant, PTL

\* However a query is put together with the operators of query_base and query_column,
\* and whether or not it is translated from a common query, it has as many parameters
\* as question marks, each bound in its own place, and the statement is told of all.
THEOREM EachMarkHasItsParameter == Spec => []PlaceholdersMatchParameters
<1>1. IInv => PlaceholdersMatchParameters
  BY InvMatch
<1>2. QED BY <1>1, Invariant, PTL

\* For all columns, values, operands and bounds: the text of a query built with the
\* operators, optimised or not, selects the rows that its conditions mean, with the values
\* that parameters had at construction (by value) or have at execution (by reference); a
\* statement is refused only if an empty long value has no buffer.
THEOREM TextMeans == Spec => []TextMeansTheQuery
<1>1. IInv => TextMeansTheQuery
  BY InvAnswered DEF TextMeansTheQuery
<1>2. QED BY <1>1, Invariant, PTL

\* And so does the text of the translation of the common query.
THEOREM TranslationMeans == Spec => []TranslationMeansTheQuery
<1>1. IInv => TranslationMeansTheQuery
  BY InvAnswered DEF TranslationMeansTheQuery
<1>2. QED BY <1>1, Invariant, PTL
==============================================================================
