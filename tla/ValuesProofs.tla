------------------------------ MODULE ValuesProofs ------------------------------
(****************************************************************************)
(* The transfer of values, for data of any length, members of any size, any *)
(* buffers, and any parameters: no chunk of long data is put beyond the     *)
(* string, the array or the buffer, no callback is called with one that it  *)
(* does not expect, and what arrives is what was sent.                      *)
(****************************************************************************)
EXTENDS Values, Integers, SequenceTheorems, WellFoundedInduction, TLAPS

------------------------------------------------------------------------------
\* That something holds of every number is proved by the least for which it does not.

\* A set of natural numbers has a least one.
LEMMA Least ==
  ASSUME NEW T \in SUBSET Nat, T # {}
  PROVE  \E x \in T : \A y \in T : x <= y
<1>1. PICK x \in T : \A y \in T : ~(<<y, x>> \in OpToRel(<, Nat))
  BY NatLessThanWellFounded, WFMin
<1>2. \A y \in T : ~(y < x)
  BY <1>1 DEF OpToRel
<1>3. QED BY <1>2

------------------------------------------------------------------------------
\* The inductive invariant.

\* The members that a value is sent from and read into, and what is on its way:
\* together they are TypeOK and a little more.
Ends ==
  /\ from \in Types /\ to \in Charset(from) /\ cap \in Capacities
  /\ null \in BOOLEAN /\ nullable \in BOOLEAN
  /\ value \in Seq(Nat) /\ behind \in {0, 2} /\ room \in Nat
  /\ from \in Arrays => Len(value) <= cap
  /\ from = "barray" /\ ~null => Len(value) = cap

Steps ==
  /\ pc \in {"send", "describe", "callback", "get", "store", "take", "done"}
  /\ stored \in Seq(Int) /\ position \in Nat
  /\ isNull \in BOOLEAN /\ known \in BOOLEAN
  /\ got \in 0..Len(stored) /\ at \in Nat /\ size \in Nat
  /\ chunk \in {"none", "null", "one", "first", "next", "last"}
  /\ into \in {"member", "tmp"}

Buffers ==
  /\ member \in Seq(Int) /\ tmp \in Seq(Int)
  /\ to \in Arrays => Len(member) = cap
  /\ Len(tmp) * Width <= TmpCapacity

\* What is read of the sender's member is behind what was read before.
Sending ==
  /\ pc \in {"send", "store"} => got = 0
  /\ pc = "send" =>
       /\ from = "wstring4" => position <= Len(value)
       /\ from = "warray4" => position < Len(Memory)

\* The temporary buffer keeps its size.
Buffered == pc # "done" => Len(tmp) = TmpCapacity \div Width

\* A string is given whole, or it is tried with a short one in the temporary
\* buffer, or it goes on where the last chunk has ended.
StringWanted ==
  \/ /\ known /\ chunk = "first" /\ position = 0
     /\ into = "member" /\ at = 0 /\ size = Len(stored) + 1
  \/ /\ ~known /\ chunk = "first" /\ position = 1
     /\ into = "tmp" /\ at = 0 /\ size = Short
  \/ /\ ~known /\ chunk = "next" /\ position > 1
     /\ into = "member" /\ at = position /\ size = Len(member) - position

\* What a callback has given to the driver.
Wanted ==
  CASE to = "string" -> StringWanted
    [] to = "wstring2" ->
         chunk = "first" /\ into = "member" /\ at = 0 /\ size = 2 * (Len(stored) + 1)
    [] to = "vector" ->
         chunk = "first" /\ into = "member" /\ at = 0 /\ size = Len(stored)
    [] to \in {"wstring4", "warray4"} -> into = "tmp" /\ at = 0 /\ size = TmpCapacity
    [] OTHER -> TRUE

Getting ==
  pc = "get" =>
    /\ chunk \in {"first", "next"} /\ (chunk = "first" => got = 0)
    /\ at + size \div Width <= Len(Destination)
    /\ to \notin Binary => size \div Width >= 1
    /\ Wanted

\* What the driver has put there.
StringGot ==
  \/ chunk = "last" /\ position = 0
  \/ ~known /\ position = 1 /\ size <= Len(tmp) /\ (chunk = "next" => size = Short - 1)
  \/ ~known /\ position > 1 /\ (chunk = "next" => position + size + 1 = Len(member))

Given ==
  CASE to = "string" -> StringGot
    [] to \in {"wstring2", "vector"} -> chunk = "last"
    [] to \in {"wstring4", "warray4"} -> size \div 2 <= Len(tmp)
    [] OTHER -> TRUE

Called ==
  /\ pc = "describe" => got = 0
  /\ pc = "callback" =>
       /\ chunk # "none"
       /\ chunk \in {"null", "one", "first"} => got = 0 /\ position = 0
       /\ chunk \in {"next", "last"} => Given

IInv == Ends /\ Steps /\ Buffers /\ Sending /\ Buffered /\ Getting /\ Called

\* What the data are, on top of where they are.  s and t agree up to n.
Same(s, t, n) == \A i \in 1..n : s[i] = t[i]
Lesser(a, b) == IF a <= b THEN a ELSE b

\* A character of a value is not 0, and short data are never read beyond an array.
Meant ==
  /\ \A i \in 1..Len(value) : value[i] # Nul
  /\ null => value = <<>>
  /\ pc \in {"send", "describe", "callback", "get"} => room = 0
  /\ pc \in {"store", "take"} => room # 0
  /\ room # 0 => behind = 0

\* The server has got what was read so far, and in the end all of it.  An array that
\* is full and smaller than the temporary buffer is sent at once.
SentSoFar ==
  /\ null \/ from \notin {"wstring4", "warray4"} => stored = <<>>
  /\ from = "wstring4" => stored = SubSeq(value, 1, position)
  /\ from = "warray4" =>
       /\ stored = SubSeq(Memory, 1, position)
       /\ Len(value) = cap /\ cap < TmpCapacity \div 2 => position = 0

SentAs == SentWell \/ ReadsOn

Sent == (pc = "send" => SentSoFar) /\ (pc \notin {"send", "store"} => SentAs)

\* The first call of a callback finds the member as it was, and knows of NULL and of
\* no data.
Announced ==
  /\ pc \in {"send", "describe"} => member = before
  /\ pc = "callback" /\ chunk = "first" => member = before
  /\ pc \in {"callback", "get"} =>
       /\ chunk = "null" <=> null
       /\ chunk = "one" => stored = <<>>
       /\ chunk \in {"first", "next", "last"} /\ to \notin Narrow => stored # <<>>
  /\ pc = "callback" /\ chunk = "next" => got < Len(stored)
  /\ pc = "callback" /\ chunk = "last" => got = Len(stored)

\* Which part of the data is where, while the driver has to go on at got + 1, ...
ArrayRead ==
  \/ position = 0 /\ got = 0 /\ into = "member" /\ at = 0 /\ size = cap * Width
  \/ /\ position = 1 /\ got = cap - 1 /\ into = "tmp" /\ at = 0 /\ size = TmpCapacity
     /\ Len(stored) >= cap /\ Same(member, stored, cap - 1)
  \/ position = 2 /\ into = "tmp" /\ Len(stored) >= cap /\ Same(member, stored, cap)

Read ==
  CASE to = "string" -> position > 1 => position = got /\ Same(member, stored, got)
    [] to = "wstring4" -> member = before \o SubSeq(stored, 1, got)
    [] to = "warray4" -> position = Lesser(got, cap) /\ Same(member, stored, position)
    [] to = "vector" -> Len(member) = Len(stored)
    [] to \in {"array", "warray2"} -> ArrayRead
    [] to = "barray" ->
         \/ got = 0 /\ into = "member" /\ at = 0 /\ size = Lesser(Len(stored), cap)
         \/ into = "tmp" /\ Same(member, stored, Lesser(Len(stored), cap))
    [] OTHER -> TRUE

\* ... and when it has put there what is up to got.
StringReturned ==
  \/ position # 1 /\ got = position + size /\ got <= Len(member) /\ Same(member, stored, got)
  \/ position = 1 /\ got = size /\ Same(tmp, stored, got)

\* The temporary buffer has the last characters that the driver has returned.
InBuffer(k) == k <= got /\ \A i \in 1..k : tmp[i] = stored[got - k + i]

ArrayReturned ==
  \/ /\ position = 0 /\ Same(member, stored, got)
     /\ IF chunk = "last" THEN got < cap /\ size \div Width = got ELSE got = cap - 1
  \/ /\ position = 1 /\ Len(stored) >= cap /\ Same(member, stored, cap - 1)
     /\ tmp[1] = stored[cap]
  \/ position = 2 /\ Len(stored) >= cap /\ Same(member, stored, cap)

Returned ==
  CASE to = "string" -> StringReturned
    [] to = "wstring2" ->
         size \div 2 = got /\ got <= Len(member) /\ Same(member, stored, got)
    [] to = "vector" -> member = stored
    [] to = "wstring4" ->
         /\ InBuffer(size \div 2)
         /\ member = before \o SubSeq(stored, 1, got - size \div 2)
    [] to = "warray4" ->
         /\ InBuffer(size \div 2)
         /\ position = Lesser(got - size \div 2, cap) /\ Same(member, stored, position)
    [] to \in {"array", "warray2"} -> ArrayReturned
    [] to = "barray" -> Same(member, stored, Lesser(Len(stored), cap))

\* What the member holds in the end, of a string that is added to its old value too.
HeldAs ==
  CASE null /\ nullable -> isNull
    [] ~(null /\ nullable) /\ to \in Arrays -> ~isNull /\ Truncated
    [] ~(null /\ nullable) /\ to = "wstring4" /\ room = 0 ->
         ~isNull /\ member = (IF stored = <<>> THEN <<>> ELSE before \o stored)
    [] OTHER -> ~isNull /\ member = stored

Transferred ==
  /\ pc = "get" => Read
  /\ pc = "callback" /\ chunk \in {"next", "last"} => Returned
  /\ pc = "done" => HeldAs

Contents == before \in Seq(Int) /\ Meant /\ Sent /\ Announced /\ Transferred
RInv == item = Data => Contents

------------------------------------------------------------------------------
\* The types of the members, and the sequences that hold the data.

LEMMA Sizes ==
  /\ TmpCapacity \in Nat /\ TmpCapacity >= 4
  /\ Short \in Nat /\ Short >= 3 /\ Short <= TmpCapacity
  /\ Long \in Nat /\ Long > Short
  /\ \A n \in Capacities : n \in Nat /\ n >= 1
BY LongDataAssumption

\* The receiver's type is one of the sender's character set.
LEMMA TheCharset ==
  ASSUME NEW f \in Types, NEW t \in Charset(f)
  PROVE  t \in Types /\ (t \in Wide <=> f \in Wide) /\ (t \in Binary <=> f \in Binary)
<1> DEFINE C == Charset(f)
<1>1. \E s \in {Narrow, Wide, Binary} : f \in s
  BY DEF Types
<1>2. C \in {Narrow, Wide, Binary} /\ f \in C
  BY <1>1 DEF Charset
<1>3. t \in C
  OBVIOUS
<1> HIDE DEF C
<1>4. CASE C = Narrow
  BY <1>2, <1>3, <1>4 DEF Types, Narrow, Wide, Binary
<1>5. CASE C = Wide
  BY <1>2, <1>3, <1>5 DEF Types, Narrow, Wide, Binary
<1>6. CASE C = Binary
  BY <1>2, <1>3, <1>6 DEF Types, Narrow, Wide, Binary
<1>7. QED BY <1>2, <1>4, <1>5, <1>6

LEMMA Halved == \A n \in Nat : n \div 2 \in Nat
OBVIOUS

LEMMA LeastOfTwo ==
  ASSUME NEW a \in Int, NEW b \in Int
  PROVE  Min({a, b}) = (IF a <= b THEN a ELSE b)
<1> DEFINE P(m) == m \in {a, b} /\ \A y \in {a, b} : m <= y
<1>1. P(IF a <= b THEN a ELSE b)
  OBVIOUS
<1>2. \A m : P(m) => m = (IF a <= b THEN a ELSE b)
  OBVIOUS
<1>3. Min({a, b}) = CHOOSE m : P(m)
  BY DEF Min
<1> HIDE DEF P
<1>4. P(Min({a, b}))
  BY <1>1, <1>3
<1>5. QED BY <1>2, <1>4

LEMMA LeastOfThree ==
  ASSUME NEW a \in Int, NEW b \in Int, NEW c \in Int
  PROVE  /\ Min({a, b, c}) \in {a, b, c}
         /\ Min({a, b, c}) <= a /\ Min({a, b, c}) <= b /\ Min({a, b, c}) <= c
<1> DEFINE P(m) == m \in {a, b, c} /\ \A y \in {a, b, c} : m <= y
<1>1. \E m : P(m)
  <2>1. CASE a <= b /\ a <= c
    BY <2>1
  <2>2. CASE b <= a /\ b <= c
    BY <2>2
  <2>3. CASE c <= a /\ c <= b
    BY <2>3
  <2>4. QED BY <2>1, <2>2, <2>3
<1>2. Min({a, b, c}) = CHOOSE m : P(m)
  BY DEF Min
<1> HIDE DEF P
<1>3. P(Min({a, b, c}))
  BY <1>1, <1>2
<1>4. QED BY <1>3 DEF P

LEMMA Filled ==
  ASSUME NEW x \in Int, NEW n \in Nat
  PROVE  Fill(x, n) \in Seq(Int) /\ Len(Fill(x, n)) = n
BY DEF Fill

LEMMA Joined ==
  ASSUME NEW a \in Seq(Int), NEW b \in Seq(Int)
  PROVE  a \o b \in Seq(Int) /\ Len(a \o b) = Len(a) + Len(b)
BY ConcatProperties

\* A part of a sequence of numbers.
LEMMA Part ==
  ASSUME NEW s \in Seq(Int), NEW m \in Nat, m >= 1, NEW n \in Int, n <= Len(s)
  PROVE  /\ SubSeq(s, m, n) \in Seq(Int)
         /\ Len(SubSeq(s, m, n)) = (IF m <= n THEN n - m + 1 ELSE 0)
<1>1. \A i \in m..n : s[i] \in Int
  OBVIOUS
<1>2. QED BY <1>1, SubSeqProperties

LEMMA Resized ==
  ASSUME NEW s \in Seq(Int), NEW n \in Nat
  PROVE  Resize(s, n) \in Seq(Int) /\ Len(Resize(s, n)) = n
<1> DEFINE k == Min({n, Len(s)})
           a == SubSeq(s, 1, k)
           b == Fill(Nul, n - k)
<1>1. k \in Nat /\ k <= n /\ k <= Len(s)
  BY LeastOfTwo
<1> HIDE DEF k
<1>2. a \in Seq(Int) /\ Len(a) = k
  BY <1>1, Part
<1>3. b \in Seq(Int) /\ Len(b) = n - k
  <2> DEFINE r == n - k
  <2>1. r \in Nat /\ Nul \in Int
    BY <1>1 DEF Nul
  <2> HIDE DEF r
  <2>2. Fill(Nul, r) \in Seq(Int) /\ Len(Fill(Nul, r)) = r
    BY <2>1, Filled, Zenon
  <2>3. QED BY <2>2 DEF r
<1>4. Resize(s, n) = a \o b
  BY DEF Resize, k
<1> HIDE DEF a, b
<1>5. a \o b \in Seq(Int) /\ Len(a \o b) = Len(a) + Len(b)
  BY <1>2, <1>3, Joined
<1>6. QED BY <1>1, <1>2, <1>3, <1>4, <1>5

\* What is put where there is space for it leaves the size alone.
LEMMA PutKeepsSize ==
  ASSUME NEW s \in Seq(Int), NEW d \in Seq(Int), NEW o \in Nat, o + Len(d) <= Len(s)
  PROVE  Put(s, o, d) \in Seq(Int) /\ Len(Put(s, o, d)) = Len(s)
<1> DEFINE a == SubSeq(s, 1, o)
           b == SubSeq(s, o + Len(d) + 1, Len(s))
<1>1. Len(d) \in Nat /\ Len(s) \in Nat
  OBVIOUS
<1>2. a \in Seq(Int) /\ Len(a) = o
  BY <1>1, Part
<1>3. b \in Seq(Int) /\ Len(b) = Len(s) - o - Len(d)
  BY <1>1, Part
<1> DEFINE c == a \o d
<1>4. Put(s, o, d) = c \o b
  BY DEF Put
<1> HIDE DEF a, b
<1>5. c \in Seq(Int) /\ Len(c) = Len(a) + Len(d)
  BY <1>2, Joined
<1> HIDE DEF c
<1>6. c \o b \in Seq(Int) /\ Len(c \o b) = Len(c) + Len(b)
  BY <1>3, <1>5, Joined, Zenon
<1>7. QED BY <1>1, <1>2, <1>3, <1>4, <1>5, <1>6

\* One number, and a sequence with one number behind it or without.
LEMMA One ==
  ASSUME NEW x \in Int
  PROVE  <<x>> \in Seq(Int) /\ Len(<<x>>) = 1
OBVIOUS

LEMMA Ended ==
  ASSUME NEW d \in Seq(Int), NEW e \in BOOLEAN
  PROVE  /\ d \o (IF e THEN <<Nul>> ELSE <<>>) \in Seq(Int)
         /\ Len(d \o (IF e THEN <<Nul>> ELSE <<>>)) = (IF e THEN Len(d) + 1 ELSE Len(d))
<1> DEFINE z == IF e THEN <<Nul>> ELSE <<>>
<1>1. z \in Seq(Int) /\ Len(z) = (IF e THEN 1 ELSE 0)
  BY DEF Nul
<1> HIDE DEF z
<1>2. d \o z \in Seq(Int) /\ Len(d \o z) = Len(d) + Len(z)
  BY <1>1, ConcatProperties
<1>3. QED BY <1>1, <1>2 DEF z

\* The items of a part are those of the sequence from m on.
LEMMA PartItems ==
  ASSUME NEW s \in Seq(Int), NEW m \in Nat, m >= 1, NEW n \in Int, n <= Len(s)
  PROVE  \A i \in 1..(n - m + 1) : SubSeq(s, m, n)[i] = s[m + i - 1]
<1>1. \A i \in m..n : s[i] \in Int
  OBVIOUS
<1>2. QED BY <1>1, SubSeqProperties

\* What is up to n, and what is behind m up to n.
LEMMA Behinds ==
  ASSUME NEW s \in Seq(Int), NEW m \in Nat, NEW n \in Nat, m <= n, n <= Len(s)
  PROVE  /\ SubSeq(s, m + 1, n) \in Seq(Int) /\ Len(SubSeq(s, m + 1, n)) = n - m
         /\ \A i \in 1..(n - m) : SubSeq(s, m + 1, n)[i] = s[m + i]
<1> DEFINE b == SubSeq(s, m + 1, n)
<1>1. m + 1 \in Nat /\ m + 1 >= 1 /\ n \in Int /\ Len(s) \in Nat
  OBVIOUS
<1>2. b \in Seq(Int) /\ Len(b) = (IF m + 1 <= n THEN n - (m + 1) + 1 ELSE 0)
  BY <1>1, Part
<1>3. \A i \in 1..(n - (m + 1) + 1) : b[i] = s[(m + 1) + i - 1]
  BY <1>1, PartItems
<1>4. n - (m + 1) + 1 = n - m /\ \A i \in 1..(n - m) : (m + 1) + i - 1 = m + i
  OBVIOUS
<1> HIDE DEF b
<1>5. Len(b) = n - m
  BY <1>2, <1>4
<1>6. \A i \in 1..(n - m) : b[i] = s[m + i]
  BY <1>3, <1>4
<1>7. QED BY <1>2, <1>5, <1>6 DEF b

\* What is up to n.
LEMMA Beginning ==
  ASSUME NEW s \in Seq(Int), NEW n \in Nat, n <= Len(s)
  PROVE  /\ SubSeq(s, 1, n) \in Seq(Int) /\ Len(SubSeq(s, 1, n)) = n
         /\ \A i \in 1..n : SubSeq(s, 1, n)[i] = s[i]
<1>1. 1 \in Nat /\ n \in Int
  OBVIOUS
<1>2. SubSeq(s, 1, n) \in Seq(Int) /\ Len(SubSeq(s, 1, n)) = n
  BY <1>1, Part
<1>3. \A i \in 1..(n - 1 + 1) : SubSeq(s, 1, n)[i] = s[1 + i - 1]
  BY <1>1, PartItems
<1>4. n - 1 + 1 = n /\ \A i \in 1..n : 1 + i - 1 = i
  OBVIOUS
<1>5. \A i \in 1..n : SubSeq(s, 1, n)[i] = s[i]
  BY <1>3, <1>4
<1>6. QED BY <1>2, <1>5

\* The items of one sequence, and behind them those of the other.
LEMMA JoinedItems ==
  ASSUME NEW a \in Seq(Int), NEW b \in Seq(Int)
  PROVE  /\ \A i \in 1..Len(a) : (a \o b)[i] = a[i]
         /\ \A i \in 1..Len(b) : (a \o b)[Len(a) + i] = b[i]
<1>1. \A i \in 1..(Len(a) + Len(b)) :
        (a \o b)[i] = (IF i <= Len(a) THEN a[i] ELSE b[i - Len(a)])
  BY ConcatProperties
<1>2. Len(a) \in Nat /\ Len(b) \in Nat
  OBVIOUS
<1>3. ASSUME NEW i \in 1..Len(a) PROVE (a \o b)[i] = a[i]
  BY <1>1, <1>2
<1>4. ASSUME NEW i \in 1..Len(b) PROVE (a \o b)[Len(a) + i] = b[i]
  <2> DEFINE j == Len(a) + i
  <2>1. j \in 1..(Len(a) + Len(b)) /\ ~(j <= Len(a)) /\ j - Len(a) = i
    BY <1>2
  <2> HIDE DEF j
  <2>2. (a \o b)[j] = b[j - Len(a)]
    BY <1>1, <2>1
  <2>3. QED BY <2>1, <2>2 DEF j
<1>5. QED BY <1>3, <1>4

\* A sequence that grows keeps what it has, and one that shrinks what is left.
LEMMA ResizedItems ==
  ASSUME NEW s \in Seq(Int), NEW n \in Nat
  PROVE  \A i \in 1..n : i <= Len(s) => Resize(s, n)[i] = s[i]
<1> DEFINE k == Min({n, Len(s)})
           a == SubSeq(s, 1, k)
           b == Fill(Nul, n - k)
<1>1. k \in Nat /\ k <= n /\ k <= Len(s) /\ (k = n \/ k = Len(s))
  BY LeastOfTwo
<1> HIDE DEF k
<1>2. a \in Seq(Int) /\ Len(a) = k
  BY <1>1, Part
<1>3. \A i \in 1..k : a[i] = s[i]
  BY <1>1, PartItems
<1>4. b \in Seq(Int)
  <2> DEFINE r == n - k
  <2>1. r \in Nat /\ Nul \in Int
    BY <1>1 DEF Nul
  <2> HIDE DEF r
  <2>2. Fill(Nul, r) \in Seq(Int)
    BY <2>1, Filled, Zenon
  <2>3. QED BY <2>2 DEF r
<1>5. Resize(s, n) = a \o b
  BY DEF Resize, k
<1> HIDE DEF a, b
<1>6. \A i \in 1..k : (a \o b)[i] = a[i]
  BY <1>2, <1>4, JoinedItems
<1>7. ASSUME NEW i \in 1..n, i <= Len(s) PROVE Resize(s, n)[i] = s[i]
  <2>1. i \in 1..k
    BY <1>1, <1>7
  <2>2. QED BY <1>3, <1>5, <1>6, <2>1
<1>8. QED BY <1>7

\* What is put somewhere is there, and the rest is as it was.
LEMMA PutItems ==
  ASSUME NEW s \in Seq(Int), NEW d \in Seq(Int), NEW o \in Nat, o + Len(d) <= Len(s)
  PROVE  /\ \A i \in 1..o : Put(s, o, d)[i] = s[i]
         /\ \A i \in 1..Len(d) : Put(s, o, d)[o + i] = d[i]
<1> DEFINE a == SubSeq(s, 1, o)
           b == SubSeq(s, o + Len(d) + 1, Len(s))
<1>1. Len(d) \in Nat /\ Len(s) \in Nat
  OBVIOUS
<1>2. a \in Seq(Int) /\ Len(a) = o
  BY <1>1, Part
<1>3. \A i \in 1..o : a[i] = s[i]
  BY <1>1, PartItems
<1>4. b \in Seq(Int)
  BY <1>1, Part
<1> DEFINE c == a \o d
<1>5. Put(s, o, d) = c \o b
  BY DEF Put
<1> HIDE DEF a, b
<1>6. c \in Seq(Int) /\ Len(c) = o + Len(d)
  BY <1>2, Joined
<1>7. (\A i \in 1..o : c[i] = a[i]) /\ (\A i \in 1..Len(d) : c[o + i] = d[i])
  BY <1>2, JoinedItems
<1> HIDE DEF c
<1>8. \A i \in 1..Len(c) : (c \o b)[i] = c[i]
  BY <1>4, <1>6, JoinedItems
<1>9. ASSUME NEW i \in 1..o PROVE Put(s, o, d)[i] = s[i]
  BY <1>1, <1>3, <1>5, <1>6, <1>7, <1>8
<1>10. ASSUME NEW i \in 1..Len(d) PROVE Put(s, o, d)[o + i] = d[i]
  <2>1. o + i \in 1..Len(c)
    BY <1>1, <1>6
  <2>2. QED BY <1>5, <1>7, <1>8, <2>1
<1>11. QED BY <1>9, <1>10

\* Sequences of the same length that agree are equal.
LEMMA SameAll ==
  ASSUME NEW s \in Seq(Int), NEW t \in Seq(Int), Len(s) = Len(t), Same(s, t, Len(t))
  PROVE  s = t
BY SeqEqual DEF Same

\* A part of a part, and two parts that follow each other.
LEMMA PartOfPart ==
  ASSUME NEW s \in Seq(Int), NEW p \in Nat, NEW l \in Nat, p <= l, l <= Len(s),
         NEW n \in Nat, n <= l - p
  PROVE  SubSeq(SubSeq(s, p + 1, l), 1, n) = SubSeq(s, p + 1, p + n)
<1> DEFINE r == SubSeq(s, p + 1, l)
           a == SubSeq(r, 1, n)
           q == p + n
           b == SubSeq(s, p + 1, q)
<1>1. q \in Nat /\ p <= q /\ q <= Len(s) /\ q - p = n
  OBVIOUS
<1>2. r \in Seq(Int) /\ Len(r) = l - p /\ \A i \in 1..(l - p) : r[i] = s[p + i]
  BY Behinds, Zenon
<1> HIDE DEF q
<1>3. b \in Seq(Int) /\ Len(b) = q - p /\ \A i \in 1..(q - p) : b[i] = s[p + i]
  BY <1>1, Behinds, Zenon
<1> HIDE DEF r, b
<1>4. a \in Seq(Int) /\ Len(a) = n /\ \A i \in 1..n : a[i] = r[i]
  <2>1. n <= Len(r)
    BY <1>2
  <2>2. QED BY <1>2, <2>1, Beginning, Zenon
<1> HIDE DEF a
<1>5. ASSUME NEW i \in 1..n PROVE a[i] = b[i]
  <2>1. i \in 1..(l - p) /\ i \in 1..(q - p)
    BY <1>1
  <2>2. QED BY <1>2, <1>3, <1>4, <2>1
<1>6. a = b
  BY <1>1, <1>3, <1>4, <1>5, SeqEqual
<1>7. QED BY <1>6 DEF a, b, r, q

LEMMA PartsFollow ==
  ASSUME NEW s \in Seq(Int), NEW m \in Nat, NEW n \in Nat, m <= n, n <= Len(s)
  PROVE  SubSeq(s, 1, m) \o SubSeq(s, m + 1, n) = SubSeq(s, 1, n)
<1> DEFINE a == SubSeq(s, 1, m)
           b == SubSeq(s, m + 1, n)
           c == SubSeq(s, 1, n)
           d == a \o b
<1>1. Len(s) \in Nat /\ m <= Len(s)
  OBVIOUS
<1>2. a \in Seq(Int) /\ Len(a) = m /\ \A i \in 1..m : a[i] = s[i]
  BY <1>1, Beginning, Zenon
<1>3. b \in Seq(Int) /\ Len(b) = n - m /\ \A i \in 1..(n - m) : b[i] = s[m + i]
  BY Behinds, Zenon
<1>4. c \in Seq(Int) /\ Len(c) = n /\ \A i \in 1..n : c[i] = s[i]
  BY Beginning, Zenon
<1> HIDE DEF a, b, c
<1>5. d \in Seq(Int) /\ Len(d) = Len(a) + Len(b)
  BY <1>2, <1>3, Joined, Zenon
<1>6. (\A i \in 1..Len(a) : d[i] = a[i]) /\ (\A i \in 1..Len(b) : d[Len(a) + i] = b[i])
  BY <1>2, <1>3, JoinedItems, Zenon
<1> HIDE DEF d
<1>7. ASSUME NEW i \in 1..n PROVE d[i] = c[i]
  <2>1. CASE i <= m
    <3>1. i \in 1..m /\ i \in 1..Len(a)
      BY <1>2, <2>1
    <3>2. QED BY <1>2, <1>4, <1>6, <3>1
  <2>2. CASE ~(i <= m)
    <3> DEFINE j == i - m
    <3>1. j \in 1..(n - m) /\ m + j = i
      BY <2>2
    <3> HIDE DEF j
    <3>2. b[j] = s[m + j] /\ d[m + j] = b[j]
      BY <1>2, <1>3, <1>6, <3>1
    <3>3. QED BY <1>4, <3>1, <3>2
  <2>3. QED BY <2>1, <2>2
<1>8. Len(d) = Len(c)
  BY <1>2, <1>3, <1>4, <1>5
<1>9. d = c
  BY <1>4, <1>5, <1>7, <1>8, SeqEqual
<1>10. QED BY <1>9 DEF a, b, c, d

------------------------------------------------------------------------------
\* What the invariant says of the state at hand.

LEMMA TheEnds ==
  ASSUME Ends
  PROVE  /\ to \in Types /\ (to \in Wide <=> from \in Wide)
         /\ cap \in Nat /\ cap >= 1
         /\ value \in Seq(Int) /\ Len(value) \in Nat
         /\ Width = (IF to \in Wide THEN 2 ELSE 1)
<1>1. to \in Types /\ (to \in Wide <=> from \in Wide)
  BY TheCharset DEF Ends
<1>2. cap \in Nat /\ cap >= 1
  BY Sizes DEF Ends
<1>3. value \in Seq(Int) /\ Len(value) \in Nat
  BY DEF Ends
<1>4. QED BY <1>1, <1>2, <1>3 DEF Width

\* An array in memory has a 0 at the end of what is looked at.
LEMMA TheMemory ==
  ASSUME Ends
  PROVE  /\ Memory \in Seq(Int) /\ Len(Memory) \in Nat /\ Len(Memory) >= 1
         /\ Memory[Len(Memory)] = Nul
<1> DEFINE b == Fill(Behind, behind)
           z == IF Len(value) < cap THEN <<Nul>> ELSE b \o <<Nul>>
<1>1. b \in Seq(Int) /\ Len(b) \in Nat
  <2>1. behind \in Nat /\ Behind \in Int
    BY DEF Ends, Behind
  <2>2. b \in Seq(Int) /\ Len(b) = behind
    BY <2>1, Filled, Zenon
  <2>3. QED BY <2>1, <2>2
<1> HIDE DEF b
<1>2. <<Nul>> \in Seq(Int) /\ Len(<<Nul>>) = 1 /\ <<Nul>>[1] = Nul
  BY DEF Nul
<1>3. /\ b \o <<Nul>> \in Seq(Int) /\ Len(b \o <<Nul>>) = Len(b) + 1
      /\ (b \o <<Nul>>)[Len(b) + 1] = Nul
  BY <1>1, <1>2, ConcatProperties
<1>4. z \in Seq(Int) /\ Len(z) \in Nat /\ Len(z) >= 1 /\ z[Len(z)] = Nul
  BY <1>1, <1>2, <1>3
<1>5. Memory = value \o z
  BY DEF Memory, b
<1> HIDE DEF z
<1>6. value \in Seq(Int) /\ Len(value) \in Nat
  BY TheEnds
<1>7. /\ value \o z \in Seq(Int) /\ Len(value \o z) = Len(value) + Len(z)
      /\ (value \o z)[Len(value) + Len(z)] = z[Len(z)]
  BY <1>4, <1>6, ConcatProperties
<1>8. QED BY <1>4, <1>5, <1>6, <1>7

\* The temporary buffer holds a short string, and at least two characters of any
\* width; all of it is given.
LEMMA TheBuffer ==
  ASSUME Ends, Buffers, Buffered, pc # "done"
  PROVE  /\ Len(tmp) = TmpCapacity \div Width /\ Len(tmp) \in Nat /\ Len(tmp) >= 2
         /\ tmp[1] \in Int
         /\ to \notin Wide => Len(tmp) = TmpCapacity
         /\ to \in Wide => Len(tmp) = TmpCapacity \div 2
<1>1. Len(tmp) = TmpCapacity \div Width
  BY DEF Buffered
<1>2. CASE to \in Wide
  BY <1>1, <1>2, TheEnds, Sizes DEF Buffers
<1>3. CASE to \notin Wide
  BY <1>1, <1>3, TheEnds, Sizes DEF Buffers
<1>4. QED BY <1>2, <1>3

------------------------------------------------------------------------------
\* It holds at first.

LEMMA InitEstablishes == Init => IInv
<1> SUFFICES ASSUME Init PROVE IInv
  OBVIOUS
<1>1. PICK n : /\ n \in IF null THEN {0} ELSE IF from = "barray" THEN {cap} ELSE Lengths
               /\ (from \in Arrays => n <= cap) /\ value = [i \in 1..n |-> i]
  BY DEF Init
<1>2. from \in Types /\ to \in Charset(from) /\ cap \in Capacities /\ cap \in Nat /\ cap >= 1
  BY Sizes DEF Init
<1>3. n \in Nat
  BY <1>1, <1>2, LongDataAssumption
<1>4. value \in Seq(Nat) /\ Len(value) = n
  BY <1>1, <1>3
<1>5. Ends
  <2>1. room \in Nat
    BY LongDataAssumption DEF Init
  <2>2. null \in BOOLEAN /\ nullable \in BOOLEAN /\ behind \in {0, 2}
    BY DEF Init
  <2>3. QED BY <1>1, <1>2, <1>4, <2>1, <2>2 DEF Ends
<1>6. member \in Seq(Int) /\ (to \in Arrays => Len(member) = cap)
  <2>1. PICK m : /\ m \in IF to \in Arrays THEN {cap} ELSE IF isNull THEN {0} ELSE OldLengths
                 /\ member = Fill(Old, m)
    BY DEF Init
  <2>2. m \in Nat
    BY <1>2, <2>1, LongDataAssumption
  <2>3. QED BY <2>1, <2>2, Filled DEF Old
<1>7. /\ Width \in {1, 2} /\ tmp \in Seq(Int)
      /\ Len(tmp) = TmpCapacity \div Width /\ Len(tmp) * Width <= TmpCapacity
  <2> DEFINE w == IF from \in Wide THEN 2 ELSE 1
  <2>1. w = Width /\ w \in {1, 2}
    BY <1>5, TheEnds
  <2>2. tmp = Fill(Old, TmpCapacity \div w)
    BY DEF Init
  <2> HIDE DEF w
  <2>3. TmpCapacity \div w \in Nat /\ (TmpCapacity \div w) * w <= TmpCapacity
    BY <2>1, Sizes
  <2> DEFINE k == TmpCapacity \div w
  <2> HIDE DEF k
  <2>4. k \in Nat /\ k * w <= TmpCapacity /\ tmp = Fill(Old, k)
    BY <2>2, <2>3 DEF k
  <2>5. tmp \in Seq(Int) /\ Len(tmp) = k
    BY <2>4, Filled DEF Old
  <2>6. TmpCapacity \div Width = k /\ Len(tmp) * Width = k * w
    BY <2>1, <2>5 DEF k
  <2>7. QED BY <2>1, <2>4, <2>5, <2>6
<1>8. /\ pc \in {"send", "store"} /\ position = 0 /\ stored = <<>> /\ got = 0
      /\ known = TRUE /\ chunk = "none" /\ into = "tmp" /\ at = 0 /\ size = 0
      /\ isNull \in BOOLEAN
  BY DEF Init
<1>9. Steps
  <2>1. stored \in Seq(Int) /\ Len(stored) = 0
    BY <1>8
  <2>2. got \in 0..Len(stored) /\ at \in Nat /\ size \in Nat /\ position \in Nat
    BY <1>8, <2>1
  <2>3. QED BY <1>8, <2>1, <2>2 DEF Steps
<1>10. Sending
  <2>1. Len(value) \in Nat /\ Len(Memory) \in Nat /\ Len(Memory) >= 1
    BY <1>5, TheEnds, TheMemory
  <2>2. QED BY <1>8, <2>1 DEF Sending
<1>11. Buffers /\ Buffered
  BY <1>6, <1>7 DEF Buffers, Buffered
<1>12. Getting /\ Called
  BY <1>8 DEF Getting, Called
<1>13. QED BY <1>5, <1>9, <1>10, <1>11, <1>12 DEF IInv

------------------------------------------------------------------------------
\* Sending.

\* What the server gets is added to what it has got.
LEMMA SendKeeps ==
  ASSUME IInv, pc = "send", NEW d \in Seq(Int), NEW last \in BOOLEAN, Received(d, last),
         position' \in Nat,
         from = "wstring4" => position' <= Len(value),
         from = "warray4" => position' < Len(Memory)
  PROVE  IInv'
<1>1. /\ pc' = (IF last THEN "describe" ELSE "send") /\ stored' = stored \o d
      /\ UNCHANGED <<from, to, cap, null, value, room, behind, nullable, before>>
      /\ UNCHANGED <<member, isNull, tmp, got, known, chunk, into, at, size>>
  BY DEF Received, sender, receiver
<1>2. stored' \in Seq(Int) /\ Len(stored') = Len(stored) + Len(d) /\ got = 0
  BY <1>1, Joined DEF IInv, Steps, Sending
<1>3. Ends'
  BY <1>1 DEF IInv, Ends
<1>4. Steps'
  BY <1>1, <1>2 DEF IInv, Steps
<1>5. Buffers' /\ Buffered'
  BY <1>1 DEF IInv, Buffers, Buffered, Width
<1>6. Memory' = Memory
  BY <1>1 DEF Memory
<1>7. Sending'
  BY <1>1, <1>2, <1>6 DEF Sending
<1>8. Getting' /\ Called'
  BY <1>1, <1>2 DEF Getting, Called
<1>9. QED BY <1>3, <1>4, <1>5, <1>7, <1>8 DEF IInv

LEMMA SendNullKeeps == IInv /\ SendNull => IInv'
<1> SUFFICES ASSUME IInv, SendNull PROVE IInv'
  OBVIOUS
<1>1. pc = "send" /\ Received(<<>>, TRUE) /\ position' = position
  BY DEF SendNull
<1>2. <<>> \in Seq(Int)
  OBVIOUS
<1>3. /\ position \in Nat /\ (from = "wstring4" => position <= Len(value))
      /\ (from = "warray4" => position < Len(Memory))
  BY <1>1 DEF IInv, Steps, Sending
<1>4. QED BY <1>1, <1>2, <1>3, SendKeeps

LEMMA SendWholeKeeps == IInv /\ SendWhole => IInv'
<1> SUFFICES ASSUME IInv, SendWhole PROVE IInv'
  OBVIOUS
<1>1. pc = "send" /\ Received(value, TRUE) /\ position' = position
  BY DEF SendWhole
<1>2. value \in Seq(Int)
  BY TheEnds DEF IInv
<1>3. /\ position \in Nat /\ (from = "wstring4" => position <= Len(value))
      /\ (from = "warray4" => position < Len(Memory))
  BY <1>1 DEF IInv, Steps, Sending
<1>4. QED BY <1>1, <1>2, <1>3, SendKeeps

LEMMA SendWideStringKeeps == IInv /\ SendWideString => IInv'
<1> SUFFICES ASSUME IInv, SendWideString PROVE IInv'
  OBVIOUS
<1> DEFINE left == Len(value) - position
           n == Min({left, TmpCapacity \div 2})
           d == SubSeq(value, position + 1, position + n)
<1>1. /\ pc = "send" /\ from = "wstring4"
      /\ Received(d, n = left) /\ position' = position + n
  BY DEF SendWideString
<1>2. /\ value \in Seq(Int) /\ Len(value) \in Nat
      /\ position \in Nat /\ position <= Len(value)
  BY <1>1, TheEnds DEF IInv, Steps, Sending
<1>3. n \in Nat /\ n <= left
  <2>1. left \in Nat /\ TmpCapacity \div 2 \in Nat
    BY <1>2, Sizes
  <2> HIDE DEF left
  <2>2. QED BY <2>1, LeastOfTwo
<1> HIDE DEF n
<1>4. d \in Seq(Int)
  BY <1>2, <1>3, Part
<1>5. position' \in Nat /\ position' <= Len(value)
  BY <1>1, <1>2, <1>3
<1>6. (n = left) \in BOOLEAN
  OBVIOUS
<1> HIDE DEF d, left
<1>7. QED BY <1>1, <1>4, <1>5, <1>6, SendKeeps

LEMMA SendWideArrayKeeps == IInv /\ SendWideArray => IInv'
<1> SUFFICES ASSUME IInv, SendWideArray PROVE IInv'
  OBVIOUS
<1> DEFINE rest == SubSeq(Memory, position + 1, Len(Memory) - 1)
           n == Min({Len(rest), cap, TmpCapacity \div 2})
           d == SubSeq(rest, 1, n)
<1>1. /\ pc = "send" /\ from = "warray4"
      /\ Received(d, n # TmpCapacity \div 2) /\ position' = position + n
  BY DEF SendWideArray
<1>2. /\ Memory \in Seq(Int) /\ Len(Memory) \in Nat /\ cap \in Nat
      /\ position \in Nat /\ position < Len(Memory)
  BY <1>1, TheEnds, TheMemory DEF IInv, Steps, Sending
<1>3. rest \in Seq(Int) /\ Len(rest) = Len(Memory) - 1 - position
  BY <1>2, Part
<1> HIDE DEF rest
<1>4. n \in Nat /\ n <= Len(rest)
  <2> DEFINE a == Len(rest)
             b == TmpCapacity \div 2
  <2>1. a \in Nat /\ a \in Int /\ b \in Nat /\ b \in Int /\ cap \in Nat /\ cap \in Int
    BY <1>2, <1>3, Sizes
  <2> HIDE DEF a, b
  <2>2. /\ Min({a, cap, b}) \in {a, cap, b} /\ Min({a, cap, b}) <= a
    BY <2>1, LeastOfThree, Zenon
  <2>3. n = Min({a, cap, b})
    BY DEF a, b
  <2>4. QED BY <2>1, <2>2, <2>3 DEF a
<1> HIDE DEF n
<1>5. d \in Seq(Int)
  BY <1>3, <1>4, Part
<1>6. position' \in Nat /\ position' < Len(Memory)
  BY <1>1, <1>2, <1>3, <1>4
<1>7. (n # TmpCapacity \div 2) \in BOOLEAN
  OBVIOUS
<1> HIDE DEF d
<1>8. QED BY <1>1, <1>5, <1>6, <1>7, SendKeeps

LEMMA DescribeKeeps == IInv /\ Describe => IInv'
<1> SUFFICES ASSUME IInv, Describe PROVE IInv'
  OBVIOUS
<1>1. /\ pc = "describe" /\ pc' = "callback" /\ size' = 0 /\ position' = 0
      /\ known' \in BOOLEAN /\ chunk' \in {"null", "one", "first"}
      /\ UNCHANGED <<from, to, cap, null, value, room, behind, nullable, before>>
      /\ UNCHANGED <<stored, member, isNull, tmp, got, into, at>>
  BY DEF Describe, sender, receiver
<1>2. Ends'
  BY <1>1 DEF IInv, Ends
<1>3. Steps'
  BY <1>1 DEF IInv, Steps
<1>4. Buffers' /\ Buffered'
  BY <1>1 DEF IInv, Buffers, Buffered, Width
<1>5. Sending' /\ Getting' /\ Called'
  BY <1>1 DEF IInv, Sending, Getting, Called
<1>6. QED BY <1>2, <1>3, <1>4, <1>5 DEF IInv

------------------------------------------------------------------------------
\* Getting.

\* The driver puts no more there than the callback has given.
LEMMA GetDataKeeps == IInv /\ GetData => IInv'
<1> SUFFICES ASSUME IInv, GetData PROVE IInv'
  OBVIOUS
<1> DEFINE left == Len(stored) - got
           term == IF to \in Binary THEN 0 ELSE 1
           fits == size \div Width - term
           n == Min({left, fits})
           data == SubSeq(stored, got + 1, got + n)
           written == data \o (IF to \in Binary THEN <<>> ELSE <<Nul>>)
<1>1. /\ pc = "get" /\ pc' = "callback"
      /\ Write(data) /\ got' = got + n
      /\ chunk' = (IF n = left THEN "last" ELSE "next")
      /\ size' = (IF n = left THEN n * Width ELSE size - Terminator)
      /\ UNCHANGED <<from, to, cap, null, value, room, behind, nullable, before>>
      /\ UNCHANGED <<position, stored, isNull, known, into, at>>
  BY DEF GetData, sender, receiver
<1>2. /\ chunk \in {"first", "next"} /\ (chunk = "first" => got = 0)
      /\ at + size \div Width <= Len(Destination)
      /\ to \notin Binary => size \div Width >= 1
      /\ Wanted
  BY <1>1 DEF IInv, Getting
<1>3. /\ stored \in Seq(Int) /\ Len(stored) \in Nat /\ got \in Nat /\ got <= Len(stored)
      /\ at \in Nat /\ size \in Nat /\ position \in Nat /\ isNull \in BOOLEAN
      /\ known \in BOOLEAN /\ into \in {"member", "tmp"}
  BY DEF IInv, Steps
<1>4. /\ member \in Seq(Int) /\ Len(member) \in Nat /\ tmp \in Seq(Int) /\ Len(tmp) \in Nat
      /\ (to \in Wide => Len(tmp) = TmpCapacity \div 2)
      /\ (to \notin Wide => Len(tmp) = TmpCapacity)
  BY <1>1, TheBuffer DEF IInv, Buffers
<1>5. /\ to \in Types /\ Width = (IF to \in Wide THEN 2 ELSE 1)
      /\ ~(to \in Wide /\ to \in Binary)
      /\ Terminator = term
  BY TheEnds DEF IInv, Wide, Binary, Terminator
<1>6. Width \in {1, 2} /\ size \div Width \in Nat /\ size \div Width <= size
  BY <1>3, <1>5
<1>7. left \in Nat /\ fits \in Nat
  BY <1>2, <1>3, <1>6
<1>8. n \in Nat /\ n <= left /\ n <= fits /\ (n = left \/ n = fits)
  <2> HIDE DEF left, fits
  <2>1. QED BY <1>7, LeastOfTwo
<1> HIDE DEF n
<1>9. data \in Seq(Int) /\ Len(data) = n
  BY <1>3, <1>8, Part
<1> HIDE DEF data
<1>10. written \in Seq(Int) /\ at + Len(written) <= Len(Destination)
  <2> DEFINE e == to \notin Binary
  <2>1. e \in BOOLEAN /\ written = data \o (IF e THEN <<Nul>> ELSE <<>>)
    OBVIOUS
  <2> HIDE DEF written
  <2>2. written \in Seq(Int) /\ Len(written) = n + term
    <3> HIDE DEF e
    <3>1. /\ written \in Seq(Int)
          /\ Len(written) = (IF e THEN Len(data) + 1 ELSE Len(data))
      BY <1>9, <2>1, Ended
    <3>2. QED BY <1>8, <1>9, <3>1 DEF e
  <2>3. Len(written) <= size \div Width
    BY <1>6, <1>7, <1>8, <2>2
  <2>4. Len(Destination) \in Nat
    BY <1>4 DEF Destination
  <2>5. QED BY <1>2, <1>3, <1>6, <2>2, <2>3, <2>4
<1> HIDE DEF written
<1>11. /\ member' \in Seq(Int) /\ Len(member') = Len(member)
       /\ tmp' \in Seq(Int) /\ Len(tmp') = Len(tmp)
  <2>1. CASE into = "member"
    <3>1. member' = Put(member, at, written) /\ tmp' = tmp
      BY <1>1, <2>1 DEF Write, written
    <3>2. at + Len(written) <= Len(member)
      BY <1>10, <2>1 DEF Destination
    <3>3. QED BY <1>3, <1>4, <1>10, <3>1, <3>2, PutKeepsSize
  <2>2. CASE into = "tmp"
    <3>1. tmp' = Put(tmp, at, written) /\ member' = member
      BY <1>1, <2>2 DEF Write, written
    <3>2. at + Len(written) <= Len(tmp)
      BY <1>10, <2>2 DEF Destination
    <3>3. QED BY <1>3, <1>4, <1>10, <3>1, <3>2, PutKeepsSize
  <2>3. QED BY <1>3, <2>1, <2>2
<1>12. size' \in Nat
  <2>1. n * Width \in Nat
    BY <1>6, <1>8
  <2>2. size - term \in Nat
    BY <1>2, <1>3, <1>6
  <2>3. QED BY <1>1, <1>5, <2>1, <2>2
<1>13. Ends'
  BY <1>1 DEF IInv, Ends
<1>14. Steps'
  <2>1. got' \in 0..Len(stored')
    BY <1>1, <1>3, <1>7, <1>8
  <2>2. QED BY <1>1, <1>3, <1>12, <2>1 DEF Steps
<1>15. Buffers' /\ Buffered'
  <2>1. Width' = Width
    BY <1>1 DEF Width
  <2>2. QED BY <1>1, <1>11, <2>1 DEF IInv, Buffers, Buffered
<1>16. Given'
  <2>1. CASE to = "string"
    <3>1. Width = 1 /\ term = 1 /\ fits = size - 1 /\ Len(tmp) = TmpCapacity
      BY <1>3, <1>4, <1>5, <2>1 DEF Wide, Binary
    <3>2. StringWanted
      BY <1>2, <2>1 DEF Wanted
    <3>3. CASE known /\ chunk = "first" /\ position = 0 /\ size = Len(stored) + 1
      <4>1. n = left
        BY <1>2, <1>3, <1>8, <3>1, <3>3
      <4>2. QED BY <1>1, <2>1, <3>3, <4>1 DEF Given, StringGot
    <3>4. CASE ~known /\ position = 1 /\ size = Short
      <4>1. /\ size' <= Len(tmp') /\ (chunk' = "next" => size' = Short - 1)
        BY <1>1, <1>5, <1>8, <1>11, <3>1, <3>4, Sizes
      <4>2. QED BY <1>1, <2>1, <3>4, <4>1 DEF Given, StringGot
    <3>5. CASE ~known /\ position > 1 /\ size = Len(member) - position
      <4>1. chunk' = "next" => position + size' + 1 = Len(member')
        BY <1>1, <1>3, <1>4, <1>5, <1>11, <3>1, <3>5
      <4>2. QED BY <1>1, <2>1, <3>5, <4>1 DEF Given, StringGot
    <3>6. QED BY <3>2, <3>3, <3>4, <3>5 DEF StringWanted
  <2>2. CASE to = "wstring2"
    <3>1. Width = 2 /\ term = 1 /\ chunk = "first" /\ size = 2 * (Len(stored) + 1)
      BY <1>2, <1>5, <2>2 DEF Wide, Binary, Wanted
    <3>2. fits = Len(stored) /\ left = Len(stored)
      BY <1>2, <1>3, <3>1
    <3>3. n = left
      BY <1>8, <3>2
    <3>4. QED BY <1>1, <2>2, <3>3 DEF Given
  <2>3. CASE to = "vector"
    <3>1. Width = 1 /\ term = 0 /\ chunk = "first" /\ size = Len(stored)
      BY <1>2, <1>5, <2>3 DEF Wide, Binary, Wanted
    <3>2. fits = Len(stored) /\ left = Len(stored)
      BY <1>2, <1>3, <3>1
    <3>3. n = left
      BY <1>8, <3>2
    <3>4. QED BY <1>1, <2>3, <3>3 DEF Given
  <2>4. CASE to \in {"wstring4", "warray4"}
    <3>1. Width = 2 /\ term = 1 /\ into = "tmp"
      BY <1>2, <1>5, <2>4 DEF Wide, Binary, Wanted
    <3>2. size \div 2 <= Len(tmp)
      BY <1>2, <1>3, <1>4, <3>1 DEF Destination
    <3>3. size' \div 2 <= size \div 2
      <4>1. CASE n = left
        <5>1. size' = n * 2 /\ n <= size \div 2
          BY <1>1, <1>3, <1>8, <3>1, <4>1
        <5>2. QED BY <1>3, <1>8, <5>1
      <4>2. CASE n # left
        <5>1. size' = size - 1
          BY <1>1, <1>5, <3>1, <4>2
        <5>2. QED BY <1>3, <1>12, <5>1
      <4>3. QED BY <4>1, <4>2
    <3>4. size' \div 2 <= Len(tmp')
      <4> DEFINE x == size' \div 2
                 y == size \div 2
      <4>1. x \in Nat
        BY <1>12, Halved
      <4>2. y \in Nat
        BY <1>3
      <4>3. x <= y /\ y <= Len(tmp)
        BY <3>2, <3>3, Zenon
      <4> HIDE DEF x, y
      <4>4. x <= Len(tmp')
        BY <1>4, <1>11, <4>1, <4>2, <4>3
      <4>5. QED BY <4>4 DEF x
    <3>5. QED BY <1>1, <2>4, <3>4 DEF Given
  <2>5. CASE to \notin {"string", "wstring2", "vector", "wstring4", "warray4"}
    BY <1>1, <2>5 DEF Given
  <2>6. QED BY <2>1, <2>2, <2>3, <2>4, <2>5
<1>17. Sending' /\ Getting' /\ Called'
  BY <1>1, <1>16 DEF Sending, Getting, Called
<1>18. QED BY <1>13, <1>14, <1>15, <1>17 DEF IInv

------------------------------------------------------------------------------
\* The callbacks.

\* What a callback leaves and gives: an array as long as before, and room that is
\* there.
Answer ==
  /\ member' \in Seq(Int) /\ (to \in Arrays => Len(member') = cap)
  /\ position' \in Nat /\ at' \in Nat /\ size' \in Nat /\ into' \in {"member", "tmp"}
  /\ chunk \in {"first", "next"} =>
       /\ at' + size' \div Width <= Len(IF into' = "member" THEN member' ELSE tmp)
       /\ to \notin Binary => size' \div Width >= 1
       /\ Wanted'

Heard == pc = "callback" /\ UNCHANGED <<to, known, chunk, stored>>

LEMMA TheCall ==
  ASSUME IInv, Heard
  PROVE  /\ member \in Seq(Int) /\ Len(member) \in Nat /\ (to \in Arrays => Len(member) = cap)
         /\ tmp \in Seq(Int) /\ Len(tmp) \in Nat /\ Len(tmp) >= 2 /\ tmp[1] \in Int
         /\ (to \in Wide => Len(tmp) = TmpCapacity \div 2)
         /\ (to \notin Wide => Len(tmp) = TmpCapacity)
         /\ stored \in Seq(Int) /\ Len(stored) \in Nat
         /\ position \in Nat /\ at \in Nat /\ size \in Nat /\ into \in {"member", "tmp"}
         /\ cap \in Nat /\ cap >= 1
         /\ Width = (IF to \in Wide THEN 2 ELSE 1)
         /\ chunk \in {"first", "null", "one"} => position = 0
         /\ chunk \in {"next", "last"} => Given
         /\ to' = to /\ known' = known /\ chunk' = chunk /\ stored' = stored
<1>1. pc = "callback"
  BY DEF Heard
<1>2. /\ member \in Seq(Int) /\ tmp \in Seq(Int) /\ (to \in Arrays => Len(member) = cap)
      /\ stored \in Seq(Int)
      /\ position \in Nat /\ at \in Nat /\ size \in Nat /\ into \in {"member", "tmp"}
  BY DEF IInv, Steps, Buffers
<1>3. cap \in Nat /\ cap >= 1 /\ Width = (IF to \in Wide THEN 2 ELSE 1)
  BY TheEnds DEF IInv
<1>4. /\ Len(tmp) \in Nat /\ Len(tmp) >= 2 /\ tmp[1] \in Int
      /\ (to \in Wide => Len(tmp) = TmpCapacity \div 2)
      /\ (to \notin Wide => Len(tmp) = TmpCapacity)
  BY <1>1, TheBuffer DEF IInv
<1>5. /\ chunk \in {"first", "null", "one"} => position = 0
      /\ chunk \in {"next", "last"} => Given
  BY <1>1 DEF IInv, Called
<1>6. Len(member) \in Nat /\ Len(stored) \in Nat
  BY <1>2
<1>7. QED BY <1>2, <1>3, <1>4, <1>5, <1>6 DEF Heard

LEMMA StringAnswers ==
  ASSUME IInv, Heard, to = "string", StringResult
  PROVE  Answer
<1>1. Width = 1 /\ to \notin Arrays /\ to \notin Wide
  BY TheCall DEF Wide, Arrays
<1>2. CASE Empty /\ member' = <<>> /\ KeepBuffer /\ UNCHANGED position
  BY <1>1, <1>2, TheCall DEF Answer, Empty, KeepBuffer
<1>3. CASE /\ chunk = "first" /\ known
           /\ member' = Resize(member, StringRoom)
           /\ Give("member", 0, StringRoom) /\ position' = 0
  <2>1. StringRoom \in Nat /\ StringRoom = Len(stored) + 1
    BY TheCall DEF StringRoom
  <2>2. member' \in Seq(Int) /\ Len(member') = StringRoom
    BY <1>3, <2>1, TheCall, Resized
  <2>3. into' = "member" /\ at' = 0 /\ size' = StringRoom /\ position' = 0
    BY <1>3 DEF Give
  <2>4. Wanted'
    BY <1>3, <2>1, <2>3, TheCall DEF Wanted, StringWanted
  <2>5. at' + size' \div Width <= Len(member') /\ size' \div Width >= 1
    BY <1>1, <2>1, <2>2, <2>3
  <2>6. QED BY <1>1, <2>1, <2>2, <2>3, <2>4, <2>5 DEF Answer
<1>4. CASE /\ chunk = "first" /\ ~known
           /\ Give("tmp", 0, Short) /\ position' = 1
           /\ UNCHANGED member
  <2>1. into' = "tmp" /\ at' = 0 /\ size' = Short /\ position' = 1 /\ member' = member
    BY <1>4 DEF Give
  <2>2. Wanted'
    BY <1>4, <2>1, TheCall DEF Wanted, StringWanted
  <2>3. /\ at' + size' \div Width <= Len(tmp) /\ size' \div Width >= 1
        /\ size' \in Nat /\ at' \in Nat /\ position' \in Nat
    BY <1>1, <2>1, TheCall, Sizes
  <2>4. QED BY <1>1, <2>1, <2>2, <2>3, TheCall DEF Answer
<1>5. CASE /\ chunk = "next" /\ position = 1
           /\ member' = Resize(SubSeq(tmp, 1, size), Long)
           /\ position' = size
           /\ Give("member", position', Len(member') - position')
  <2>1. size <= Len(tmp) /\ size = Short - 1 /\ ~known
    BY <1>5, TheCall DEF Given, StringGot
  <2>2. SubSeq(tmp, 1, size) \in Seq(Int)
    BY <2>1, TheCall, Part
  <2>3. member' \in Seq(Int) /\ Len(member') = Long
    BY <1>5, <2>2, Sizes, Resized
  <2>4. position' = Short - 1 /\ into' = "member" /\ at' = position' /\ size' = Long - position'
    BY <1>5, <2>1, <2>3 DEF Give
  <2>5. /\ position' \in Nat /\ position' > 1 /\ at' \in Nat /\ size' \in Nat /\ size' >= 1
        /\ size' = Len(member') - position'
    BY <2>3, <2>4, Sizes
  <2>6. Wanted'
    BY <1>5, <2>1, <2>4, <2>5, TheCall DEF Wanted, StringWanted
  <2>7. at' + size' \div Width <= Len(member') /\ size' \div Width >= 1
    BY <1>1, <2>3, <2>4, <2>5, Sizes
  <2>8. QED BY <1>1, <2>3, <2>4, <2>5, <2>6, <2>7 DEF Answer
<1>6. CASE /\ chunk = "next" /\ position > 1
           /\ member' = Resize(member, 2 * Len(member))
           /\ position' = position + size
           /\ Give("member", position', Len(member') - position')
  <2>1. position + size + 1 = Len(member) /\ ~known
    BY <1>6, TheCall DEF Given, StringGot
  <2>2. member' \in Seq(Int) /\ Len(member') = 2 * Len(member)
    <3>1. 2 * Len(member) \in Nat
      BY TheCall
    <3>2. QED BY <1>6, <3>1, TheCall, Resized
  <2>3. into' = "member" /\ at' = position' /\ size' = Len(member') - position'
    BY <1>6 DEF Give
  <2>4. /\ position' \in Nat /\ position' > 1 /\ at' \in Nat /\ size' \in Nat /\ size' >= 1
        /\ position' + size' = Len(member')
    <3> DEFINE m == Len(member)
               k == Len(member')
    <3>1. m \in Nat /\ k = 2 * m /\ position \in Nat /\ size \in Nat
      BY <2>2, TheCall
    <3>2. /\ position' = position + size /\ position > 1 /\ position + size + 1 = m
          /\ at' = position' /\ size' = k - position'
      BY <1>6, <2>1, <2>3
    <3> HIDE DEF m, k
    <3>3. /\ position' \in Nat /\ position' > 1 /\ at' \in Nat /\ size' \in Nat /\ size' >= 1
          /\ position' + size' = k
      BY <3>1, <3>2
    <3>4. QED BY <3>3 DEF k
  <2>5. Wanted'
    BY <1>6, <2>1, <2>3, <2>4, TheCall DEF Wanted, StringWanted
  <2>6. at' + size' \div Width <= Len(member') /\ size' \div Width >= 1
    BY <1>1, <2>3, <2>4
  <2>7. QED BY <1>1, <2>2, <2>3, <2>4, <2>5, <2>6 DEF Answer
<1>7. CASE /\ chunk = "last"
           /\ member' = (IF position = 1 THEN SubSeq(tmp, 1, size)
                         ELSE Resize(member, position + size))
           /\ KeepBuffer /\ UNCHANGED position
  <2>1. member' \in Seq(Int)
    <3>1. CASE position = 1
      <4>1. size <= Len(tmp)
        BY <1>7, <3>1, TheCall DEF Given, StringGot
      <4>2. tmp \in Seq(Int) /\ size \in Nat
        BY TheCall
      <4>3. SubSeq(tmp, 1, size) \in Seq(Int)
        BY <4>1, <4>2, Part
      <4>4. QED BY <1>7, <3>1, <4>3
    <3>2. CASE position # 1
      <4>1. position + size \in Nat
        BY TheCall
      <4>2. QED BY <1>7, <3>2, <4>1, TheCall, Resized
    <3>3. QED BY <3>1, <3>2
  <2>2. QED BY <1>1, <1>7, <2>1, TheCall DEF Answer, KeepBuffer
<1>8. QED BY <1>2, <1>3, <1>4, <1>5, <1>6, <1>7 DEF StringResult

LEMMA WideString2Answers ==
  ASSUME IInv, Heard, to = "wstring2", WideString2Result
  PROVE  Answer
<1>1. Width = 2 /\ to \notin Arrays /\ to \in Wide
  BY TheCall DEF Wide, Arrays
<1>2. position' = position
  BY DEF WideString2Result
<1>3. CASE Empty /\ member' = <<>> /\ KeepBuffer
  BY <1>1, <1>2, <1>3, TheCall DEF Answer, Empty, KeepBuffer
<1>4. CASE /\ chunk = "first"
           /\ member' = Resize(member, Len(stored) + 1)
           /\ Give("member", 0, (Len(stored) + 1) * 2)
  <2>1. Len(stored) + 1 \in Nat
    BY TheCall
  <2>2. member' \in Seq(Int) /\ Len(member') = Len(stored) + 1
    BY <1>4, <2>1, TheCall, Resized
  <2>3. into' = "member" /\ at' = 0 /\ size' = 2 * (Len(stored) + 1)
    BY <1>4, TheCall DEF Give
  <2>4. Wanted'
    BY <1>4, <2>3, TheCall DEF Wanted
  <2>5. /\ at' + size' \div Width <= Len(member') /\ size' \div Width >= 1
        /\ size' \in Nat /\ at' \in Nat
    <3> DEFINE l == Len(stored)
               k == Len(member')
    <3>1. l \in Nat /\ k = l + 1 /\ size' = 2 * (l + 1)
      BY <2>2, <2>3, TheCall
    <3> HIDE DEF l, k
    <3>2. size' \div 2 = k /\ k >= 1 /\ size' \in Nat
      BY <3>1
    <3>3. QED BY <1>1, <2>3, <3>1, <3>2 DEF k
  <2>6. QED BY <1>1, <1>2, <2>2, <2>3, <2>4, <2>5, TheCall DEF Answer
<1>5. CASE chunk = "last" /\ member' = Resize(member, size \div 2) /\ KeepBuffer
  <2>1. size \div 2 \in Nat
    BY TheCall
  <2>2. member' \in Seq(Int)
    BY <1>5, <2>1, TheCall, Resized
  <2>3. QED BY <1>1, <1>2, <1>5, <2>2, TheCall DEF Answer, KeepBuffer
<1>6. QED BY <1>3, <1>4, <1>5 DEF WideString2Result

\* All of the temporary buffer is there to be given.
LEMMA TheBufferIsGiven ==
  ASSUME IInv, Heard, Give("tmp", 0, TmpCapacity)
  PROVE  /\ into' = "tmp" /\ at' = 0 /\ size' \in Nat
         /\ at' + size' \div Width <= Len(tmp) /\ size' \div Width >= 1
<1>1. into' = "tmp" /\ at' = 0 /\ size' = TmpCapacity
  BY DEF Give
<1>2. /\ Width = (IF to \in Wide THEN 2 ELSE 1)
      /\ Len(tmp) \in Nat /\ Len(tmp) >= 2
      /\ Len(tmp) = (IF to \in Wide THEN TmpCapacity \div 2 ELSE TmpCapacity)
  BY TheCall
<1>3. size' \div Width = Len(tmp) /\ size' \in Nat
  BY <1>1, <1>2, Sizes
<1>4. QED BY <1>1, <1>2, <1>3

LEMMA WideString4Answers ==
  ASSUME IInv, Heard, to = "wstring4", WideString4Result
  PROVE  Answer
<1>1. Width = 2 /\ to \notin Arrays /\ to \in Wide
  BY TheCall DEF Wide, Arrays
<1>2. position' = position
  BY DEF WideString4Result
<1>3. CASE Empty /\ member' = <<>> /\ KeepBuffer
  BY <1>1, <1>2, <1>3, TheCall DEF Answer, Empty, KeepBuffer
<1>4. Give("tmp", 0, TmpCapacity) => Wanted'
  BY TheCall DEF Wanted, Give
<1>5. CASE chunk = "first" /\ Give("tmp", 0, TmpCapacity) /\ UNCHANGED member
  <2>1. Wanted'
    BY <1>4, <1>5
  <2>2. QED BY <1>1, <1>2, <1>5, <2>1, TheCall, TheBufferIsGiven DEF Answer
<1>6. CASE /\ chunk \in {"next", "last"}
           /\ member' = member \o SubSeq(tmp, 1, size \div 2)
           /\ IF chunk = "next" THEN Give("tmp", 0, TmpCapacity) ELSE KeepBuffer
  <2>1. size \div 2 \in Nat /\ size \div 2 <= Len(tmp)
    BY <1>6, TheCall DEF Given
  <2>2. SubSeq(tmp, 1, size \div 2) \in Seq(Int)
    <3> DEFINE h == size \div 2
    <3>1. h \in Nat /\ h \in Int /\ h <= Len(tmp)
      BY <2>1
    <3>2. tmp \in Seq(Int)
      BY TheCall
    <3> HIDE DEF h
    <3>3. SubSeq(tmp, 1, h) \in Seq(Int)
      BY <3>1, <3>2, Part
    <3>4. QED BY <3>3 DEF h
  <2>3. member' \in Seq(Int)
    BY <1>6, <2>2, TheCall, Joined
  <2>4. CASE chunk = "next"
    <3>1. Wanted'
      BY <1>4, <1>6, <2>4
    <3>2. QED BY <1>1, <1>2, <1>6, <2>3, <2>4, <3>1, TheCall, TheBufferIsGiven DEF Answer
  <2>5. CASE chunk = "last"
    BY <1>1, <1>2, <1>6, <2>3, <2>5, TheCall DEF Answer, KeepBuffer
  <2>6. QED BY <1>6, <2>4, <2>5
<1>7. QED BY <1>3, <1>5, <1>6 DEF WideString4Result

LEMMA ArrayAnswers ==
  ASSUME IInv, Heard, to \in {"array", "warray2"}, ArrayResult
  PROVE  Answer
<1>1. /\ Width \in {1, 2} /\ to \in Arrays
      /\ member \in Seq(Int) /\ Len(member) = cap /\ cap \in Nat /\ cap >= 1
  BY TheCall DEF Arrays
<1>2. /\ <<Nul>> \in Seq(Int) /\ Len(<<Nul>>) = 1
      /\ <<tmp[1]>> \in Seq(Int) /\ Len(<<tmp[1]>>) = 1
  BY TheCall, One DEF Nul
<1>3. \A x \in Nat : x < cap =>
        /\ Put(member, x, <<Nul>>) \in Seq(Int) /\ Len(Put(member, x, <<Nul>>)) = cap
        /\ Put(member, x, <<tmp[1]>>) \in Seq(Int) /\ Len(Put(member, x, <<tmp[1]>>)) = cap
  <2> SUFFICES ASSUME NEW x \in Nat, x < cap
               PROVE  /\ Put(member, x, <<Nul>>) \in Seq(Int)
                      /\ Len(Put(member, x, <<Nul>>)) = cap
                      /\ Put(member, x, <<tmp[1]>>) \in Seq(Int)
                      /\ Len(Put(member, x, <<tmp[1]>>)) = cap
    OBVIOUS
  <2>1. x + 1 <= Len(member)
    BY <1>1
  <2>2. Put(member, x, <<Nul>>) \in Seq(Int) /\ Len(Put(member, x, <<Nul>>)) = Len(member)
    BY <1>1, <1>2, <2>1, PutKeepsSize
  <2>3. /\ Put(member, x, <<tmp[1]>>) \in Seq(Int)
        /\ Len(Put(member, x, <<tmp[1]>>)) = Len(member)
    BY <1>1, <1>2, <2>1, PutKeepsSize
  <2>4. QED BY <1>1, <2>2, <2>3
<1>4. Wanted'
  BY TheCall DEF Wanted
<1>5. CASE Empty /\ member' = Put(member, 0, <<Nul>>) /\ KeepBuffer /\ UNCHANGED position
  <2>1. 0 \in Nat /\ 0 < cap
    BY <1>1
  <2>2. member' \in Seq(Int) /\ Len(member') = cap
    BY <1>3, <1>5, <2>1, Zenon
  <2>3. QED BY <1>5, <2>2, TheCall DEF Answer, Empty, KeepBuffer
<1>6. CASE /\ chunk = "first"
           /\ Give("member", 0, cap * Width)
           /\ UNCHANGED <<member, position>>
  <2>1. /\ into' = "member" /\ at' = 0 /\ size' = cap * Width
        /\ member' = member /\ position' = position
    BY <1>6 DEF Give
  <2>2. size' \in Nat /\ size' \div Width = cap
    BY <1>1, <2>1
  <2>3. at' + size' \div Width <= Len(member') /\ size' \div Width >= 1
    BY <1>1, <2>1, <2>2
  <2>4. QED BY <1>1, <1>4, <2>1, <2>2, <2>3, TheCall DEF Answer
<1>7. CASE /\ chunk = "next"
           /\ position' = Min({position + 1, 2})
           /\ member' = (IF position = 1 THEN Put(member, cap - 1, <<tmp[1]>>) ELSE member)
           /\ Give("tmp", 0, TmpCapacity)
  <2>1. position' \in Nat
    <3> DEFINE p == position + 1
    <3>1. p \in Int /\ p \in Nat /\ 2 \in Int
      BY TheCall
    <3>2. position' = Min({p, 2})
      BY <1>7
    <3> HIDE DEF p
    <3>3. Min({p, 2}) = (IF p <= 2 THEN p ELSE 2)
      BY <3>1, LeastOfTwo, Zenon
    <3>4. QED BY <3>1, <3>2, <3>3
  <2>2. cap - 1 \in Nat /\ cap - 1 < cap
    BY <1>1
  <2>3. member' \in Seq(Int) /\ Len(member') = cap
    BY <1>1, <1>3, <1>7, <2>2
  <2>4. QED BY <1>4, <1>7, <2>1, <2>3, TheCall, TheBufferIsGiven DEF Answer
<1>8. CASE /\ chunk = "last"
           /\ member' = (CASE position = 0 /\ size \div Width < cap ->
                                Put(member, size \div Width, <<Nul>>)
                           [] position = 1 -> Put(member, cap - 1, <<tmp[1]>>)
                           [] OTHER -> member)
           /\ KeepBuffer /\ UNCHANGED position
  <2> DEFINE k == size \div Width
  <2>1. k \in Nat
    BY <1>1, TheCall
  <2> HIDE DEF k
  <2>2. cap - 1 \in Nat /\ cap - 1 < cap
    BY <1>1
  <2>3. \/ position = 0 /\ k < cap /\ member' = Put(member, k, <<Nul>>)
        \/ member' = Put(member, cap - 1, <<tmp[1]>>)
        \/ member' = member
    BY <1>8 DEF k
  <2>4. member' \in Seq(Int) /\ Len(member') = cap
    BY <1>1, <1>3, <2>1, <2>2, <2>3
  <2>5. QED BY <1>8, <2>4, TheCall DEF Answer, KeepBuffer
<1>9. QED BY <1>5, <1>6, <1>7, <1>8 DEF ArrayResult

LEMMA WideArray4Answers ==
  ASSUME IInv, Heard, to = "warray4", WideArray4Result
  PROVE  Answer
<1>1. /\ Width = 2 /\ to \in Arrays /\ to \in Wide
      /\ member \in Seq(Int) /\ Len(member) = cap /\ cap \in Nat /\ cap >= 1
  BY TheCall DEF Arrays, Wide
<1>2. CASE Empty /\ member' = Put(member, 0, <<Nul>>) /\ KeepBuffer /\ UNCHANGED position
  <2>1. <<Nul>> \in Seq(Int) /\ Len(<<Nul>>) = 1 /\ 0 + 1 <= Len(member)
    BY <1>1, One DEF Nul
  <2>2. member' \in Seq(Int) /\ Len(member') = cap
    BY <1>1, <1>2, <2>1, PutKeepsSize
  <2>3. QED BY <1>2, <2>2, TheCall DEF Answer, Empty, KeepBuffer
<1>3. Give("tmp", 0, TmpCapacity) => Wanted'
  BY TheCall DEF Wanted, Give
<1>4. CASE chunk = "first" /\ Give("tmp", 0, TmpCapacity) /\ UNCHANGED <<member, position>>
  BY <1>1, <1>3, <1>4, TheCall, TheBufferIsGiven DEF Answer
<1>5. CASE /\ chunk \in {"next", "last"}
           /\ IF position < cap
              THEN LET n == Min({size \div 2, cap - position})
                   IN  member' = Copied(n) /\ position' = position + n
              ELSE UNCHANGED <<member, position>>
           /\ IF chunk = "next" THEN Give("tmp", 0, TmpCapacity) ELSE KeepBuffer
  <2>1. member' \in Seq(Int) /\ Len(member') = cap /\ position' \in Nat
    <3>1. CASE position < cap
      <4> DEFINE h == size \div 2
                 r == cap - position
                 n == Min({h, r})
                 d == SubSeq(tmp, 1, n)
                 e == position + n < cap
                 z == d \o (IF e THEN <<Nul>> ELSE <<>>)
      <4>1. member' = Put(member, position, z) /\ position' = position + n
        BY <1>5, <3>1 DEF Copied
      <4>2. h \in Nat /\ h <= Len(tmp)
        BY <1>5, TheCall DEF Given
      <4>3. r \in Nat /\ position \in Nat /\ position + r = cap
        BY <1>1, <3>1, TheCall
      <4> HIDE DEF h, r
      <4>4. n \in Nat /\ n <= h /\ n <= r
        BY <4>2, <4>3, LeastOfTwo
      <4> HIDE DEF n
      <4>5. d \in Seq(Int) /\ Len(d) = n
        <5>1. tmp \in Seq(Int) /\ Len(tmp) \in Nat
          BY TheCall
        <5>2. n \in Int /\ n <= Len(tmp)
          BY <4>2, <4>4, <5>1
        <5>3. /\ SubSeq(tmp, 1, n) \in Seq(Int)
              /\ Len(SubSeq(tmp, 1, n)) = (IF 1 <= n THEN n - 1 + 1 ELSE 0)
          BY <5>1, <5>2, Part
        <5>4. QED BY <4>4, <5>3
      <4>6. e \in BOOLEAN
        OBVIOUS
      <4> HIDE DEF d, e
      <4>7. z \in Seq(Int) /\ Len(z) = (IF e THEN n + 1 ELSE n)
        BY <4>5, <4>6, Ended
      <4> HIDE DEF z
      <4>8. position + Len(z) <= Len(member)
        BY <1>1, <4>3, <4>4, <4>7 DEF e
      <4>9. QED BY <1>1, <4>1, <4>3, <4>4, <4>7, <4>8, PutKeepsSize
    <3>2. CASE ~(position < cap)
      BY <1>1, <1>5, <3>2, TheCall
    <3>3. QED BY <3>1, <3>2
  <2>2. CASE chunk = "next"
    BY <1>1, <1>3, <1>5, <2>1, <2>2, TheCall, TheBufferIsGiven DEF Answer
  <2>3. CASE chunk = "last"
    BY <1>5, <2>1, <2>3, TheCall DEF Answer, KeepBuffer
  <2>4. QED BY <1>5, <2>2, <2>3
<1>6. QED BY <1>2, <1>4, <1>5 DEF WideArray4Result

LEMMA VectorAnswers ==
  ASSUME IInv, Heard, to = "vector", VectorResult
  PROVE  Answer
<1>1. Width = 1 /\ to \notin Arrays /\ to \in Binary
  BY TheCall DEF Wide, Binary, Arrays
<1>2. position' = position
  BY DEF VectorResult
<1>3. CASE Empty /\ member' = <<>> /\ KeepBuffer
  BY <1>1, <1>2, <1>3, TheCall DEF Answer, Empty, KeepBuffer
<1>4. CASE /\ chunk = "first"
           /\ member' = Resize(member, Len(stored)) /\ Give("member", 0, Len(stored))
  <2>1. member' \in Seq(Int) /\ Len(member') = Len(stored)
    BY <1>4, TheCall, Resized
  <2>2. into' = "member" /\ at' = 0 /\ size' = Len(stored) /\ Len(stored) \in Nat
    BY <1>4, TheCall DEF Give
  <2>3. Wanted'
    BY <1>4, <2>2, TheCall DEF Wanted
  <2>4. at' + size' \div Width <= Len(member') /\ size' \in Nat /\ at' \in Nat
    BY <1>1, <2>1, <2>2
  <2>5. QED BY <1>1, <1>2, <2>1, <2>2, <2>3, <2>4, TheCall DEF Answer
<1>5. CASE chunk = "last" /\ UNCHANGED member /\ KeepBuffer
  BY <1>1, <1>2, <1>5, TheCall DEF Answer, KeepBuffer
<1>6. QED BY <1>3, <1>4, <1>5 DEF VectorResult

LEMMA BinaryArrayAnswers ==
  ASSUME IInv, Heard, to = "barray", BinaryArrayResult
  PROVE  Answer
<1>1. /\ Width = 1 /\ to \in Arrays /\ to \in Binary
      /\ Len(member) = cap /\ cap \in Nat
  BY TheCall DEF Wide, Binary, Arrays
<1>2. position' = position
  BY DEF BinaryArrayResult
<1>3. Wanted'
  BY TheCall DEF Wanted
<1>4. CASE Empty /\ member' = Fill(Nul, cap) /\ KeepBuffer
  <2>1. member' \in Seq(Int) /\ Len(member') = cap
    BY <1>1, <1>4, Filled DEF Nul
  <2>2. QED BY <1>2, <1>4, <2>1, TheCall DEF Answer, Empty, KeepBuffer
<1>5. CASE chunk = "first" /\ UNCHANGED member /\ Give("member", 0, Min({Len(stored), cap}))
  <2>1. into' = "member" /\ at' = 0 /\ size' \in Nat /\ size' <= cap
    <3> DEFINE l == Len(stored)
    <3>1. l \in Int /\ l \in Nat /\ cap \in Int
      BY <1>1, TheCall
    <3>2. into' = "member" /\ at' = 0 /\ size' = Min({l, cap})
      BY <1>5 DEF Give
    <3> HIDE DEF l
    <3>3. Min({l, cap}) = (IF l <= cap THEN l ELSE cap)
      BY <3>1, LeastOfTwo, Zenon
    <3>4. QED BY <1>1, <3>1, <3>2, <3>3
  <2>2. at' + size' \div Width <= Len(member')
    BY <1>1, <1>5, <2>1
  <2>3. QED BY <1>1, <1>2, <1>3, <1>5, <2>1, <2>2, TheCall DEF Answer
<1>6. CASE chunk = "next" /\ UNCHANGED member /\ Give("tmp", 0, TmpCapacity)
  BY <1>1, <1>2, <1>3, <1>6, TheCall, TheBufferIsGiven DEF Answer
<1>7. CASE chunk = "last" /\ UNCHANGED member /\ KeepBuffer
  BY <1>1, <1>2, <1>7, TheCall DEF Answer, KeepBuffer
<1>8. QED BY <1>4, <1>5, <1>6, <1>7 DEF BinaryArrayResult

LEMMA CallbackKeeps == IInv /\ Callback => IInv'
<1> SUFFICES ASSUME IInv, Callback PROVE IInv'
  OBVIOUS
<1>1. /\ pc = "callback"
      /\ pc' = (IF chunk \in {"null", "one", "last"} THEN "done" ELSE "get")
      /\ isNull' \in BOOLEAN
      /\ UNCHANGED <<from, to, cap, null, value, room, behind, nullable, before>>
      /\ UNCHANGED <<stored, tmp, got, known, chunk>>
      /\ \/ chunk = "null" /\ UNCHANGED <<member, position, into, at, size>>
         \/ Result
  BY DEF Callback, sender, receiver
<1>2. Heard
  BY <1>1 DEF Heard
<1>3. Answer
  <2>1. CASE chunk = "null" /\ UNCHANGED <<member, position, into, at, size>>
    BY <1>2, <2>1, TheCall DEF Answer
  <2>2. CASE Result
    BY <1>2, <2>2, StringAnswers, WideString2Answers, WideString4Answers, ArrayAnswers,
       WideArray4Answers, VectorAnswers, BinaryArrayAnswers DEF Result
  <2>3. QED BY <1>1, <2>1, <2>2
<1>4. Ends'
  BY <1>1 DEF IInv, Ends
<1>5. Steps'
  BY <1>1, <1>3 DEF IInv, Steps, Answer
<1>6. Width' = Width
  BY <1>1 DEF Width
<1>7. Buffers' /\ Buffered'
  BY <1>1, <1>3, <1>6 DEF IInv, Buffers, Buffered, Answer
<1>8. Getting'
  <2> SUFFICES ASSUME pc' = "get" PROVE Getting'
    BY DEF Getting
  <2>1. chunk \in {"first", "next"}
    BY <1>1 DEF IInv, Steps, Called
  <2>2. chunk = "first" => got = 0
    BY <1>1 DEF IInv, Called
  <2>3. Destination' = (IF into' = "member" THEN member' ELSE tmp)
    BY <1>1 DEF Destination
  <2>4. QED BY <1>1, <1>3, <1>6, <2>1, <2>2, <2>3 DEF Getting, Answer
<1>9. Sending' /\ Called'
  BY <1>1 DEF Sending, Called
<1>10. QED BY <1>4, <1>5, <1>7, <1>8, <1>9 DEF IInv

------------------------------------------------------------------------------
\* Short data.

\* Up to which character an array is sent: it ends at a 0, and there is one.
LEMMA ArrayIsSent ==
  ASSUME Ends
  PROVE  ArrayImage \in Seq(Int)
<1> DEFINE Z == {i \in DOMAIN Memory : Memory[i] = Nul}
           E == Z \cup {cap + 1}
           end == Min(E)
           n == Min({end - 1, cap, room})
<1>1. /\ Memory \in Seq(Int) /\ Len(Memory) \in Nat /\ Len(Memory) >= 1
      /\ Memory[Len(Memory)] = Nul /\ DOMAIN Memory = 1..Len(Memory)
      /\ cap \in Nat /\ cap >= 1 /\ room \in Nat
  BY TheMemory, TheEnds DEF Ends
<1>2. E \in SUBSET Nat /\ (\A i \in E : i >= 1) /\ Len(Memory) \in E
  <2> DEFINE l == Len(Memory)
  <2>1. Z \in SUBSET (1..l) /\ l \in 1..l
    BY <1>1
  <2>2. l \in Z
    BY <1>1
  <2> HIDE DEF Z, l
  <2>3. E \in SUBSET Nat /\ (\A i \in E : i >= 1) /\ l \in E
    BY <1>1, <2>1, <2>2
  <2>4. QED BY <2>3 DEF l
<1>3. ArrayImage = SubSeq(Memory, 1, n)
  BY DEF ArrayImage
<1> HIDE DEF E
<1>4. end \in E /\ \A i \in E : end <= i
  <2>1. \E x \in E : \A y \in E : x <= y
    BY <1>2, Least
  <2>2. QED BY <2>1 DEF Min
<1> HIDE DEF end
<1>5. end - 1 \in Nat /\ end - 1 <= Len(Memory)
  BY <1>1, <1>2, <1>4
<1>6. n \in Nat /\ n <= Len(Memory)
  <2> DEFINE k == end - 1
  <2>1. k \in Nat /\ k \in Int /\ k <= Len(Memory)
    BY <1>5
  <2> HIDE DEF k
  <2>2. Min({k, cap, room}) \in {k, cap, room} /\ Min({k, cap, room}) <= k
    <3>1. cap \in Int /\ room \in Int
      BY <1>1
    <3>2. QED BY <2>1, <3>1, LeastOfThree, Zenon
  <2>3. n = Min({k, cap, room})
    BY DEF k
  <2> HIDE DEF n
  <2>4. QED BY <1>1, <2>1, <2>2, <2>3
<1> HIDE DEF n
<1>7. QED BY <1>1, <1>3, <1>6, Part

LEMMA Cut ==
  ASSUME NEW s \in Seq(Int), NEW n \in Nat
  PROVE  /\ SubSeq(s, 1, Min({Len(s), n})) \in Seq(Int)
         /\ Len(SubSeq(s, 1, Min({Len(s), n}))) = (IF Len(s) <= n THEN Len(s) ELSE n)
<1> DEFINE l == Len(s)
           m == Min({l, n})
<1>1. l \in Nat /\ l \in Int /\ n \in Int
  OBVIOUS
<1> HIDE DEF l
<1>2. m = (IF l <= n THEN l ELSE n)
  BY <1>1, LeastOfTwo, Zenon
<1> HIDE DEF m
<1>3. m \in Nat /\ m <= l
  BY <1>1, <1>2
<1>4. SubSeq(s, 1, m) \in Seq(Int) /\ Len(SubSeq(s, 1, m)) = m
  BY <1>3, Part DEF l
<1>5. QED BY <1>2, <1>4 DEF l, m

LEMMA StoreKeeps == IInv /\ Store => IInv'
<1> SUFFICES ASSUME IInv, Store PROVE IInv'
  OBVIOUS
<1>1. /\ pc = "store" /\ pc' = "take"
      /\ stored' = (CASE null -> <<>>
                      [] ~null /\ from = "barray" -> BytesImage
                      [] ~null /\ from \in Arrays \ {"barray"} -> ArrayImage
                      [] ~null /\ from \notin Arrays -> StringImage)
      /\ UNCHANGED <<from, to, cap, null, value, room, behind, nullable, before>>
      /\ UNCHANGED <<position, member, isNull, tmp, got, known, chunk, into, at, size>>
  BY DEF Store, sender, receiver
<1>2. /\ null \in BOOLEAN /\ value \in Seq(Int) /\ Len(value) \in Nat
      /\ room \in Nat /\ cap \in Nat
  BY TheEnds DEF IInv, Ends
<1>3. StringImage \in Seq(Int)
  BY <1>2, Cut DEF StringImage
<1>4. ArrayImage \in Seq(Int)
  BY ArrayIsSent DEF IInv
<1>5. ~null /\ from = "barray" => BytesImage \in Seq(Int)
  <2> SUFFICES ASSUME ~null, from = "barray" PROVE BytesImage \in Seq(Int)
    OBVIOUS
  <2> DEFINE l == Len(value)
             m == Min({cap, room})
  <2>1. l = cap /\ cap \in Int /\ room \in Int
    BY <1>2 DEF IInv, Ends
  <2>2. m \in Nat /\ m <= Len(value)
    <3>1. m = (IF cap <= room THEN cap ELSE room)
      BY <2>1, LeastOfTwo, Zenon
    <3> HIDE DEF m
    <3>2. QED BY <1>2, <2>1, <3>1
  <2> HIDE DEF m
  <2>3. SubSeq(value, 1, m) \in Seq(Int)
    BY <1>2, <2>2, Part
  <2>4. QED BY <2>3 DEF BytesImage, m
<1>6. stored' \in Seq(Int)
  <2>1. <<>> \in Seq(Int)
    OBVIOUS
  <2>2. CASE null
    BY <1>1, <2>1, <2>2
  <2>3. CASE ~null /\ from = "barray"
    BY <1>1, <1>5, <2>3 DEF Arrays
  <2>4. CASE ~null /\ from \in Arrays /\ from # "barray"
    BY <1>1, <1>4, <2>4
  <2>5. CASE ~null /\ from \notin Arrays
    <3>1. from # "barray"
      BY <2>5 DEF Arrays
    <3>2. QED BY <1>1, <1>3, <2>5, <3>1
  <2>6. QED BY <2>2, <2>3, <2>4, <2>5, Zenon
<1>7. Ends'
  BY <1>1 DEF IInv, Ends
<1>8. Steps'
  <2>1. got' = 0 /\ Len(stored') \in Nat
    BY <1>1, <1>6 DEF IInv, Sending
  <2>2. QED BY <1>1, <1>6, <2>1 DEF IInv, Steps
<1>9. Buffers' /\ Buffered'
  BY <1>1 DEF IInv, Buffers, Buffered, Width
<1>10. Sending' /\ Getting' /\ Called'
  BY <1>1 DEF Sending, Getting, Called
<1>11. QED BY <1>7, <1>8, <1>9, <1>10 DEF IInv

LEMMA TakeKeeps == IInv /\ Take => IInv'
<1> SUFFICES ASSUME IInv, Take PROVE IInv'
  OBVIOUS
<1>1. /\ pc = "take" /\ pc' = "done"
      /\ isNull' = (null /\ nullable)
      /\ member' = (CASE isNull' -> member
                      [] ~isNull' /\ to = "barray" -> BytesValue
                      [] ~isNull' /\ to \in Arrays \ {"barray"} -> ArrayValue
                      [] ~isNull' /\ to \notin Arrays -> StringValue)
      /\ UNCHANGED <<from, to, cap, null, value, room, behind, nullable, before>>
      /\ UNCHANGED <<position, stored, tmp, got, known, chunk, into, at, size>>
  BY DEF Take, sender, receiver
<1>2. /\ null \in BOOLEAN /\ nullable \in BOOLEAN /\ cap \in Nat /\ cap >= 1
      /\ stored \in Seq(Int) /\ Len(stored) \in Nat
      /\ member \in Seq(Int) /\ (to \in Arrays => Len(member) = cap)
  BY TheEnds DEF IInv, Ends, Steps, Buffers
<1>3. isNull' \in BOOLEAN
  BY <1>1, <1>2
<1> DEFINE l == Len(stored)
           f == Fitting
<1>4. f \in Seq(Int) /\ Len(f) = (IF l <= cap THEN l ELSE cap)
  BY <1>2, Cut DEF Fitting
<1>5. to \in Arrays => ArrayValue \in Seq(Int) /\ Len(ArrayValue) = cap
  <2> SUFFICES ASSUME to \in Arrays
               PROVE  ArrayValue \in Seq(Int) /\ Len(ArrayValue) = cap
    OBVIOUS
  <2> DEFINE e == l < cap
             z == f \o (IF e THEN <<Nul>> ELSE <<>>)
  <2>1. e \in BOOLEAN /\ ArrayValue = Put(member, 0, z)
    BY DEF ArrayValue
  <2> HIDE DEF f, e
  <2>2. z \in Seq(Int) /\ Len(z) = (IF e THEN Len(f) + 1 ELSE Len(f))
    BY <1>4, <2>1, Ended
  <2> HIDE DEF z, l
  <2>3. l \in Nat
    BY <1>2 DEF l
  <2>4. 0 + Len(z) <= Len(member) /\ 0 \in Nat
    BY <1>2, <1>4, <2>2, <2>3 DEF e
  <2>5. /\ Put(member, 0, z) \in Seq(Int)
        /\ Len(Put(member, 0, z)) = Len(member)
    BY <1>2, <2>2, <2>4, PutKeepsSize
  <2>6. QED BY <1>2, <2>1, <2>5
<1>6. to = "barray" => BytesValue \in Seq(Int) /\ Len(BytesValue) = cap
  <2> SUFFICES ASSUME to = "barray"
               PROVE  BytesValue \in Seq(Int) /\ Len(BytesValue) = cap
    OBVIOUS
  <2>1. CASE null
    <3>1. BytesValue = Fill(Nul, cap) /\ Nul \in Int
      BY <2>1 DEF BytesValue, Nul
    <3>2. QED BY <1>2, <3>1, Filled, Zenon
  <2>2. CASE ~null
    <3>1. BytesValue = Put(member, 0, f)
      BY <2>2 DEF BytesValue
    <3> HIDE DEF f
    <3>2. Len(member) = cap
      BY <1>2 DEF Arrays
    <3>3. 0 + Len(f) <= Len(member) /\ 0 \in Nat
      BY <1>2, <1>4, <3>2
    <3>4. QED BY <1>2, <1>4, <3>1, <3>2, <3>3, PutKeepsSize
  <2>3. QED BY <1>2, <2>1, <2>2
<1>7. member' \in Seq(Int) /\ (to \in Arrays => Len(member') = cap)
  <2>1. CASE isNull'
    BY <1>1, <1>2, <2>1
  <2>2. CASE ~isNull' /\ to = "barray"
    BY <1>1, <1>6, <2>2 DEF Arrays
  <2>3. CASE ~isNull' /\ to \in Arrays /\ to # "barray"
    BY <1>1, <1>5, <2>3
  <2>4. CASE ~isNull' /\ to \notin Arrays
    <3>1. to # "barray"
      BY <2>4 DEF Arrays
    <3>2. member' = stored
      BY <1>1, <2>4, <3>1 DEF StringValue
    <3>3. QED BY <1>2, <2>4, <3>2
  <2>5. QED BY <2>1, <2>2, <2>3, <2>4, Zenon
<1>8. Ends'
  BY <1>1 DEF IInv, Ends
<1>9. Steps'
  BY <1>1, <1>3 DEF IInv, Steps
<1>10. Buffers' /\ Buffered'
  BY <1>1, <1>7 DEF IInv, Buffers, Buffered, Width
<1>11. Sending' /\ Getting' /\ Called'
  BY <1>1 DEF Sending, Getting, Called
<1>12. QED BY <1>8, <1>9, <1>10, <1>11 DEF IInv

LEMMA StutterKeeps == IInv /\ UNCHANGED vars => IInv'
<1> SUFFICES ASSUME IInv, UNCHANGED vars PROVE IInv'
  OBVIOUS
<1>1. /\ UNCHANGED <<from, to, cap, null, value, room, behind, nullable, before>>
      /\ UNCHANGED <<pc, position, stored, member, isNull, tmp, got, known>>
      /\ UNCHANGED <<chunk, into, at, size>>
  BY DEF vars, sender, receiver
<1>2. Ends' /\ Steps'
  BY <1>1 DEF IInv, Ends, Steps
<1>3. Buffers' /\ Buffered' /\ Sending'
  BY <1>1 DEF IInv, Buffers, Buffered, Width, Sending, Memory
<1>4. Getting'
  BY <1>1 DEF IInv, Getting, Wanted, StringWanted, Width, Destination
<1>5. Called'
  BY <1>1 DEF IInv, Called, Given, StringGot
<1>6. QED BY <1>2, <1>3, <1>4, <1>5 DEF IInv

LEMMA NextKeeps == IInv /\ [Next]_vars => IInv'
BY SendNullKeeps, SendWholeKeeps, SendWideStringKeeps, SendWideArrayKeeps, DescribeKeeps,
   CallbackKeeps, GetDataKeeps, StoreKeeps, TakeKeeps, StutterKeeps DEF Next

------------------------------------------------------------------------------
\* What the data are on the way from the member to the server, and from there to the
\* other member: the part of the invariant that is about the values themselves.

\* What the data are does not depend on what is on its way.
LEMMA InitTells == Init => Contents
<1> SUFFICES ASSUME Init PROVE Contents
  OBVIOUS
<1>1. PICK n : /\ n \in IF null THEN {0} ELSE IF from = "barray" THEN {cap} ELSE Lengths
               /\ (from \in Arrays => n <= cap) /\ value = [i \in 1..n |-> i]
  BY DEF Init
<1>2. n \in Nat /\ (null => n = 0)
  <2>1. cap \in Nat /\ null \in BOOLEAN
    BY Sizes DEF Init
  <2>2. QED BY <1>1, <2>1, LongDataAssumption
<1>3. value \in Seq(Int) /\ Len(value) = n /\ \A i \in 1..Len(value) : value[i] = i
  BY <1>1, <1>2
<1>4. /\ pc = (IF room = 0 THEN "send" ELSE "store") /\ position = 0 /\ stored = <<>>
      /\ member = before
      /\ (room # 0 => behind = 0)
  BY DEF Init
<1>5. before \in Seq(Int)
  <2>1. PICK m : /\ m \in IF to \in Arrays THEN {cap} ELSE IF isNull THEN {0} ELSE OldLengths
                 /\ before = Fill(Old, m)
    BY DEF Init
  <2>2. m \in Nat
    <3>1. cap \in Nat
      BY Sizes DEF Init
    <3>2. QED BY <2>1, <3>1, LongDataAssumption
  <2>3. QED BY <2>1, <2>2, Filled DEF Old
<1>6. Meant
  <2>1. null => value = <<>>
    BY <1>1, <1>2
  <2>2. \A i \in 1..Len(value) : value[i] # Nul
    BY <1>3 DEF Nul
  <2>3. QED BY <1>4, <2>1, <2>2 DEF Meant
<1>7. SentSoFar
  <2>1. SubSeq(value, 1, 0) = <<>> /\ SubSeq(Memory, 1, 0) = <<>>
    BY SubSeqEmpty
  <2>2. QED BY <1>4, <2>1 DEF SentSoFar
<1>8. Sent /\ Announced /\ Transferred
  BY <1>4, <1>7 DEF Sent, Announced, Transferred
<1>9. QED BY <1>5, <1>6, <1>8 DEF Contents

\* A step of the sender tells the server a part of the value, or the rest.
LEMMA SendTells ==
  ASSUME IInv, Contents, pc = "send", NEW d, NEW last \in BOOLEAN, Received(d, last),
         last => SentAs', ~last => SentSoFar'
  PROVE  Contents'
<1>1. /\ pc' = (IF last THEN "describe" ELSE "send")
      /\ UNCHANGED <<from, to, cap, null, value, room, behind, nullable, before, member>>
  BY DEF Received, sender, receiver
<1>2. before' \in Seq(Int)
  BY <1>1 DEF Contents
<1>3. Meant'
  BY <1>1 DEF Contents, Meant
<1>4. Sent'
  BY <1>1 DEF Sent
<1>5. Announced' /\ Transferred'
  BY <1>1 DEF Contents, Announced, Transferred
<1>6. QED BY <1>2, <1>3, <1>4, <1>5 DEF Contents

\* NULL, a value as a whole, and one that is narrowed on the way.
LEMMA SendNullTells == IInv /\ Contents /\ SendNull => Contents'
<1> SUFFICES ASSUME IInv, Contents, SendNull PROVE Contents'
  OBVIOUS
<1>1. pc = "send" /\ null /\ Received(<<>>, TRUE)
  BY DEF SendNull
<1>2. stored = <<>> /\ value = <<>> /\ room = 0
  BY <1>1 DEF Contents, Sent, SentSoFar, Meant
<1>3. stored' = <<>> \o <<>> /\ value' = value /\ room' = room
  BY <1>1, <1>2 DEF Received, sender
<1>4. SentAs'
  BY <1>2, <1>3 DEF SentAs, SentWell, ReadsOn
<1>5. QED BY <1>1, <1>4, SendTells

LEMMA SendWholeTells == IInv /\ Contents /\ SendWhole => Contents'
<1> SUFFICES ASSUME IInv, Contents, SendWhole PROVE Contents'
  OBVIOUS
<1>1. pc = "send" /\ ~null /\ from \notin {"wstring4", "warray4"} /\ Received(value, TRUE)
  BY DEF SendWhole
<1>2. stored = <<>> /\ value \in Seq(Int) /\ room = 0
  BY <1>1, TheEnds DEF IInv, Contents, Sent, SentSoFar, Meant
<1>3. stored' = <<>> \o value /\ value' = value /\ room' = room
  BY <1>1, <1>2 DEF Received, sender
<1>4. <<>> \o value = value
  BY <1>2, ConcatEmptySeq
<1>5. SentAs'
  BY <1>2, <1>3, <1>4 DEF SentAs, SentWell, ReadsOn
<1>6. QED BY <1>1, <1>5, SendTells

LEMMA SendWideStringTells == IInv /\ Contents /\ SendWideString => Contents'
<1> SUFFICES ASSUME IInv, Contents, SendWideString PROVE Contents'
  OBVIOUS
<1> DEFINE left == Len(value) - position
           n == Min({left, TmpCapacity \div 2})
           m == position + n
           d == SubSeq(value, position + 1, m)
<1>1. /\ pc = "send" /\ ~null /\ from = "wstring4"
      /\ Received(d, n = left) /\ position' = m
  BY DEF SendWideString
<1>2. /\ value \in Seq(Int) /\ Len(value) \in Nat
      /\ position \in Nat /\ position <= Len(value)
  BY <1>1, TheEnds DEF IInv, Steps, Sending
<1>3. n \in Nat /\ n <= left
  <2>1. left \in Nat /\ TmpCapacity \div 2 \in Nat
    BY <1>2, Sizes
  <2> HIDE DEF left
  <2>2. QED BY <2>1, LeastOfTwo
<1> HIDE DEF n
<1>4. m \in Nat /\ position <= m /\ m <= Len(value) /\ (n = left => m = Len(value))
  BY <1>2, <1>3
<1> HIDE DEF m
<1>5. stored = SubSeq(value, 1, position) /\ room = 0
  BY <1>1 DEF Contents, Sent, SentSoFar, Meant
<1>6. stored' = SubSeq(value, 1, m)
  <2>1. stored' = SubSeq(value, 1, position) \o SubSeq(value, position + 1, m)
    BY <1>1, <1>5 DEF Received
  <2>2. QED BY <1>2, <1>4, <2>1, PartsFollow
<1>7. /\ value' = value /\ from' = from /\ room' = room /\ null' = null
  BY <1>1 DEF Received, sender
<1>8. SentSoFar'
  BY <1>1, <1>6, <1>7 DEF SentSoFar
<1>9. (n = left) => SentAs'
  <2>1. SubSeq(value, 1, Len(value)) = value
    BY <1>2
  <2>2. QED BY <1>4, <1>5, <1>6, <1>7, <2>1 DEF SentAs, SentWell, ReadsOn
<1>10. (n = left) \in BOOLEAN
  OBVIOUS
<1> HIDE DEF d, left
<1>11. QED BY <1>1, <1>8, <1>9, <1>10, SendTells

\* The value is at the beginning of the array.
LEMMA TheValueInMemory ==
  ASSUME Ends
  PROVE  /\ Len(Memory) = Len(value) + 1 + (IF Len(value) < cap THEN 0 ELSE behind)
         /\ \A i \in 1..Len(value) : Memory[i] = value[i]
<1> DEFINE b == Fill(Behind, behind)
           z == IF Len(value) < cap THEN <<Nul>> ELSE b \o <<Nul>>
<1>1. b \in Seq(Int) /\ Len(b) = behind /\ behind \in Nat
  <2>1. behind \in Nat /\ Behind \in Int
    BY DEF Ends, Behind
  <2>2. QED BY <2>1, Filled, Zenon
<1> HIDE DEF b
<1>2. <<Nul>> \in Seq(Int) /\ Len(<<Nul>>) = 1
  BY DEF Nul
<1>3. b \o <<Nul>> \in Seq(Int) /\ Len(b \o <<Nul>>) = behind + 1
  BY <1>1, <1>2, ConcatProperties
<1>4. z \in Seq(Int) /\ Len(z) = 1 + (IF Len(value) < cap THEN 0 ELSE behind)
  BY <1>1, <1>2, <1>3
<1>5. Memory = value \o z
  BY DEF Memory, b
<1> HIDE DEF z
<1>6. value \in Seq(Int) /\ Len(value) \in Nat
  BY TheEnds
<1>7. Len(value \o z) = Len(value) + Len(z) /\ \A i \in 1..Len(value) : (value \o z)[i] = value[i]
  BY <1>4, <1>6, Joined, JoinedItems, Zenon
<1>8. Len(Memory) = Len(value) + 1 + (IF Len(value) < cap THEN 0 ELSE behind)
  <2> DEFINE k == IF Len(value) < cap THEN 0 ELSE behind
  <2>1. k \in Nat
    BY <1>1
  <2>2. Len(z) = 1 + k /\ Len(Memory) = Len(value) + Len(z)
    BY <1>4, <1>5, <1>7
  <2> HIDE DEF k
  <2>3. Len(Memory) = Len(value) + 1 + k
    BY <1>6, <2>1, <2>2
  <2>4. QED BY <2>3 DEF k
<1>9. QED BY <1>5, <1>7, <1>8

\* The chunks of an array follow each other, up to the 0 that ends it.
LEMMA SendWideArrayTells == IInv /\ Contents /\ SendWideArray => Contents'
<1> SUFFICES ASSUME IInv, Contents, SendWideArray PROVE Contents'
  OBVIOUS
<1> DEFINE e == Len(Memory) - 1
           rest == SubSeq(Memory, position + 1, e)
           half == TmpCapacity \div 2
           n == Min({Len(rest), cap, half})
           m == position + n
           d == SubSeq(rest, 1, n)
           v == Len(value)
<1>1. /\ pc = "send" /\ ~null /\ from = "warray4"
      /\ Received(d, n # half) /\ position' = m
  BY DEF SendWideArray
<1>2. /\ Memory \in Seq(Int) /\ e \in Nat /\ e <= Len(Memory) /\ Len(Memory) \in Nat
      /\ cap \in Nat /\ cap >= 1 /\ v <= cap /\ v \in Nat /\ value \in Seq(Int)
      /\ position \in Nat /\ position <= e
  <2>1. from \in Arrays
    BY <1>1 DEF Arrays
  <2>2. QED BY <1>1, <2>1, TheEnds, TheMemory DEF IInv, Steps, Sending, Ends
<1>3. /\ e = v + (IF v < cap THEN 0 ELSE behind) /\ behind \in Nat
      /\ \A i \in 1..v : Memory[i] = value[i]
  <2>1. behind \in Nat
    BY DEF IInv, Ends
  <2>2. QED BY <1>2, <2>1, TheValueInMemory DEF IInv
<1>4. /\ stored = SubSeq(Memory, 1, position) /\ room = 0
      /\ v = cap /\ cap < half => position = 0
  BY <1>1 DEF Contents, Sent, SentSoFar, Meant
<1>5. half \in Nat /\ half >= 2
  BY Sizes
<1> HIDE DEF e
<1>6. Len(rest) = e - position
  BY <1>2, Behinds, Zenon
<1> HIDE DEF half, v
<1>7. /\ n \in Nat /\ n <= e - position /\ n <= cap /\ n <= half
      /\ n = e - position \/ n = cap \/ n = half
  <2> DEFINE a == Len(rest)
  <2>1. a \in Nat /\ a \in Int /\ cap \in Int /\ half \in Int
    BY <1>2, <1>5, <1>6
  <2> HIDE DEF a, rest
  <2>2. /\ Min({a, cap, half}) \in {a, cap, half}
        /\ Min({a, cap, half}) <= a /\ Min({a, cap, half}) <= cap /\ Min({a, cap, half}) <= half
    BY <2>1, LeastOfThree, Zenon
  <2>3. n = Min({a, cap, half}) /\ a = e - position
    BY <1>6 DEF a
  <2> HIDE DEF n
  <2>4. QED BY <1>2, <1>5, <2>1, <2>2, <2>3
<1> HIDE DEF n
<1>8. m \in Nat /\ position <= m /\ m <= e
  BY <1>2, <1>7
<1>9. d = SubSeq(Memory, position + 1, m)
  BY <1>2, <1>7, PartOfPart
<1> HIDE DEF m, d, rest
<1>10. stored' = SubSeq(Memory, 1, m)
  <2>1. stored' = SubSeq(Memory, 1, position) \o SubSeq(Memory, position + 1, m)
    BY <1>1, <1>4, <1>9 DEF Received
  <2>2. m <= Len(Memory)
    BY <1>2, <1>8
  <2>3. QED BY <1>2, <1>8, <2>1, <2>2, PartsFollow
<1>11. /\ value' = value /\ from' = from /\ room' = room /\ null' = null
       /\ cap' = cap /\ behind' = behind
  BY <1>1 DEF Received, sender
<1>12. ~(n # half) => SentSoFar'
  <2> SUFFICES ASSUME n = half PROVE SentSoFar'
    OBVIOUS
  <2>1. ~(cap < half)
    BY <1>2, <1>5, <1>7
  <2>2. Memory' = Memory
    BY <1>11 DEF Memory
  <2>3. QED BY <1>1, <1>10, <1>11, <2>1, <2>2 DEF SentSoFar, half
<1>13. (n # half) => SentAs'
  <2> SUFFICES ASSUME n # half PROVE SentAs'
    OBVIOUS
  <2>1. v <= e /\ m <= Len(Memory) /\ Len(stored') = m /\ stored' \in Seq(Int)
    /\ \A i \in 1..m : stored'[i] = Memory[i]
    <3>1. v <= e /\ m <= Len(Memory)
      BY <1>2, <1>3, <1>8
    <3>2. QED BY <1>2, <1>8, <1>10, <3>1, Beginning, Zenon
  <2>2. CASE m = v
    <3>1. stored' = value
      <4>1. Len(stored') = Len(value) /\ \A i \in 1..Len(stored') : stored'[i] = value[i]
        BY <1>3, <2>1, <2>2 DEF v
      <4>2. QED BY <1>2, <2>1, <4>1, SeqEqual
    <3>2. QED BY <1>4, <1>11, <3>1 DEF SentAs, SentWell, ReadsOn
  <2>3. CASE m # v
    <3>1. v = cap /\ cap >= half /\ m > v /\ behind > 0
      <4>1. CASE v < cap
        <5>1. e = v
          BY <1>3, <4>1, <1>2
        <5>2. n = e - position
          BY <1>2, <1>7, <4>1, <5>1
        <5>3. QED BY <1>2, <2>3, <5>1, <5>2 DEF m
      <4>2. CASE v = cap
        <5>1. CASE cap < half
          <6>1. position = 0 /\ n = cap
            BY <1>2, <1>3, <1>4, <1>5, <1>7, <4>2, <5>1
          <6>2. QED BY <2>3, <4>2, <6>1, <1>2 DEF m
        <5>2. CASE cap >= half
          <6>1. n = e - position
            BY <1>2, <1>5, <1>7, <5>2
          <6>2. m = e
            BY <1>2, <6>1 DEF m
          <6>3. QED BY <1>2, <1>3, <2>1, <2>3, <4>2, <5>2, <6>2
        <5>3. QED BY <1>2, <1>5, <5>1, <5>2
      <4>3. QED BY <1>2, <4>1, <4>2
    <3>2. QED BY <1>1, <1>4, <1>11, <3>1 DEF SentAs, ReadsOn, v, half
  <2>4. QED BY <2>2, <2>3
<1>14. (n # half) \in BOOLEAN
  OBVIOUS
<1>15. QED BY <1>1, <1>12, <1>13, <1>14, SendTells

\* The server has what it has got as long as nothing more is sent.
LEMMA NothingSent ==
  ASSUME Contents, pc \notin {"send", "store"}, pc' \notin {"send", "store"},
         UNCHANGED <<from, cap, null, value, room, behind, nullable, before, stored>>
  PROVE  before' \in Seq(Int) /\ SentAs' /\ Sent' /\ SentAs
BY DEF Contents, Sent, SentAs, SentWell, ReadsOn

\* The first call of a callback comes with the total, and changes no data.
LEMMA DescribeTells == IInv /\ Contents /\ Describe => Contents'
<1> SUFFICES ASSUME IInv, Contents, Describe PROVE Contents'
  OBVIOUS
<1>1. /\ pc = "describe" /\ pc' = "callback"
      /\ known' \in IF to \in Narrow THEN BOOLEAN ELSE {TRUE}
      /\ chunk' = (IF null THEN "null"
                   ELSE IF known' /\ stored = <<>> THEN "one" ELSE "first")
      /\ UNCHANGED <<from, to, cap, null, value, room, behind, nullable, before>>
      /\ UNCHANGED <<stored, member, isNull, tmp, got, into, at>>
  BY DEF Describe, sender, receiver
<1>2. before' \in Seq(Int) /\ Sent'
  BY <1>1, NothingSent
<1>3. Meant'
  BY <1>1 DEF Contents, Meant
<1>4. null \in BOOLEAN
  BY DEF IInv, Ends
<1>5. Announced'
  BY <1>1, <1>4 DEF Contents, Announced
<1>6. Transferred'
  BY <1>1, <1>4 DEF Transferred
<1>7. QED BY <1>2, <1>3, <1>5, <1>6 DEF Contents

\* What the driver has put into s, n characters of what is stored, and how it calls
\* the callback then.
GotAt(s, t, n) ==
  /\ t \in Seq(Int) /\ Len(t) = Len(s) /\ at + n + Terminator <= Len(s)
  /\ \A i \in 1..at : t[i] = s[i]
  /\ \A i \in 1..n : t[at + i] = stored[got + i]

Got(n, left, fits) ==
  /\ n \in Nat /\ n <= left /\ n <= fits /\ (n = left \/ n = fits)
  /\ got' = got + n
  /\ chunk' = (IF n = left THEN "last" ELSE "next")
  /\ size' = (IF n = left THEN n * Width ELSE size - Terminator)
  /\ into = "member" => GotAt(member, member', n) /\ tmp' = tmp
  /\ into = "tmp" => GotAt(tmp, tmp', n) /\ member' = member

\* The driver puts the next n characters where the callback has said.
LEMMA DataAreGot ==
  ASSUME IInv, GetData
  PROVE  \E n : Got(n, Len(stored) - got, size \div Width - Terminator)
<1> DEFINE left == Len(stored) - got
           fits == size \div Width - Terminator
           n == Min({left, fits})
           m == got + n
           data == SubSeq(stored, got + 1, m)
           e == to \notin Binary
           written == data \o (IF e THEN <<Nul>> ELSE <<>>)
<1>1. /\ pc = "get" /\ Write(data) /\ got' = m
      /\ chunk' = (IF n = left THEN "last" ELSE "next")
      /\ size' = (IF n = left THEN n * Width ELSE size - Terminator)
  BY DEF GetData, Terminator
<1>2. /\ at + size \div Width <= Len(Destination)
      /\ e => size \div Width >= 1
  BY <1>1 DEF IInv, Getting
<1>3. /\ stored \in Seq(Int) /\ Len(stored) \in Nat /\ got \in Nat /\ got <= Len(stored)
      /\ at \in Nat /\ size \in Nat
      /\ into \in {"member", "tmp"} /\ member \in Seq(Int) /\ tmp \in Seq(Int)
      /\ Len(member) \in Nat /\ Len(tmp) \in Nat
  BY DEF IInv, Steps, Buffers
<1>4. Width \in {1, 2} /\ size \div Width \in Nat
  <2>1. Width \in {1, 2}
    BY TheEnds DEF IInv
  <2>2. QED BY <1>3, <2>1
<1>5. e \in BOOLEAN /\ Terminator = (IF e THEN 1 ELSE 0)
  BY DEF Terminator
<1>6. left \in Nat /\ left \in Int /\ fits \in Nat /\ fits \in Int
  BY <1>2, <1>3, <1>4, <1>5
<1> HIDE DEF left, fits, e
<1>7. n \in Nat /\ n <= left /\ n <= fits /\ (n = left \/ n = fits)
  <2>1. n = (IF left <= fits THEN left ELSE fits)
    BY <1>6, LeastOfTwo, Zenon
  <2> HIDE DEF n
  <2>2. QED BY <1>6, <2>1
<1> HIDE DEF n
<1>8. m \in Nat /\ got <= m /\ m <= Len(stored) /\ m - got = n
  BY <1>3, <1>7 DEF left
<1> HIDE DEF m
<1>9. /\ data \in Seq(Int) /\ Len(data) = m - got
      /\ \A i \in 1..(m - got) : data[i] = stored[got + i]
  <2>1. /\ stored \in Seq(Int) /\ got \in Nat /\ m \in Nat
        /\ got <= m /\ m <= Len(stored)
    BY <1>3, <1>8
  <2>2. QED BY <2>1, Behinds, Zenon
<1> HIDE DEF data
<1>10. written \in Seq(Int) /\ Len(written) = (IF e THEN Len(data) + 1 ELSE Len(data))
  BY <1>5, <1>9, Ended
<1>11. \A i \in 1..n : written[i] = data[i]
  <2> DEFINE z == IF e THEN <<Nul>> ELSE <<>>
  <2>1. z \in Seq(Int)
    BY DEF Nul
  <2> HIDE DEF z
  <2>2. \A i \in 1..Len(data) : (data \o z)[i] = data[i]
    BY <1>9, <2>1, JoinedItems, Zenon
  <2>3. QED BY <1>8, <1>9, <2>2 DEF z
<1>12. Len(written) = n + Terminator /\ n + Terminator <= size \div Width
  BY <1>4, <1>5, <1>6, <1>7, <1>8, <1>9, <1>10 DEF fits
<1>13. IF into = "member" THEN member' = Put(member, at, written) /\ tmp' = tmp
                          ELSE tmp' = Put(tmp, at, written) /\ member' = member
  BY <1>1 DEF Write, e
<1> HIDE DEF written
<1>14. ASSUME NEW s \in Seq(Int), at + size \div Width <= Len(s)
       PROVE  GotAt(s, Put(s, at, written), n)
  <2> DEFINE t == Put(s, at, written)
             l == Len(s)
             x == size \div Width
             y == Len(written)
  <2>1. l \in Nat /\ x \in Nat /\ y \in Nat /\ y <= x /\ at + x <= l
    BY <1>4, <1>10, <1>12, <1>14
  <2> HIDE DEF l, x, y
  <2>2. at + y <= l
    BY <1>3, <2>1
  <2>3. at + Len(written) <= Len(s)
    BY <2>2 DEF y, l
  <2>4. t \in Seq(Int) /\ Len(t) = Len(s)
    BY <1>3, <1>10, <2>3, PutKeepsSize, Zenon
  <2>5. (\A i \in 1..at : t[i] = s[i]) /\ (\A i \in 1..Len(written) : t[at + i] = written[i])
    <3>1. s \in Seq(Int) /\ written \in Seq(Int) /\ at \in Nat
      BY <1>3, <1>10
    <3>2. QED BY <2>3, <3>1, PutItems, Zenon
  <2> HIDE DEF t
  <2>6. at + n + Terminator <= Len(s)
    BY <1>3, <1>5, <1>7, <1>12, <2>3
  <2>7. ASSUME NEW i \in 1..n PROVE t[at + i] = stored[got + i]
    <3>1. i \in 1..Len(written) /\ i \in 1..(m - got)
      BY <1>5, <1>7, <1>8, <1>12
    <3>2. QED BY <1>9, <1>11, <2>5, <3>1
  <2>8. QED BY <2>4, <2>5, <2>6, <2>7 DEF GotAt, t
<1>15. into = "member" => GotAt(member, member', n) /\ tmp' = tmp
  BY <1>2, <1>3, <1>13, <1>14 DEF Destination
<1>16. into = "tmp" => GotAt(tmp, tmp', n) /\ member' = member
  BY <1>2, <1>3, <1>13, <1>14 DEF Destination
<1>17. Got(n, left, fits)
  BY <1>1, <1>7, <1>15, <1>16 DEF Got, m
<1>18. QED BY <1>17 DEF left, fits

\* What is known while the driver returns data.
LEMMA TheDelivery ==
  ASSUME IInv, Contents, GetData
  PROVE  /\ pc = "get" /\ pc' = "callback" /\ chunk \in {"first", "next"}
         /\ chunk = "first" => got = 0
         /\ UNCHANGED <<from, to, cap, null, value, room, behind, nullable, before>>
         /\ UNCHANGED <<position, stored, isNull, known, into, at>>
         /\ stored \in Seq(Int) /\ Len(stored) \in Nat /\ got \in Nat /\ got <= Len(stored)
         /\ at \in Nat /\ size \in Nat /\ position \in Nat /\ cap \in Nat /\ cap >= 1
         /\ into \in {"member", "tmp"} /\ member \in Seq(Int) /\ tmp \in Seq(Int)
         /\ Len(member) \in Nat /\ Len(tmp) \in Nat
         /\ (to \in Arrays => Len(member) = cap)
         /\ to \in Types /\ Width = (IF to \in Wide THEN 2 ELSE 1)
         /\ Terminator = (IF to \in Binary THEN 0 ELSE 1)
         /\ at + size \div Width <= Len(Destination)
         /\ Wanted /\ Read
<1>1. /\ pc = "get" /\ pc' = "callback"
      /\ UNCHANGED <<from, to, cap, null, value, room, behind, nullable, before>>
      /\ UNCHANGED <<position, stored, isNull, known, into, at>>
  BY DEF GetData, sender, receiver
<1>2. /\ chunk \in {"first", "next"} /\ (chunk = "first" => got = 0)
      /\ at + size \div Width <= Len(Destination)
      /\ Wanted /\ Read
  BY <1>1 DEF IInv, Getting, Contents, Transferred
<1>3. /\ stored \in Seq(Int) /\ Len(stored) \in Nat /\ got \in Nat /\ got <= Len(stored)
      /\ at \in Nat /\ size \in Nat /\ position \in Nat
      /\ into \in {"member", "tmp"} /\ member \in Seq(Int) /\ tmp \in Seq(Int)
      /\ Len(member) \in Nat /\ Len(tmp) \in Nat
      /\ (to \in Arrays => Len(member) = cap)
  BY DEF IInv, Steps, Buffers
<1>4. /\ to \in Types /\ Width = (IF to \in Wide THEN 2 ELSE 1)
      /\ Terminator = (IF to \in Binary THEN 0 ELSE 1)
      /\ cap \in Nat /\ cap >= 1
  BY TheEnds DEF IInv, Terminator
<1>5. QED BY <1>1, <1>2, <1>3, <1>4, Zenon

\* Where they are then, for every type of member.
LEMMA StringIsGot ==
  ASSUME IInv, Contents, GetData, to = "string"
  PROVE  Returned'
<1> DEFINE left == Len(stored) - got
           fits == size \div Width - Terminator
<1>1. PICK n : Got(n, left, fits)
  BY DataAreGot, Zenon
<1>2. Width = 1 /\ Terminator = 1
  BY TheDelivery DEF Wide, Binary
<1>3. fits = size - 1 /\ left \in Nat
  BY <1>2, TheDelivery
<1> HIDE DEF fits
<1>4. /\ n \in Nat /\ n <= left /\ (n = left \/ n = size - 1)
      /\ got' = got + n
      /\ size' = n
      /\ chunk' = (IF n = left THEN "last" ELSE "next")
  BY <1>1, <1>2, <1>3, TheDelivery DEF Got
<1>5. /\ into = "member" => GotAt(member, member', n) /\ tmp' = tmp
      /\ into = "tmp" => GotAt(tmp, tmp', n) /\ member' = member
  BY <1>1 DEF Got
<1> HIDE DEF left
<1>6. StringWanted /\ (position > 1 => position = got /\ Same(member, stored, got))
  BY TheDelivery DEF Wanted, Read
<1>7. CASE /\ known /\ chunk = "first" /\ position = 0
           /\ into = "member" /\ at = 0 /\ size = Len(stored) + 1
  <2>1. GotAt(member, member', n) /\ got = 0
    BY <1>5, <1>7, TheDelivery
  <2>2. /\ 0 + n + 1 <= Len(member) /\ Len(member') = Len(member)
        /\ \A i \in 1..n : member'[0 + i] = stored[0 + i]
    BY <1>2, <1>7, <2>1 DEF GotAt
  <2>3. Same(member', stored, n)
    BY <1>4, <2>2 DEF Same
  <2>4. got' = n /\ n <= Len(member') /\ position' = 0 /\ stored' = stored /\ 0 + n = n
    BY <1>4, <1>7, <2>1, <2>2, TheDelivery
  <2>5. StringReturned'
    <3>1. position' # 1 /\ got' = position' + size' /\ got' <= Len(member')
      BY <1>4, <2>4
    <3>2. Same(member', stored', got')
      BY <2>3, <2>4
    <3>3. QED BY <3>1, <3>2 DEF StringReturned
  <2>6. QED BY <2>5, TheDelivery DEF Returned
<1>8. CASE /\ ~known /\ chunk = "first" /\ position = 1
           /\ into = "tmp" /\ at = 0 /\ size = Short
  <2>1. GotAt(tmp, tmp', n) /\ got = 0
    BY <1>5, <1>8, TheDelivery
  <2>2. \A i \in 1..n : tmp'[0 + i] = stored[0 + i]
    BY <1>8, <2>1 DEF GotAt
  <2>3. Same(tmp', stored, n)
    BY <1>4, <2>2 DEF Same
  <2>4. StringReturned'
    BY <1>4, <1>8, <2>1, <2>3, TheDelivery DEF StringReturned
  <2>5. QED BY <2>4, TheDelivery DEF Returned
<1>9. CASE /\ ~known /\ chunk = "next" /\ position > 1
           /\ into = "member" /\ at = position /\ size = Len(member) - position
  <2>1. GotAt(member, member', n) /\ position = got /\ Same(member, stored, got)
    BY <1>5, <1>6, <1>9
  <2>2. /\ got + n + 1 <= Len(member) /\ Len(member') = Len(member)
        /\ \A i \in 1..got : member'[i] = member[i]
        /\ \A i \in 1..n : member'[got + i] = stored[got + i]
    BY <1>2, <1>9, <2>1 DEF GotAt
  <2>3. ASSUME NEW i \in 1..(got + n) PROVE member'[i] = stored[i]
    <3>1. CASE i <= got
      <4>1. i \in 1..got
        BY <3>1, TheDelivery
      <4>2. QED BY <2>1, <2>2, <4>1 DEF Same
    <3>2. CASE ~(i <= got)
      <4> DEFINE j == i - got
      <4>1. j \in 1..n /\ got + j = i
        <5>1. got \in Nat /\ i \in Int /\ i <= got + n /\ n \in Nat
          BY <1>4, TheDelivery
        <5>2. QED BY <3>2, <5>1
      <4> HIDE DEF j
      <4>2. QED BY <2>2, <4>1
    <3>3. QED BY <3>1, <3>2
  <2>4. Same(member', stored, got + n)
    BY <2>3 DEF Same
  <2>5. StringReturned'
    <3>1. got' = got + n /\ got' = position' + size' /\ position' # 1 /\ stored' = stored
      BY <1>4, <1>9, <2>1, TheDelivery
    <3>2. got' <= Len(member')
      BY <1>4, <2>2, <3>1, TheDelivery
    <3>3. Same(member', stored', got')
      BY <2>4, <3>1
    <3>4. QED BY <3>1, <3>2, <3>3 DEF StringReturned
  <2>6. QED BY <2>5, TheDelivery DEF Returned
<1>10. QED BY <1>6, <1>7, <1>8, <1>9 DEF StringWanted

LEMMA WideString2IsGot ==
  ASSUME IInv, Contents, GetData, to = "wstring2"
  PROVE  Returned'
<1> DEFINE left == Len(stored) - got
           fits == size \div Width - Terminator
<1>1. PICK n : Got(n, left, fits)
  BY DataAreGot, Zenon
<1>2. Width = 2 /\ Terminator = 1
  BY TheDelivery DEF Wide, Binary
<1>3. /\ chunk = "first" /\ into = "member" /\ at = 0 /\ size = 2 * (Len(stored) + 1)
      /\ got = 0
  BY TheDelivery DEF Wanted
<1>4. left = Len(stored) /\ fits = Len(stored) /\ Len(stored) \in Nat
  BY <1>2, <1>3, TheDelivery
<1> HIDE DEF left, fits
<1>5. /\ n = Len(stored) /\ got' = n /\ size' = n * 2
      /\ GotAt(member, member', n)
  BY <1>1, <1>2, <1>3, <1>4 DEF Got
<1>6. /\ 0 + n + 1 <= Len(member) /\ Len(member') = Len(member)
      /\ \A i \in 1..n : member'[0 + i] = stored[0 + i]
  BY <1>2, <1>3, <1>5 DEF GotAt
<1>7. Same(member', stored, n) /\ n \in Nat /\ n <= Len(member')
  BY <1>4, <1>5, <1>6, TheDelivery DEF Same
<1>8. size' \div 2 = n
  BY <1>5, <1>7
<1>9. QED BY <1>5, <1>7, <1>8, TheDelivery DEF Returned

LEMMA VectorIsGot ==
  ASSUME IInv, Contents, GetData, to = "vector"
  PROVE  Returned'
<1> DEFINE left == Len(stored) - got
           fits == size \div Width - Terminator
<1>1. PICK n : Got(n, left, fits)
  BY DataAreGot, Zenon
<1>2. Width = 1 /\ Terminator = 0
  BY TheDelivery DEF Wide, Binary
<1>3. /\ chunk = "first" /\ into = "member" /\ at = 0 /\ size = Len(stored)
      /\ got = 0 /\ Len(member) = Len(stored)
  BY TheDelivery DEF Wanted, Read
<1>4. left = Len(stored) /\ fits = Len(stored) /\ Len(stored) \in Nat
  BY <1>2, <1>3, TheDelivery
<1> HIDE DEF left, fits
<1>5. n = Len(stored) /\ GotAt(member, member', n)
  BY <1>1, <1>3, <1>4 DEF Got
<1>6. /\ member' \in Seq(Int) /\ Len(member') = Len(stored)
      /\ \A i \in 1..n : member'[0 + i] = stored[0 + i]
  BY <1>3, <1>5 DEF GotAt
<1>7. \A i \in 1..Len(stored) : member'[i] = stored[i]
  BY <1>5, <1>6, <1>4
<1>8. member' = stored
  BY <1>6, <1>7, TheDelivery, SeqEqual
<1>9. QED BY <1>8, TheDelivery DEF Returned

\* What is got by way of the temporary buffer.
LEMMA BufferIsGot ==
  ASSUME IInv, Contents, GetData, to \in {"wstring4", "warray4"}
  PROVE  /\ member' = member /\ size' \div 2 \in Nat
         /\ got' = got + size' \div 2 /\ InBuffer(size \div 2)'
<1> DEFINE left == Len(stored) - got
           fits == size \div Width - Terminator
           h == TmpCapacity \div 2
<1>1. PICK n : Got(n, left, fits)
  BY DataAreGot, Zenon
<1>2. Width = 2 /\ Terminator = 1
  BY TheDelivery DEF Wide, Binary
<1>3. into = "tmp" /\ at = 0 /\ size = TmpCapacity
  BY TheDelivery DEF Wanted
<1>4. h \in Nat /\ TmpCapacity = 2 * h /\ h >= 2
  BY LongDataAssumption
<1>5. fits = h - 1
  BY <1>2, <1>3
<1> HIDE DEF left, fits, h
<1>6. /\ n \in Nat /\ (n = left \/ n = fits) /\ got' = got + n
      /\ size' = (IF n = left THEN n * 2 ELSE 2 * h - 1)
      /\ GotAt(tmp, tmp', n) /\ member' = member
  BY <1>1, <1>2, <1>3, <1>4 DEF Got
<1>7. size' \div 2 = n
  BY <1>4, <1>5, <1>6
<1>8. \A i \in 1..n : tmp'[0 + i] = stored[got + i]
  BY <1>3, <1>6 DEF GotAt
<1>9. InBuffer(n)'
  <2>1. n <= got' /\ got \in Nat /\ stored' = stored
    BY <1>6, TheDelivery
  <2>2. ASSUME NEW i \in 1..n PROVE tmp'[i] = stored'[got' - n + i]
    <3>1. got' - n + i = got + i /\ 0 + i = i
      BY <1>6, TheDelivery
    <3>2. QED BY <1>8, <2>1, <3>1
  <2>3. QED BY <2>1, <2>2 DEF InBuffer
<1>10. QED BY <1>6, <1>7, <1>9 DEF InBuffer

LEMMA WideString4IsGot ==
  ASSUME IInv, Contents, GetData, to = "wstring4"
  PROVE  Returned'
<1> DEFINE k == size' \div 2
<1>1. member' = member /\ k \in Nat /\ got' = got + k /\ InBuffer(size \div 2)'
  BY BufferIsGot
<1>2. member = before \o SubSeq(stored, 1, got)
  BY TheDelivery DEF Read
<1>3. got' - k = got
  BY <1>1, TheDelivery
<1>4. QED BY <1>1, <1>2, <1>3, TheDelivery DEF Returned

LEMMA WideArray4IsGot ==
  ASSUME IInv, Contents, GetData, to = "warray4"
  PROVE  Returned'
<1> DEFINE k == size' \div 2
<1>1. member' = member /\ k \in Nat /\ got' = got + k /\ InBuffer(size \div 2)'
  BY BufferIsGot
<1>2. position = Lesser(got, cap) /\ Same(member, stored, position)
  BY TheDelivery DEF Read
<1>3. got' - k = got
  BY <1>1, TheDelivery
<1>4. Lesser(got' - k, cap') = Lesser(got, cap) /\ Same(member', stored', position')
  BY <1>1, <1>2, <1>3, TheDelivery
<1>5. QED BY <1>1, <1>2, <1>4, TheDelivery DEF Returned

\* An array gets all but its last character, which comes through the buffer.
LEMMA ArrayIsGot ==
  ASSUME IInv, Contents, GetData, to \in {"array", "warray2"}
  PROVE  Returned'
<1> DEFINE left == Len(stored) - got
           fits == size \div Width - Terminator
           w == Width
<1>1. PICK n : Got(n, left, fits)
  BY DataAreGot, Zenon
<1>2. w \in {1, 2} /\ Terminator = 1
  BY TheDelivery DEF Wide, Binary
<1>3. ArrayRead /\ to \in Arrays
  BY TheDelivery DEF Read, Arrays
<1>4. left \in Nat /\ Len(member) = cap /\ cap \in Nat /\ cap >= 1
  BY <1>3, TheDelivery
<1> HIDE DEF left, fits
<1>5. /\ n \in Nat /\ n <= left /\ (n = left \/ n = fits) /\ got' = got + n
      /\ chunk' = (IF n = left THEN "last" ELSE "next")
      /\ n = left => size' = n * Width
      /\ into = "member" => GotAt(member, member', n) /\ tmp' = tmp
      /\ into = "tmp" => GotAt(tmp, tmp', n) /\ member' = member
  BY <1>1 DEF Got
<1>6. ArrayReturned'
  <2>1. CASE position = 0 /\ got = 0 /\ into = "member" /\ at = 0 /\ size = cap * Width
    <3>1. GotAt(member, member', n)
      BY <1>5, <2>1
    <3>2. \A i \in 1..n : member'[0 + i] = stored[0 + i]
      BY <2>1, <3>1 DEF GotAt
    <3>3. Same(member', stored, n) /\ got' = n
      BY <1>5, <2>1, <3>2 DEF Same
    <3>4. fits = cap - 1
      <4>1. size = cap * w
        BY <2>1
      <4> HIDE DEF w
      <4>2. size \div w = cap
        BY <1>2, <1>4, <4>1
      <4>3. QED BY <1>2, <4>2 DEF fits, w
    <3>5. CASE n = left
      <4>1. 0 + n + 1 <= Len(member)
        BY <1>2, <2>1, <3>1 DEF GotAt
      <4>2. size' = n * w
        BY <1>5, <3>5
      <4>3. size' \div w = n
        <5> HIDE DEF w
        <5>1. QED BY <1>2, <1>5, <4>2
      <4>4. got' < cap /\ chunk' = "last" /\ Width' = w
        BY <1>4, <1>5, <3>3, <3>5, <4>1, TheDelivery DEF Width
      <4>5. position' = 0 /\ Same(member', stored', got') /\ cap' = cap
        BY <2>1, <3>3, TheDelivery
      <4>6. (size \div Width)' = got'
        BY <3>3, <4>3, <4>4
      <4>7. QED BY <4>4, <4>5, <4>6 DEF ArrayReturned
    <3>6. CASE n # left
      <4>1. got' = cap - 1 /\ chunk' = "next"
        BY <1>5, <3>3, <3>4, <3>6
      <4>2. position' = 0 /\ Same(member', stored', got') /\ cap' = cap
        BY <2>1, <3>3, TheDelivery
      <4>3. QED BY <4>1, <4>2 DEF ArrayReturned
    <3>7. QED BY <3>5, <3>6
  <2>2. CASE /\ position = 1 /\ got = cap - 1 /\ into = "tmp" /\ at = 0 /\ size = TmpCapacity
             /\ Len(stored) >= cap /\ Same(member, stored, cap - 1)
    <3>1. GotAt(tmp, tmp', n) /\ member' = member
      BY <1>5, <2>2
    <3>2. size \div w >= 2
      BY <1>2, <2>2, Sizes
    <3>3. n >= 1
      <4>1. left >= 1
        BY <1>4, <2>2, TheDelivery DEF left
      <4>2. fits >= 1
        <5> DEFINE x == size \div w
        <5>1. x \in Nat /\ x >= 2
          BY <1>2, <3>2, TheDelivery
        <5>2. fits = x - 1
          BY <1>2 DEF fits
        <5> HIDE DEF x
        <5>3. QED BY <5>1, <5>2
      <4>3. QED BY <1>5, <4>1, <4>2
    <3>4. tmp'[0 + 1] = stored[got + 1]
      <4>1. 1 \in 1..n
        BY <1>5, <3>3
      <4>2. QED BY <2>2, <3>1, <4>1 DEF GotAt
    <3>5. tmp'[1] = stored[cap]
      BY <1>4, <2>2, <3>4
    <3>6. /\ position' = 1 /\ Len(stored') >= cap' /\ Same(member', stored', cap' - 1)
          /\ tmp'[1] = stored'[cap']
      BY <2>2, <3>1, <3>5, TheDelivery
    <3>7. QED BY <3>6 DEF ArrayReturned
  <2>3. CASE position = 2 /\ into = "tmp" /\ Len(stored) >= cap /\ Same(member, stored, cap)
    <3>1. position' = 2 /\ Len(stored') >= cap' /\ Same(member', stored', cap')
      BY <1>5, <2>3, TheDelivery
    <3>2. QED BY <3>1 DEF ArrayReturned
  <2>4. QED BY <1>3, <2>1, <2>2, <2>3 DEF ArrayRead
<1>7. QED BY <1>6, TheDelivery DEF Returned

LEMMA BinaryArrayIsGot ==
  ASSUME IInv, Contents, GetData, to = "barray"
  PROVE  Returned'
<1> DEFINE left == Len(stored) - got
           fits == size \div Width - Terminator
           l == Lesser(Len(stored), cap)
<1>1. PICK n : Got(n, left, fits)
  BY DataAreGot, Zenon
<1>2. Width = 1 /\ Terminator = 0 /\ Len(stored) \in Nat /\ cap \in Nat
  BY TheDelivery DEF Wide, Binary
<1>3. l \in Nat /\ l <= Len(stored)
  BY <1>2 DEF Lesser
<1>4. \/ got = 0 /\ into = "member" /\ at = 0 /\ size = l
      \/ into = "tmp" /\ Same(member, stored, l)
  BY TheDelivery DEF Read
<1> HIDE DEF l, left, fits
<1>5. Same(member', stored, l)
  <2>1. CASE got = 0 /\ into = "member" /\ at = 0 /\ size = l
    <3>1. left = Len(stored) /\ fits = l
      BY <1>2, <1>3, <2>1 DEF left, fits
    <3>2. n = l /\ GotAt(member, member', n)
      BY <1>1, <1>2, <1>3, <2>1, <3>1 DEF Got
    <3>3. \A i \in 1..l : member'[0 + i] = stored[0 + i]
      BY <2>1, <3>2 DEF GotAt
    <3>4. QED BY <1>3, <3>3 DEF Same
  <2>2. CASE into = "tmp" /\ Same(member, stored, l)
    BY <1>1, <2>2 DEF Got
  <2>3. QED BY <1>4, <2>1, <2>2
<1>6. QED BY <1>5, TheDelivery DEF Returned, l

LEMMA GetDataTells == IInv /\ Contents /\ GetData => Contents'
<1> SUFFICES ASSUME IInv, Contents, GetData PROVE Contents'
  OBVIOUS
<1> DEFINE left == Len(stored) - got
           fits == size \div Width - Terminator
<1>1. PICK n : Got(n, left, fits)
  BY DataAreGot, Zenon
<1>2. before' \in Seq(Int) /\ Sent'
  BY TheDelivery, NothingSent
<1>3. Meant'
  <2>1. UNCHANGED <<value, null, room, behind>> /\ pc = "get" /\ pc' = "callback"
    BY TheDelivery
  <2>2. Meant
    BY DEF Contents
  <2>3. QED BY <2>1, <2>2 DEF Meant
<1>4. /\ n \in Nat /\ n <= left /\ got' = got + n
      /\ chunk' = (IF n = left THEN "last" ELSE "next")
  BY <1>1 DEF Got
<1>5. Announced'
  <2>1. ~null /\ (to \notin Narrow => stored # <<>>)
    BY TheDelivery DEF Contents, Announced
  <2>2. chunk' = "next" => got' < Len(stored)
    BY <1>4, TheDelivery
  <2>3. chunk' = "last" => got' = Len(stored)
    BY <1>4, TheDelivery
  <2>4. chunk' \in {"next", "last"}
    BY <1>4
  <2>5. QED BY <2>1, <2>2, <2>3, <2>4, TheDelivery DEF Announced
<1>6. Returned'
  <2>1. to \in {"string", "wstring2", "vector", "wstring4", "warray4", "array", "warray2", "barray"}
    BY TheDelivery DEF Types, Narrow, Wide, Binary
  <2>2. QED BY <2>1, StringIsGot, WideString2IsGot, VectorIsGot, WideString4IsGot,
               WideArray4IsGot, ArrayIsGot, BinaryArrayIsGot
<1>7. Transferred'
  BY <1>6, TheDelivery DEF Transferred
<1>8. QED BY <1>2, <1>3, <1>5, <1>7 DEF Contents

\* What a callback knows.
Known ==
  /\ pc = "callback" /\ chunk \in {"null", "one", "first", "next", "last"}
  /\ pc' = (IF chunk \in {"null", "one", "last"} THEN "done" ELSE "get")
  /\ UNCHANGED <<from, to, cap, null, value, room, behind, nullable, before>>
  /\ UNCHANGED <<stored, tmp, got, known, chunk>>
  /\ IF nullable /\ chunk = "null" THEN isNull' = TRUE ELSE isNull' = FALSE /\ Result
  /\ null \in BOOLEAN /\ nullable \in BOOLEAN /\ room = 0
  /\ chunk = "null" <=> null
  /\ chunk \in {"null", "one"} => stored = <<>>
  /\ chunk = "first" => member = before /\ got = 0 /\ position = 0
  /\ chunk \in {"first", "next", "last"} /\ to \notin Narrow => stored # <<>>
  /\ chunk = "next" => got < Len(stored)
  /\ chunk = "last" => got = Len(stored)
  /\ chunk \in {"next", "last"} => Given /\ Returned
  /\ stored \in Seq(Int) /\ Len(stored) \in Nat /\ got \in Nat /\ got <= Len(stored)
  /\ size \in Nat /\ position \in Nat /\ cap \in Nat /\ cap >= 1
  /\ member \in Seq(Int) /\ Len(member) \in Nat /\ (to \in Arrays => Len(member) = cap)
  /\ tmp \in Seq(Int) /\ Len(tmp) \in Nat /\ Len(tmp) >= 2 /\ tmp[1] \in Int
  /\ Width = (IF to \in Wide THEN 2 ELSE 1) /\ to \in Types /\ before \in Seq(Int)

LEMMA TheCallKnows ==
  ASSUME IInv, Contents, Callback
  PROVE  Known
<1>1. /\ pc = "callback"
      /\ pc' = (IF chunk \in {"null", "one", "last"} THEN "done" ELSE "get")
      /\ UNCHANGED <<from, to, cap, null, value, room, behind, nullable, before>>
      /\ UNCHANGED <<stored, tmp, got, known, chunk>>
      /\ IF nullable /\ chunk = "null" THEN isNull' = TRUE ELSE isNull' = FALSE /\ Result
  BY DEF Callback, sender, receiver
<1>2. /\ chunk \in {"null", "one", "first", "next", "last"}
      /\ chunk = "first" => got = 0 /\ position = 0
      /\ chunk \in {"next", "last"} => Given
  BY <1>1 DEF IInv, Called, Steps
<1>3. /\ room = 0
      /\ chunk = "null" <=> null
      /\ chunk = "one" => stored = <<>>
      /\ chunk = "first" => member = before
      /\ chunk \in {"first", "next", "last"} /\ to \notin Narrow => stored # <<>>
      /\ chunk = "next" => got < Len(stored)
      /\ chunk = "last" => got = Len(stored)
      /\ chunk \in {"next", "last"} => Returned
      /\ before \in Seq(Int)
  BY <1>1 DEF Contents, Meant, Announced, Transferred
<1>4. null \in BOOLEAN /\ nullable \in BOOLEAN
  BY DEF IInv, Ends
<1>5. /\ stored \in Seq(Int) /\ Len(stored) \in Nat /\ got \in Nat /\ got <= Len(stored)
      /\ size \in Nat /\ position \in Nat
      /\ member \in Seq(Int) /\ Len(member) \in Nat /\ (to \in Arrays => Len(member) = cap)
  BY DEF IInv, Steps, Buffers
<1>6. /\ Width = (IF to \in Wide THEN 2 ELSE 1) /\ to \in Types
      /\ cap \in Nat /\ cap >= 1
  BY TheEnds DEF IInv
<1>7. tmp \in Seq(Int) /\ Len(tmp) \in Nat /\ Len(tmp) >= 2 /\ tmp[1] \in Int
  BY <1>1, TheBuffer DEF IInv, Buffers
<1>8. null => stored = <<>>
  <2> SUFFICES ASSUME null PROVE stored = <<>>
    OBVIOUS
  <2>1. value = <<>> /\ SentAs
    BY <1>1 DEF Contents, Meant, Sent
  <2>2. ~(Len(value) = cap)
    BY <1>6, <2>1
  <2>3. QED BY <1>3, <2>1, <2>2 DEF SentAs, SentWell, ReadsOn
<1>9. QED BY <1>1, <1>2, <1>3, <1>4, <1>5, <1>6, <1>7, <1>8 DEF Known

\* What a callback leaves.
Left == (pc' = "get" => Read') /\ (pc' = "done" => HeldAs')

\* No data, or NULL: nothing is in the member, or an empty array, or a null wrapper.
LEMMA NoDataAreHeld ==
  ASSUME Known, chunk \in {"null", "one"}
  PROVE  Left
<1>1. pc' = "done" /\ stored = <<>> /\ stored' = stored
  BY DEF Known
<1>2. CASE null /\ nullable
  BY <1>1, <1>2 DEF Known, Left, HeldAs
<1>3. CASE ~(null /\ nullable)
  <2>1. ~isNull' /\ Result
    BY <1>3 DEF Known
  <2>2. null' = null /\ nullable' = nullable /\ to' = to /\ cap' = cap /\ room' = room
    BY DEF Known
  <2>3. CASE to \in Arrays /\ to # "barray"
    <3>1. member' = Put(member, 0, <<Nul>>)
      BY <2>1, <2>3 DEF Result, ArrayResult, WideArray4Result, Arrays
    <3>2. <<Nul>> \in Seq(Int) /\ Len(<<Nul>>) = 1 /\ <<Nul>>[1] = Nul /\ 1 \in 1..1
      BY DEF Nul
    <3>3. Len(member) >= 1 /\ Len(member) \in Nat /\ member \in Seq(Int)
      BY <2>3 DEF Known
    <3>4. 0 + Len(<<Nul>>) <= Len(member) /\ 0 \in Nat
      BY <3>2, <3>3
    <3>5. Put(member, 0, <<Nul>>)[0 + 1] = Nul
      BY <3>2, <3>3, <3>4, PutItems
    <3>6. cap \in Nat /\ Len(stored) = 0
      BY <1>1 DEF Known
    <3>7. Min({cap, Len(stored)}) = 0
      <4>1. Min({cap, 0}) = (IF cap <= 0 THEN cap ELSE 0)
        <5>1. cap \in Int /\ 0 \in Int
          BY <3>6
        <5>2. QED BY <5>1, LeastOfTwo, Zenon
      <4>2. QED BY <3>6, <4>1
    <3>8. Truncated'
      BY <1>1, <2>2, <3>1, <3>5, <3>6, <3>7 DEF Truncated
    <3>9. HeldAs'
      BY <1>3, <2>1, <2>2, <2>3, <3>8 DEF HeldAs, Arrays
    <3>10. QED BY <1>1, <3>9 DEF Left
  <2>4. CASE to = "barray"
    <3>1. cap \in Nat /\ Len(stored) = 0 /\ to \in Arrays
      BY <1>1, <2>4 DEF Known, Arrays
    <3>2. Min({cap, Len(stored)}) = 0
      <4>1. Min({cap, 0}) = (IF cap <= 0 THEN cap ELSE 0)
        <5>1. cap \in Int /\ 0 \in Int
          BY <3>1
        <5>2. QED BY <5>1, LeastOfTwo, Zenon
      <4>2. QED BY <3>1, <4>1
    <3>3. Truncated'
      BY <1>1, <2>2, <2>4, <3>2 DEF Truncated
    <3>4. HeldAs'
      BY <1>3, <2>1, <2>2, <2>4, <3>3 DEF HeldAs, Arrays
    <3>5. QED BY <1>1, <3>4 DEF Left
  <2>5. CASE to \notin Arrays
    <3>1. to \in {"string", "wstring2", "wstring4", "vector"}
      BY <2>5 DEF Known, Types, Narrow, Wide, Binary, Arrays
    <3>2. member' = <<>>
      BY <2>1, <3>1
      DEF Result, StringResult, WideString2Result, WideString4Result, VectorResult
    <3>3. HeldAs'
      BY <1>1, <1>3, <2>1, <2>2, <3>1, <3>2 DEF HeldAs, Arrays
    <3>4. QED BY <1>1, <3>3 DEF Left
  <2>6. QED BY <2>3, <2>4, <2>5
<1>4. QED BY <1>2, <1>3

\* For the rest, what is held is in the member.
LEMMA DataAreHeld ==
  ASSUME Known, chunk = "last"
  PROVE  /\ ~isNull' /\ Result /\ pc' = "done" /\ got = Len(stored) /\ ~null /\ Given /\ Returned
         /\ UNCHANGED <<to, cap, null, nullable, room, before, stored, tmp, got, chunk>>
         /\ to \notin Arrays /\ to # "wstring4" /\ member' = stored => HeldAs'
         /\ to = "wstring4" /\ member' = before \o stored => HeldAs'
         /\ to \in Arrays /\ Truncated' => HeldAs'
<1>1. /\ ~isNull' /\ Result /\ pc' = "done" /\ got = Len(stored) /\ ~null /\ Given /\ Returned
      /\ UNCHANGED <<to, cap, null, nullable, room, before, stored, tmp, got, chunk>>
  BY DEF Known
<1>2. to = "wstring4" => to \notin Arrays /\ stored # <<>> /\ room = 0
  BY DEF Known, Arrays, Narrow
<1>3. QED BY <1>1, <1>2 DEF HeldAs

\* The callback is asked for more room.
LEMMA MoreIsWanted ==
  ASSUME Known, chunk \in {"first", "next"}
  PROVE  /\ Result /\ pc' = "get"
         /\ UNCHANGED <<to, cap, before, stored, tmp, got, chunk>>
BY DEF Known

\* What agrees with the first part of s agrees with s.
LEMMA ResizedSame ==
  ASSUME NEW s \in Seq(Int), NEW t \in Seq(Int), NEW m \in Nat, m <= Len(s), Same(s, t, m),
         NEW n \in Nat, m <= n
  PROVE  Same(Resize(s, n), t, m)
<1>1. \A i \in 1..n : i <= Len(s) => Resize(s, n)[i] = s[i]
  BY ResizedItems, Zenon
<1>2. ASSUME NEW i \in 1..m PROVE Resize(s, n)[i] = t[i]
  <2>1. i \in 1..n /\ i <= Len(s) /\ s[i] = t[i]
    BY DEF Same
  <2>2. QED BY <1>1, <2>1
<1>3. QED BY <1>2 DEF Same

\* What a callback leaves is the value, or the part of it that was returned.
LEMMA StringHolds ==
  ASSUME Known, to = "string", chunk \notin {"null", "one"}
  PROVE  Left
<1>1. /\ stored \in Seq(Int) /\ Len(stored) \in Nat /\ got \in Nat /\ got <= Len(stored)
      /\ size \in Nat /\ position \in Nat /\ chunk \in {"first", "next", "last"}
      /\ member \in Seq(Int) /\ Len(member) \in Nat /\ tmp \in Seq(Int)
      /\ Len(tmp) \in Nat /\ to' = to /\ stored' = stored /\ got' = got
  BY DEF Known
<1>2. chunk \in {"next", "last"} => StringReturned /\ StringGot
  BY DEF Known, Returned, Given
<1>3. CASE chunk = "first"
  <2>1. pc' = "get" /\ StringResult
    BY <1>3, MoreIsWanted DEF Result
  <2>2. position' \in {0, 1}
    BY <1>3, <2>1 DEF StringResult, Empty
  <2>3. Read'
    BY <1>1, <2>2 DEF Read
  <2>4. QED BY <2>1, <2>3 DEF Left
<1>4. CASE chunk = "next"
  <2>1. pc' = "get" /\ StringResult
    BY <1>4, MoreIsWanted DEF Result
  <2>2. CASE position = 1
    <3>1. /\ got = size /\ Same(tmp, stored, got) /\ size <= Len(tmp) /\ size = Short - 1
          /\ size <= Long /\ Long \in Nat
      BY <1>2, <1>4, <2>2, Sizes DEF StringReturned, StringGot
    <3>2. member' = Resize(SubSeq(tmp, 1, size), Long) /\ position' = size
      BY <1>4, <2>1, <2>2 DEF StringResult, Empty
    <3> DEFINE s == SubSeq(tmp, 1, size)
    <3>3. s \in Seq(Int) /\ Len(s) = size /\ \A i \in 1..size : s[i] = tmp[i]
      BY <1>1, <3>1, Beginning, Zenon
    <3>4. Same(s, stored, size)
      BY <3>1, <3>3 DEF Same
    <3> HIDE DEF s
    <3>5. Same(Resize(s, Long), stored, size)
      <4>1. size <= Len(s)
        BY <1>1, <3>3
      <4>2. QED BY <1>1, <3>1, <3>3, <3>4, <4>1, ResizedSame
    <3>6. Read'
      BY <1>1, <3>1, <3>2, <3>5 DEF Read, s
    <3>7. QED BY <2>1, <3>6 DEF Left
  <2>3. CASE position # 1
    <3>1. /\ position > 1 /\ got = position + size /\ got <= Len(member)
          /\ Same(member, stored, got)
      BY <1>1, <1>2, <1>4, <2>3 DEF StringReturned, StringGot
    <3>2. member' = Resize(member, 2 * Len(member)) /\ position' = position + size
      BY <1>4, <2>1, <2>3 DEF StringResult, Empty
    <3> DEFINE l == 2 * Len(member)
    <3>3. l \in Nat /\ got <= l
      BY <1>1, <3>1
    <3> HIDE DEF l
    <3>4. Same(Resize(member, l), stored, got)
      BY <1>1, <3>1, <3>3, ResizedSame
    <3>5. Read'
      BY <1>1, <3>1, <3>2, <3>4 DEF Read, l
    <3>6. QED BY <2>1, <3>5 DEF Left
  <2>4. QED BY <2>2, <2>3
<1>5. CASE chunk = "last"
  <2>1. StringResult /\ pc' = "done" /\ got = Len(stored)
    BY <1>5, DataAreHeld DEF Result
  <2>2. member' = (IF position = 1 THEN SubSeq(tmp, 1, size) ELSE Resize(member, position + size))
    BY <1>5, <2>1 DEF StringResult, Empty
  <2>3. member' = stored
    <3>1. CASE position = 1
      <4>1. got = size /\ Same(tmp, stored, got) /\ size <= Len(tmp)
        BY <1>2, <1>5, <3>1 DEF StringReturned, StringGot
      <4> DEFINE s == SubSeq(tmp, 1, size)
      <4>2. s \in Seq(Int) /\ Len(s) = size /\ \A i \in 1..size : s[i] = tmp[i]
        BY <1>1, <4>1, Beginning, Zenon
      <4>3. Same(s, stored, Len(stored))
        BY <2>1, <4>1, <4>2 DEF Same
      <4>4. member' = s
        BY <2>2, <3>1
      <4> HIDE DEF s
      <4>5. Len(s) = Len(stored)
        BY <2>1, <4>1, <4>2
      <4>6. QED BY <1>1, <4>2, <4>3, <4>4, <4>5, SameAll
    <3>2. CASE position # 1
      <4>1. got = position + size /\ got <= Len(member) /\ Same(member, stored, got)
        BY <1>2, <3>2, <1>5 DEF StringReturned
      <4>2. member' = Resize(member, Len(stored))
        BY <2>1, <2>2, <3>2, <4>1
      <4>3. Same(member', stored, Len(stored))
        BY <1>1, <2>1, <4>1, <4>2, ResizedSame
      <4>4. member' \in Seq(Int) /\ Len(member') = Len(stored)
        BY <1>1, <4>2, Resized
      <4>5. QED BY <1>1, <4>3, <4>4, SameAll
    <3>3. QED BY <3>1, <3>2
  <2>4. to \notin Arrays
    BY DEF Arrays
  <2>5. HeldAs'
    BY <1>5, <2>3, <2>4, DataAreHeld
  <2>6. QED BY <2>1, <2>5 DEF Left
<1>6. QED BY <1>1, <1>3, <1>4, <1>5

LEMMA WideString2Holds ==
  ASSUME Known, to = "wstring2", chunk \notin {"null", "one"}
  PROVE  Left
<1>1. /\ stored \in Seq(Int) /\ Len(stored) \in Nat /\ size \in Nat
      /\ chunk \in {"first", "next", "last"}
      /\ member \in Seq(Int) /\ Len(member) \in Nat /\ to' = to
  BY DEF Known
<1>2. CASE chunk \in {"first", "next"}
  <2>1. pc' = "get" /\ Read'
    BY <1>1, <1>2, MoreIsWanted DEF Read
  <2>2. QED BY <2>1 DEF Left
<1>3. CASE chunk = "last"
  <2>1. WideString2Result /\ pc' = "done" /\ got = Len(stored) /\ Returned
    BY <1>3, DataAreHeld DEF Result
  <2>2. size \div 2 = got /\ got <= Len(member) /\ Same(member, stored, got)
    BY <2>1 DEF Returned
  <2>3. member' = Resize(member, Len(stored))
    BY <1>3, <2>1, <2>2 DEF WideString2Result, Empty
  <2>4. Same(member', stored, Len(stored))
    BY <1>1, <2>1, <2>2, <2>3, ResizedSame
  <2>5. member' \in Seq(Int) /\ Len(member') = Len(stored)
    BY <1>1, <2>3, Resized
  <2>6. member' = stored
    BY <1>1, <2>4, <2>5, SameAll
  <2>7. to \notin Arrays
    BY DEF Arrays
  <2>8. HeldAs'
    BY <1>3, <2>6, <2>7, DataAreHeld
  <2>9. QED BY <2>1, <2>8 DEF Left
<1>4. QED BY <1>1, <1>2, <1>3

LEMMA VectorHolds ==
  ASSUME Known, to = "vector", chunk \notin {"null", "one"}
  PROVE  Left
<1>1. /\ stored \in Seq(Int) /\ Len(stored) \in Nat /\ chunk \in {"first", "next", "last"}
      /\ member \in Seq(Int) /\ to' = to /\ stored' = stored
  BY DEF Known
<1>2. CASE chunk = "first"
  <2>1. pc' = "get" /\ VectorResult
    BY <1>2, MoreIsWanted DEF Result
  <2>2. member' = Resize(member, Len(stored))
    BY <1>2, <2>1 DEF VectorResult, Empty
  <2>3. Len(member') = Len(stored)
    BY <1>1, <2>2, Resized
  <2>4. Read'
    BY <1>1, <2>3 DEF Read
  <2>5. QED BY <2>1, <2>4 DEF Left
<1>3. CASE chunk = "next"
  BY <1>3 DEF Known, Given
<1>4. CASE chunk = "last"
  <2>1. VectorResult /\ pc' = "done" /\ Returned
    BY <1>4, DataAreHeld DEF Result
  <2>2. member' = stored
    BY <1>4, <2>1 DEF VectorResult, Empty, Returned
  <2>3. to \notin Arrays
    BY DEF Arrays
  <2>4. HeldAs'
    BY <1>4, <2>2, <2>3, DataAreHeld
  <2>5. QED BY <2>1, <2>4 DEF Left
<1>5. QED BY <1>1, <1>2, <1>3, <1>4

LEMMA BinaryArrayHolds ==
  ASSUME Known, to = "barray", chunk \notin {"null", "one"}
  PROVE  Left
<1> DEFINE l == Lesser(Len(stored), cap)
<1>1. /\ stored \in Seq(Int) /\ Len(stored) \in Nat /\ chunk \in {"first", "next", "last"}
      /\ cap \in Nat /\ to' = to /\ stored' = stored /\ cap' = cap /\ got' = got
  BY DEF Known
<1>2. Min({Len(stored), cap}) = l /\ Min({cap, Len(stored)}) = l /\ l \in Nat
  <2> DEFINE n == Len(stored)
  <2>1. n \in Nat /\ n \in Int /\ cap \in Int /\ cap \in Nat
    BY <1>1
  <2> HIDE DEF n
  <2>2. /\ Min({n, cap}) = (IF n <= cap THEN n ELSE cap)
        /\ Min({cap, n}) = (IF cap <= n THEN cap ELSE n)
    BY <2>1, LeastOfTwo, Zenon
  <2>3. /\ Min({n, cap}) = Lesser(n, cap) /\ Min({cap, n}) = Lesser(n, cap)
        /\ Lesser(n, cap) \in Nat
    BY <2>1, <2>2 DEF Lesser
  <2>4. QED BY <2>3 DEF n
<1> HIDE DEF l
<1>3. CASE chunk = "first"
  <2>1. pc' = "get" /\ BinaryArrayResult
    BY <1>3, MoreIsWanted DEF Result
  <2>2. into' = "member" /\ at' = 0 /\ size' = l /\ got' = 0
    BY <1>1, <1>2, <1>3, <2>1 DEF BinaryArrayResult, Empty, Give, Known
  <2>3. Read'
    BY <1>1, <2>2 DEF Read, l
  <2>4. QED BY <2>1, <2>3 DEF Left
<1>4. chunk \in {"next", "last"} => Same(member, stored, l)
  BY DEF Known, Returned, l
<1>5. CASE chunk = "next"
  <2>1. pc' = "get" /\ BinaryArrayResult
    BY <1>5, MoreIsWanted DEF Result
  <2>2. into' = "tmp" /\ member' = member
    BY <1>5, <2>1 DEF BinaryArrayResult, Empty, Give
  <2>3. Read'
    BY <1>1, <1>4, <1>5, <2>2 DEF Read, l
  <2>4. QED BY <2>1, <2>3 DEF Left
<1>6. CASE chunk = "last"
  <2>1. BinaryArrayResult /\ pc' = "done"
    BY <1>6, DataAreHeld DEF Result
  <2>2. member' = member
    BY <1>6, <2>1 DEF BinaryArrayResult, Empty
  <2>3. Truncated'
    BY <1>1, <1>2, <1>4, <1>6, <2>2 DEF Truncated, Same
  <2>4. to \in Arrays
    BY DEF Arrays
  <2>5. HeldAs'
    BY <1>6, <2>3, <2>4, DataAreHeld
  <2>6. QED BY <2>1, <2>5 DEF Left
<1>7. QED BY <1>1, <1>3, <1>5, <1>6

\* Characters that are added one part after the other.
LEMMA Regrouped ==
  ASSUME NEW a \in Seq(Int), NEW b \in Seq(Int), NEW c \in Seq(Int)
  PROVE  (a \o b) \o c = a \o (b \o c)
BY ConcatAssociative

LEMMA WideString4Holds ==
  ASSUME Known, to = "wstring4", chunk \notin {"null", "one"}
  PROVE  Left
<1>1. /\ stored \in Seq(Int) /\ Len(stored) \in Nat /\ chunk \in {"first", "next", "last"}
      /\ got \in Nat /\ got <= Len(stored) /\ size \in Nat /\ tmp \in Seq(Int)
      /\ Len(tmp) \in Nat /\ before \in Seq(Int)
      /\ to' = to /\ stored' = stored /\ before' = before /\ got' = got
  BY DEF Known
<1>2. CASE chunk = "first"
  <2>1. pc' = "get" /\ WideString4Result
    BY <1>2, MoreIsWanted DEF Result
  <2>2. member' = before /\ got' = 0
    BY <1>1, <1>2, <2>1 DEF WideString4Result, Empty, Known
  <2>3. SubSeq(stored, 1, 0) = <<>> /\ before \o <<>> = before
    BY <1>1, SubSeqEmpty, ConcatEmptySeq
  <2>4. Read'
    BY <1>1, <2>2, <2>3 DEF Read
  <2>5. QED BY <2>1, <2>4 DEF Left
<1>3. chunk \in {"next", "last"} => member' = before \o SubSeq(stored, 1, got)
  <2> SUFFICES ASSUME chunk \in {"next", "last"}
               PROVE  member' = before \o SubSeq(stored, 1, got)
    OBVIOUS
  <2> DEFINE k == size \div 2
             m == got - k
             a == SubSeq(tmp, 1, k)
             b == SubSeq(stored, m + 1, got)
             c == SubSeq(stored, 1, m)
  <2>1. /\ InBuffer(k) /\ member = before \o c /\ k <= Len(tmp)
    BY DEF Known, Returned, Given
  <2>2. WideString4Result
    BY DEF Known, Result
  <2>3. member' = member \o a
    BY <2>2 DEF WideString4Result, Empty
  <2>4. k \in Nat
    BY <1>1, Halved
  <2> HIDE DEF k
  <2>5. m \in Nat /\ m <= got /\ got - m = k /\ k <= got
    BY <1>1, <2>1, <2>4 DEF InBuffer
  <2> HIDE DEF m
  <2>6. a \in Seq(Int) /\ Len(a) = k /\ \A i \in 1..k : a[i] = tmp[i]
    BY <1>1, <2>1, <2>4, Beginning, Zenon
  <2>7. b \in Seq(Int) /\ Len(b) = got - m /\ \A i \in 1..(got - m) : b[i] = stored[m + i]
    <3>1. stored \in Seq(Int) /\ got \in Nat /\ got <= Len(stored)
      BY <1>1
    <3>2. QED BY <2>5, <3>1, Behinds, Zenon
  <2>8. c \in Seq(Int)
    <3>1. stored \in Seq(Int) /\ m <= Len(stored)
      BY <1>1, <2>5
    <3>2. QED BY <2>5, <3>1, Beginning, Zenon
  <2>9. c \o b = SubSeq(stored, 1, got)
    BY <1>1, <2>5, PartsFollow, Zenon
  <2>10. \A i \in 1..k : tmp[i] = stored[m + i]
    BY <2>1 DEF InBuffer, m
  <2> HIDE DEF a, b, c
  <2>11. a = b
    BY <2>5, <2>6, <2>7, <2>10, SeqEqual
  <2>12. (before \o c) \o b = before \o (c \o b)
    <3>1. before \in Seq(Int)
      BY <1>1
    <3>2. QED BY <2>7, <2>8, <3>1, Regrouped, Zenon
  <2>13. QED BY <2>1, <2>3, <2>9, <2>11, <2>12
<1>4. CASE chunk = "next"
  <2>1. pc' = "get"
    BY <1>4, MoreIsWanted
  <2>2. Read'
    BY <1>1, <1>3, <1>4 DEF Read
  <2>3. QED BY <2>1, <2>2 DEF Left
<1>5. CASE chunk = "last"
  <2>1. pc' = "done" /\ got = Len(stored)
    BY <1>5, DataAreHeld
  <2>2. SubSeq(stored, 1, Len(stored)) = stored
    BY <1>1
  <2>3. HeldAs'
    BY <1>3, <1>5, <2>1, <2>2, DataAreHeld
  <2>4. QED BY <2>1, <2>3 DEF Left
<1>6. QED BY <1>1, <1>2, <1>4, <1>5

\* What holds of the numbers up to the smaller one.
LEMMA TruncatedBy ==
  ASSUME NEW m, cap \in Nat, Len(stored) \in Nat,
         Same(m, stored, Lesser(Len(stored), cap))
  PROVE  \A i \in 1..Min({cap, Len(stored)}) : m[i] = stored[i]
<1> DEFINE n == Len(stored)
<1>1. n \in Nat /\ n \in Int /\ cap \in Int
  OBVIOUS
<1>2. Same(m, stored, Lesser(n, cap))
  OBVIOUS
<1> HIDE DEF n
<1>3. Min({cap, n}) = (IF cap <= n THEN cap ELSE n)
  BY <1>1, LeastOfTwo, Zenon
<1>4. Min({cap, n}) = Lesser(n, cap)
  BY <1>1, <1>3 DEF Lesser
<1>5. \A i \in 1..Min({cap, n}) : m[i] = stored[i]
  BY <1>2, <1>4 DEF Same
<1>6. QED BY <1>5 DEF n

LEMMA WideArray4Holds ==
  ASSUME Known, to = "warray4", chunk \notin {"null", "one"}
  PROVE  Left
<1>1. /\ stored \in Seq(Int) /\ Len(stored) \in Nat /\ chunk \in {"first", "next", "last"}
      /\ got \in Nat /\ got <= Len(stored) /\ size \in Nat /\ tmp \in Seq(Int)
      /\ Len(tmp) \in Nat /\ cap \in Nat /\ cap >= 1 /\ member \in Seq(Int)
      /\ Len(member) = cap /\ position \in Nat
      /\ to' = to /\ stored' = stored /\ cap' = cap /\ got' = got
  BY DEF Known, Arrays
<1>2. CASE chunk = "first"
  <2>1. pc' = "get" /\ WideArray4Result
    BY <1>2, MoreIsWanted DEF Result
  <2>2. position' = 0 /\ got' = 0
    BY <1>1, <1>2, <2>1 DEF WideArray4Result, Empty, Known
  <2>3. Lesser(0, cap) = 0
    BY <1>1 DEF Lesser
  <2>4. Same(member', stored', 0)
    BY DEF Same
  <2>5. Read'
    BY <1>1, <2>2, <2>3, <2>4 DEF Read
  <2>6. QED BY <2>1, <2>5 DEF Left
<1>3. chunk \in {"next", "last"} =>
        /\ position' = Lesser(got, cap) /\ Same(member', stored, position')
        /\ got < cap => member'[got + 1] = Nul
  <2> SUFFICES ASSUME chunk \in {"next", "last"}
               PROVE  /\ position' = Lesser(got, cap) /\ Same(member', stored, position')
                      /\ got < cap => member'[got + 1] = Nul
    OBVIOUS
  <2> DEFINE k == size \div 2
  <2>1. /\ InBuffer(k) /\ k <= Len(tmp)
        /\ position = Lesser(got - k, cap) /\ Same(member, stored, position)
    BY DEF Known, Returned, Given
  <2>2. WideArray4Result
    BY DEF Known, Result
  <2>3. k \in Nat
    BY <1>1, Halved
  <2>4. CASE position < cap
    <3> DEFINE r == cap - position
               n == Min({k, r})
               d == SubSeq(tmp, 1, n)
               e == position + n < cap
               z == d \o (IF e THEN <<Nul>> ELSE <<>>)
    <3>1. member' = Put(member, position, z) /\ position' = position + n
      BY <2>2, <2>4 DEF WideArray4Result, Empty, Copied
    <3>2. r \in Nat /\ r \in Int /\ position + r = cap
      BY <1>1, <2>4
    <3> HIDE DEF k, r
    <3>3. n = (IF k <= r THEN k ELSE r)
      <4>1. k \in Int
        BY <2>3
      <4>2. QED BY <3>2, <4>1, LeastOfTwo, Zenon
    <3> HIDE DEF n
    <3>4. /\ n \in Nat /\ n <= k /\ n <= r /\ position = got - k /\ k <= got
          /\ position + n = Lesser(got, cap)
      <4>1. position = got - k /\ k <= got
        BY <1>1, <2>1, <2>3, <2>4 DEF InBuffer, Lesser
      <4>2. n \in Nat /\ n <= k /\ n <= r
        BY <2>3, <3>2, <3>3
      <4>3. position + n = Lesser(got, cap)
        BY <1>1, <2>3, <3>2, <3>3, <4>1 DEF Lesser
      <4>4. QED BY <4>1, <4>2, <4>3
    <3>5. d \in Seq(Int) /\ Len(d) = n /\ \A i \in 1..n : d[i] = tmp[i]
      <4>1. n <= Len(tmp)
        BY <1>1, <2>1, <2>3, <3>4
      <4>2. QED BY <1>1, <3>4, <4>1, Beginning, Zenon
    <3>6. e \in BOOLEAN
      OBVIOUS
    <3> HIDE DEF d, e
    <3>7. z \in Seq(Int) /\ Len(z) = (IF e THEN n + 1 ELSE n)
      BY <3>5, <3>6, Ended
    <3>8. (\A i \in 1..n : z[i] = tmp[i]) /\ (e => z[n + 1] = Nul)
      <4> DEFINE y == IF e THEN <<Nul>> ELSE <<>>
      <4>1. y \in Seq(Int) /\ (e => Len(y) = 1 /\ y[1] = Nul)
        BY DEF Nul
      <4> HIDE DEF y
      <4>2. /\ \A i \in 1..Len(d) : (d \o y)[i] = d[i]
            /\ \A i \in 1..Len(y) : (d \o y)[Len(d) + i] = y[i]
        BY <3>5, <4>1, JoinedItems, Zenon
      <4>3. z = d \o y
        BY DEF y
      <4> HIDE DEF z
      <4>4. QED BY <3>4, <3>5, <4>1, <4>2, <4>3
    <3> HIDE DEF z
    <3>9. position + Len(z) <= Len(member)
      BY <1>1, <3>2, <3>4, <3>7, SMTT(40) DEF e
    <3>10. /\ \A i \in 1..position : member'[i] = member[i]
           /\ \A i \in 1..Len(z) : member'[position + i] = z[i]
      <4>1. /\ \A i \in 1..position : Put(member, position, z)[i] = member[i]
            /\ \A i \in 1..Len(z) : Put(member, position, z)[position + i] = z[i]
        <5>1. member \in Seq(Int) /\ position \in Nat
          BY <1>1
        <5>2. QED BY <3>7, <3>9, <5>1, PutItems, Zenon
      <4>2. QED BY <3>1, <4>1
    <3>11. ASSUME NEW i \in 1..(position + n) PROVE member'[i] = stored[i]
      <4>1. CASE i <= position
        <5>1. i \in 1..position
          BY <4>1, <1>1
        <5>2. QED BY <2>1, <3>10, <5>1 DEF Same
      <4>2. CASE ~(i <= position)
        <5> DEFINE j == i - position
        <5>1. /\ j \in 1..n /\ j \in 1..k /\ j \in 1..Len(z) /\ position + j = i
              /\ got - k + j = i
          BY <1>1, <2>3, <3>4, <3>7, <4>2
        <5> HIDE DEF j
        <5>2. member'[i] = z[j] /\ z[j] = tmp[j] /\ tmp[j] = stored[got - k + j]
          BY <2>1, <3>8, <3>10, <5>1 DEF InBuffer
        <5>3. QED BY <5>1, <5>2
      <4>3. QED BY <4>1, <4>2
    <3>12. Same(member', stored, position')
      BY <3>1, <3>11 DEF Same
    <3>13. got < cap => member'[got + 1] = Nul
      <4> SUFFICES ASSUME got < cap PROVE member'[got + 1] = Nul
        OBVIOUS
      <4>1. position + n = got
        BY <1>1, <3>4 DEF Lesser
      <4>2. e /\ n + 1 \in 1..Len(z)
        BY <1>1, <3>4, <3>7, <4>1 DEF e
      <4>3. member'[position + (n + 1)] = Nul
        BY <3>8, <3>10, <4>2
      <4>4. position + (n + 1) = got + 1
        BY <1>1, <3>4, <4>1
      <4>5. QED BY <4>3, <4>4
    <3>14. QED BY <3>1, <3>4, <3>12, <3>13
  <2>5. CASE ~(position < cap)
    <3>1. member' = member /\ position' = position
      BY <2>2, <2>5 DEF WideArray4Result, Empty
    <3> HIDE DEF k
    <3>2. got - k >= cap /\ got >= cap /\ position = cap
      BY <1>1, <2>1, <2>3, <2>5 DEF Lesser
    <3>3. Lesser(got, cap) = cap
      BY <1>1, <3>2 DEF Lesser
    <3>4. ~(got < cap)
      BY <1>1, <3>2
    <3>5. QED BY <2>1, <3>1, <3>2, <3>3, <3>4
  <2>6. QED BY <2>4, <2>5
<1>4. CASE chunk = "next"
  <2>1. pc' = "get"
    BY <1>4, MoreIsWanted
  <2>2. Read'
    BY <1>1, <1>3, <1>4 DEF Read
  <2>3. QED BY <2>1, <2>2 DEF Left
<1>5. CASE chunk = "last"
  <2>1. pc' = "done" /\ got = Len(stored) /\ to \in Arrays
    BY <1>5, DataAreHeld DEF Arrays
  <2>2. /\ Same(member', stored, Lesser(Len(stored), cap))
        /\ Len(stored) < cap => member'[Len(stored) + 1] = Nul
    BY <1>3, <1>5, <2>1
  <2>3. \A i \in 1..Min({cap, Len(stored)}) : member'[i] = stored[i]
    BY <1>1, <2>2, TruncatedBy, Zenon
  <2>4. Truncated'
    BY <1>1, <2>2, <2>3 DEF Truncated
  <2>5. HeldAs'
    BY <1>5, <2>1, <2>4, DataAreHeld
  <2>6. QED BY <2>1, <2>5 DEF Left
<1>6. QED BY <1>1, <1>2, <1>4, <1>5

\* One character is put at the place of the 0 that ends an array or the data.
LEMMA PutOne ==
  ASSUME NEW s \in Seq(Int), NEW x \in Int, NEW n \in Nat, n < Len(s)
  PROVE  /\ \A i \in 1..n : Put(s, n, <<x>>)[i] = s[i]
         /\ Put(s, n, <<x>>)[n + 1] = x
<1> DEFINE d == <<x>>
<1>1. d \in Seq(Int) /\ Len(d) = 1 /\ d[1] = x
  OBVIOUS
<1>2. Len(s) \in Nat
  OBVIOUS
<1> HIDE DEF d
<1>3. n + Len(d) <= Len(s)
  BY <1>1, <1>2
<1>4. /\ \A i \in 1..n : Put(s, n, d)[i] = s[i]
      /\ \A i \in 1..Len(d) : Put(s, n, d)[n + i] = d[i]
  BY <1>1, <1>3, PutItems, Zenon
<1>5. 1 \in 1..Len(d)
  BY <1>1
<1>6. Put(s, n, d)[n + 1] = x
  BY <1>1, <1>4, <1>5
<1>7. QED BY <1>4, <1>6 DEF d

\* An array is ended by a 0 if there is space for one.
LEMMA ArrayHolds ==
  ASSUME Known, to \in {"array", "warray2"}, chunk \notin {"null", "one"}
  PROVE  Left
<1> DEFINE w == Width
<1>1. /\ stored \in Seq(Int) /\ Len(stored) \in Nat /\ chunk \in {"first", "next", "last"}
      /\ got \in Nat /\ got <= Len(stored) /\ size \in Nat /\ tmp \in Seq(Int)
      /\ tmp[1] \in Int /\ cap \in Nat /\ cap >= 1 /\ member \in Seq(Int)
      /\ Len(member) = cap /\ position \in Nat /\ w \in {1, 2} /\ Result
      /\ to' = to /\ stored' = stored /\ cap' = cap /\ got' = got
  BY DEF Known, Arrays
<1>2. Width' = w
  BY <1>1 DEF Width
<1>3. ArrayResult /\ to \in Arrays
  BY <1>1 DEF Result, Arrays
<1>4. chunk \in {"next", "last"} => ArrayReturned
  BY DEF Known, Returned
<1> HIDE DEF w
<1>5. CASE chunk = "first"
  <2>1. pc' = "get"
    BY <1>5, MoreIsWanted
  <2>2. into' = "member" /\ at' = 0 /\ size' = cap * Width /\ position' = 0 /\ got' = 0
    BY <1>1, <1>3, <1>5 DEF ArrayResult, Empty, Give, Known
  <2>3. ArrayRead'
    BY <1>1, <1>2, <2>2 DEF ArrayRead, w
  <2>4. Read'
    BY <1>1, <2>3 DEF Read
  <2>5. QED BY <2>1, <2>4 DEF Left
<1>6. cap - 1 \in Nat /\ cap - 1 < Len(member) /\ (cap - 1) + 1 = cap
  BY <1>1
<1>7. ASSUME Same(member, stored, cap - 1), tmp[1] = stored[cap]
      PROVE  Same(Put(member, cap - 1, <<tmp[1]>>), stored, cap)
  <2> DEFINE s == Put(member, cap - 1, <<tmp[1]>>)
  <2>1. (\A i \in 1..(cap - 1) : s[i] = member[i]) /\ s[(cap - 1) + 1] = tmp[1]
    BY <1>1, <1>6, PutOne
  <2> HIDE DEF s
  <2>2. ASSUME NEW i \in 1..cap PROVE s[i] = stored[i]
    <3>1. CASE i = cap
      BY <1>6, <1>7, <2>1, <3>1
    <3>2. CASE i # cap
      <4>1. i \in 1..(cap - 1)
        BY <1>1, <3>2
      <4>2. QED BY <1>7, <2>1, <4>1 DEF Same
    <3>3. QED BY <3>1, <3>2
  <2>3. QED BY <2>2 DEF Same, s
<1>8. CASE chunk = "next"
  <2>1. pc' = "get" /\ got < Len(stored)
    BY <1>8, MoreIsWanted DEF Known
  <2>2. /\ position' = Min({position + 1, 2})
        /\ member' = (IF position = 1 THEN Put(member, cap - 1, <<tmp[1]>>) ELSE member)
        /\ into' = "tmp" /\ at' = 0 /\ size' = TmpCapacity
    BY <1>3, <1>8 DEF ArrayResult, Empty, Give
  <2>3. position' = (IF position + 1 <= 2 THEN position + 1 ELSE 2)
    <3> DEFINE p == position + 1
    <3>1. p \in Int /\ 2 \in Int
      BY <1>1
    <3>2. position' = Min({p, 2})
      BY <2>2
    <3> HIDE DEF p
    <3>3. position' = (IF p <= 2 THEN p ELSE 2)
      BY <3>1, <3>2, LeastOfTwo, Zenon
    <3>4. QED BY <3>3 DEF p
  <2>4. ArrayRead'
    <3>1. CASE position = 0 /\ Same(member, stored, got) /\ got = cap - 1
      <4>1. position' = 1 /\ member' = member
        BY <2>2, <2>3, <3>1
      <4>2. Len(stored) >= cap
        BY <1>1, <2>1, <3>1
      <4>3. got' = cap' - 1 /\ Len(stored') >= cap' /\ Same(member', stored', cap' - 1)
        BY <1>1, <3>1, <4>1, <4>2
      <4>4. QED BY <2>2, <4>1, <4>3 DEF ArrayRead
    <3>2. CASE position = 1 /\ Len(stored) >= cap /\ Same(member, stored, cap - 1)
               /\ tmp[1] = stored[cap]
      <4>1. position' = 2 /\ member' = Put(member, cap - 1, <<tmp[1]>>)
        BY <2>2, <2>3, <3>2
      <4>2. Same(member', stored, cap)
        BY <1>7, <3>2, <4>1
      <4>3. Len(stored') >= cap' /\ Same(member', stored', cap')
        BY <1>1, <3>2, <4>2
      <4>4. QED BY <2>2, <4>1, <4>3 DEF ArrayRead
    <3>3. CASE position = 2 /\ Len(stored) >= cap /\ Same(member, stored, cap)
      <4>1. position' = 2 /\ member' = member
        BY <2>2, <2>3, <3>3
      <4>2. Len(stored') >= cap' /\ Same(member', stored', cap')
        BY <1>1, <3>3, <4>1
      <4>3. QED BY <2>2, <4>1, <4>2 DEF ArrayRead
    <3>4. QED BY <1>4, <1>8, <3>1, <3>2, <3>3 DEF ArrayReturned
  <2>5. Read'
    BY <1>1, <2>4 DEF Read
  <2>6. QED BY <2>1, <2>5 DEF Left
<1>9. CASE chunk = "last"
  <2>1. pc' = "done" /\ got = Len(stored)
    BY <1>9, DataAreHeld
  <2>2. member' = (CASE position = 0 /\ size \div Width < cap ->
                          Put(member, size \div Width, <<Nul>>)
                     [] position = 1 -> Put(member, cap - 1, <<tmp[1]>>)
                     [] OTHER -> member)
    BY <1>3, <1>9 DEF ArrayResult, Empty
  <2>3. Truncated'
    <3>1. CASE /\ position = 0 /\ Same(member, stored, got)
               /\ got < cap /\ size \div Width = got
      <4>1. member' = Put(member, got, <<Nul>>)
        BY <2>2, <3>1
      <4>2. (\A i \in 1..got : member'[i] = member[i]) /\ member'[got + 1] = Nul
        <5>1. got < Len(member) /\ Nul \in Int
          BY <1>1, <3>1 DEF Nul
        <5>2. /\ \A i \in 1..got : Put(member, got, <<Nul>>)[i] = member[i]
              /\ Put(member, got, <<Nul>>)[got + 1] = Nul
          <6>1. member \in Seq(Int) /\ got \in Nat
            BY <1>1
          <6>2. QED BY <5>1, <6>1, PutOne, Zenon
        <5>3. QED BY <4>1, <5>2
      <4>3. Same(member', stored, Lesser(Len(stored), cap))
        BY <1>1, <2>1, <3>1, <4>2 DEF Same, Lesser
      <4>4. \A i \in 1..Min({cap, Len(stored)}) : member'[i] = stored[i]
        BY <1>1, <4>3, TruncatedBy, Zenon
      <4>5. QED BY <1>1, <2>1, <4>2, <4>4 DEF Truncated
    <3>2. CASE Len(stored) >= cap /\ Same(member', stored, cap)
      <4>1. Same(member', stored, Lesser(Len(stored), cap)) /\ ~(Len(stored) < cap)
        BY <1>1, <3>2 DEF Same, Lesser
      <4>2. \A i \in 1..Min({cap, Len(stored)}) : member'[i] = stored[i]
        BY <1>1, <4>1, TruncatedBy, Zenon
      <4>3. QED BY <1>1, <4>1, <4>2 DEF Truncated
    <3>3. CASE position = 1 /\ Len(stored) >= cap /\ Same(member, stored, cap - 1)
               /\ tmp[1] = stored[cap]
      <4>1. member' = Put(member, cap - 1, <<tmp[1]>>)
        BY <2>2, <3>3
      <4>2. QED BY <1>7, <3>2, <3>3, <4>1
    <3>4. CASE position = 2 /\ Len(stored) >= cap /\ Same(member, stored, cap)
      <4>1. member' = member
        BY <2>2, <3>4
      <4>2. QED BY <3>2, <3>4, <4>1
    <3>5. QED BY <1>4, <1>9, <3>1, <3>3, <3>4 DEF ArrayReturned
  <2>4. HeldAs'
    BY <1>3, <1>9, <2>3, DataAreHeld
  <2>5. QED BY <2>1, <2>4 DEF Left
<1>10. QED BY <1>1, <1>5, <1>8, <1>9

LEMMA CallbackTells == IInv /\ Contents /\ Callback => Contents'
<1> SUFFICES ASSUME IInv, Contents, Callback PROVE Contents'
  OBVIOUS
<1>1. Known
  BY TheCallKnows
<1>2. Left
  <2>1. to \in {"string", "wstring2", "vector", "wstring4", "warray4", "array", "warray2", "barray"}
    BY <1>1 DEF Known, Types, Narrow, Wide, Binary
  <2>2. QED BY <1>1, <2>1, NoDataAreHeld, StringHolds, WideString2Holds, VectorHolds,
               WideString4Holds, WideArray4Holds, ArrayHolds, BinaryArrayHolds
<1>3. /\ pc = "callback" /\ pc' = (IF chunk \in {"null", "one", "last"} THEN "done" ELSE "get")
      /\ UNCHANGED <<from, to, cap, null, value, room, behind, nullable, before>>
      /\ UNCHANGED <<stored, chunk>>
  BY <1>1 DEF Known
<1>4. before' \in Seq(Int) /\ Sent'
  BY <1>3, NothingSent
<1>5. Meant'
  BY <1>1, <1>3 DEF Contents, Meant
<1>6. Announced'
  BY <1>3 DEF Contents, Announced
<1>7. Transferred'
  BY <1>2, <1>3 DEF Left, Transferred
<1>8. QED BY <1>4, <1>5, <1>6, <1>7 DEF Contents

LEMMA LeastIs ==
  ASSUME NEW S \in SUBSET Int, NEW m \in S, \A y \in S : m <= y
  PROVE  Min(S) = m
<1> DEFINE P(x) == x \in S /\ \A y \in S : x <= y
<1>1. P(m)
  OBVIOUS
<1>2. \A x : P(x) => x = m
  OBVIOUS
<1>3. Min(S) = CHOOSE x : P(x)
  BY DEF Min
<1> HIDE DEF P
<1>4. P(Min(S))
  BY <1>1, <1>3
<1>5. QED BY <1>2, <1>4

LEMMA EqualParts ==
  ASSUME NEW s \in Seq(Int), NEW t \in Seq(Int), NEW n \in Nat, n <= Len(s), n <= Len(t),
         Same(s, t, n)
  PROVE  SubSeq(s, 1, n) = SubSeq(t, 1, n)
<1> DEFINE a == SubSeq(s, 1, n)
           b == SubSeq(t, 1, n)
<1>1. a \in Seq(Int) /\ Len(a) = n /\ \A i \in 1..n : a[i] = s[i]
  BY Beginning, Zenon
<1>2. b \in Seq(Int) /\ Len(b) = n /\ \A i \in 1..n : b[i] = t[i]
  BY Beginning, Zenon
<1> HIDE DEF a, b
<1>3. \A i \in 1..n : a[i] = b[i]
  BY <1>1, <1>2 DEF Same
<1>4. a = b
  BY <1>1, <1>2, <1>3, SeqEqual
<1>5. QED BY <1>4 DEF a, b

\* Up to the first 0 there is the value.
LEMMA ArrayImageIsTheValue ==
  ASSUME Ends, Meant, from \in Arrays, room # 0
  PROVE  ArrayImage = SubSeq(value, 1, Min({Len(value), room}))
<1> DEFINE v == Len(value)
           E == {i \in DOMAIN Memory : Memory[i] = Nul} \cup {cap + 1}
           k == Min(E) - 1
           n == Min({k, cap, room})
<1>1. /\ Memory \in Seq(Int) /\ Len(Memory) \in Nat /\ Memory[Len(Memory)] = Nul
      /\ v \in Nat /\ v <= cap /\ cap \in Nat /\ room \in Nat /\ value \in Seq(Int)
  BY TheMemory, TheEnds DEF Ends
<1>2. \A i \in 1..v : value[i] # Nul /\ Memory[i] = value[i]
  BY TheValueInMemory DEF Meant
<1>3. Len(Memory) = v + 1
  <2>1. Len(Memory) = v + 1 + (IF v < cap THEN 0 ELSE behind)
    BY TheValueInMemory
  <2>2. behind = 0
    BY DEF Meant
  <2> HIDE DEF v
  <2>3. QED BY <1>1, <2>1, <2>2
<1> HIDE DEF v
<1>4. Min(E) = v + 1
  <2>1. DOMAIN Memory = 1..(v + 1)
    BY <1>1, <1>3
  <2>2. E \in SUBSET Int /\ v + 1 \in E
    BY <1>1, <1>3, <2>1
  <2>3. ASSUME NEW i \in E PROVE v + 1 <= i
    <3>1. CASE i = cap + 1
      BY <1>1, <3>1
    <3>2. CASE i \in 1..(v + 1) /\ Memory[i] = Nul
      <4>1. i \notin 1..v
        BY <1>2, <3>2
      <4>2. QED BY <1>1, <3>2, <4>1
    <3>3. QED BY <2>1, <3>1, <3>2
  <2> HIDE DEF E
  <2>4. QED BY <2>2, <2>3, LeastIs
<1> HIDE DEF E
<1>5. k = v
  BY <1>1, <1>4
<1> HIDE DEF k
<1>6. n = Min({v, room}) /\ n \in Nat /\ n <= v
  <2>1. /\ Min({v, cap, room}) \in {v, cap, room}
        /\ Min({v, cap, room}) <= v /\ Min({v, cap, room}) <= cap /\ Min({v, cap, room}) <= room
    <3>1. v \in Int /\ cap \in Int /\ room \in Int
      BY <1>1
    <3>2. QED BY <3>1, LeastOfThree, Zenon
  <2>2. Min({v, room}) = (IF v <= room THEN v ELSE room)
    <3>1. v \in Int /\ room \in Int
      BY <1>1
    <3>2. QED BY <3>1, LeastOfTwo, Zenon
  <2>3. n = Min({v, cap, room})
    BY <1>5
  <2> HIDE DEF n
  <2>4. QED BY <1>1, <2>1, <2>2, <2>3
<1>7. ArrayImage = SubSeq(Memory, 1, n)
  BY DEF ArrayImage, n, k, E
<1> HIDE DEF n
<1>8. SubSeq(Memory, 1, n) = SubSeq(value, 1, n)
  <2>1. Same(Memory, value, n)
    <3>1. ASSUME NEW i \in 1..n PROVE Memory[i] = value[i]
      <4>1. i \in 1..v
        BY <1>1, <1>6
      <4>2. QED BY <1>2, <4>1
    <3>2. QED BY <3>1 DEF Same
  <2>2. n <= Len(Memory) /\ n <= Len(value)
    BY <1>1, <1>3, <1>6 DEF v
  <2>3. QED BY <1>1, <1>6, <2>1, <2>2, EqualParts
<1>9. QED BY <1>6, <1>7, <1>8 DEF v

\* Short data go through an image, which has what fits.
LEMMA StoreTells == IInv /\ Contents /\ Store => Contents'
<1> SUFFICES ASSUME IInv, Contents, Store PROVE Contents'
  OBVIOUS
<1> DEFINE image == SubSeq(value, 1, Min({Len(value), room}))
<1>1. /\ pc = "store" /\ pc' = "take"
      /\ stored' = (CASE null -> <<>>
                      [] ~null /\ from = "barray" -> BytesImage
                      [] ~null /\ from \in Arrays \ {"barray"} -> ArrayImage
                      [] ~null /\ from \notin Arrays -> StringImage)
      /\ UNCHANGED <<from, to, cap, null, value, room, behind, nullable, before>>
  BY DEF Store, sender, receiver
<1>2. room # 0 /\ (null => value = <<>>) /\ Ends /\ Meant
  BY <1>1 DEF Contents, Meant, IInv
<1>3. null \in BOOLEAN /\ room \in Nat
  BY <1>2 DEF Ends
<1>4. stored' = image
  <2>1. CASE null
    <3>1. Len(value) = 0 /\ stored' = <<>>
      BY <1>1, <1>2, <2>1
    <3>2. Min({0, room}) = 0
      <4>1. Min({0, room}) = (IF 0 <= room THEN 0 ELSE room)
        <5>1. 0 \in Int /\ room \in Int
          BY <1>3
        <5>2. QED BY <5>1, LeastOfTwo, Zenon
      <4>2. QED BY <1>3, <4>1
    <3>3. SubSeq(value, 1, 0) = <<>>
      BY SubSeqEmpty
    <3>4. QED BY <3>1, <3>2, <3>3
  <2>2. CASE ~null /\ from = "barray"
    <3>1. Len(value) = cap
      BY <1>2, <2>2 DEF Ends
    <3>2. stored' = BytesImage
      BY <1>1, <2>2 DEF Arrays
    <3>3. QED BY <3>1, <3>2 DEF BytesImage
  <2>3. CASE ~null /\ from \in Arrays /\ from # "barray"
    <3>1. stored' = ArrayImage
      BY <1>1, <2>3
    <3>2. QED BY <1>2, <2>3, <3>1, ArrayImageIsTheValue
  <2>4. CASE ~null /\ from \notin Arrays
    <3>1. from # "barray"
      BY <2>4 DEF Arrays
    <3>2. QED BY <1>1, <2>4, <3>1 DEF StringImage
  <2>5. QED BY <2>1, <2>2, <2>3, <2>4, Zenon
<1> HIDE DEF image
<1>5. SentAs'
  BY <1>1, <1>2, <1>4 DEF SentAs, SentWell, ReadsOn, image
<1>6. before' \in Seq(Int)
  BY <1>1 DEF Contents
<1>7. Meant'
  BY <1>1, <1>2 DEF Meant
<1>8. Sent' /\ Announced' /\ Transferred'
  BY <1>1, <1>5 DEF Sent, Announced, Transferred
<1>9. QED BY <1>6, <1>7, <1>8 DEF Contents

LEMMA TakeTells == IInv /\ Contents /\ Take => Contents'
<1> SUFFICES ASSUME IInv, Contents, Take PROVE Contents'
  OBVIOUS
<1> DEFINE l == Len(stored)
           f == Fitting
<1>1. /\ pc = "take" /\ pc' = "done"
      /\ isNull' = (null /\ nullable)
      /\ member' = (CASE isNull' -> member
                      [] ~isNull' /\ to = "barray" -> BytesValue
                      [] ~isNull' /\ to \in Arrays \ {"barray"} -> ArrayValue
                      [] ~isNull' /\ to \notin Arrays -> StringValue)
      /\ UNCHANGED <<from, to, cap, null, value, room, behind, nullable, before>>
      /\ UNCHANGED stored
  BY DEF Take, sender, receiver
<1>2. /\ null \in BOOLEAN /\ nullable \in BOOLEAN /\ cap \in Nat /\ cap >= 1
      /\ stored \in Seq(Int) /\ l \in Nat
      /\ member \in Seq(Int) /\ (to \in Arrays => Len(member) = cap)
  BY TheEnds DEF IInv, Ends, Steps, Buffers
<1>3. room # 0 /\ (null => value = <<>>)
  BY <1>1 DEF Contents, Meant
<1>4. before' \in Seq(Int) /\ Sent' /\ SentAs
  BY <1>1, NothingSent
<1>5. null => l = 0
  <2> SUFFICES ASSUME null PROVE l = 0
    OBVIOUS
  <2>1. value = <<>> /\ Len(value) = 0
    BY <1>3
  <2>2. stored = SubSeq(value, 1, Min({0, room}))
    BY <1>3, <1>4, <2>1 DEF SentAs, SentWell, ReadsOn
  <2>3. Min({0, room}) = 0
    <3>1. room \in Nat
      BY DEF IInv, Ends
    <3>2. Min({0, room}) = (IF 0 <= room THEN 0 ELSE room)
      <4>1. 0 \in Int /\ room \in Int
        BY <3>1
      <4>2. QED BY <4>1, LeastOfTwo, Zenon
    <3>3. QED BY <3>1, <3>2
  <2>4. SubSeq(value, 1, 0) = <<>>
    BY SubSeqEmpty
  <2>5. QED BY <2>2, <2>3, <2>4
<1>6. f \in Seq(Int) /\ Len(f) = Lesser(l, cap) /\ \A i \in 1..Len(f) : f[i] = stored[i]
  <2> DEFINE n == Min({l, cap})
  <2>1. n = (IF l <= cap THEN l ELSE cap)
    <3>1. l \in Int /\ cap \in Int
      BY <1>2
    <3> HIDE DEF l
    <3>2. QED BY <3>1, LeastOfTwo, Zenon
  <2>2. f = SubSeq(stored, 1, n)
    BY DEF Fitting
  <2> HIDE DEF n, f
  <2>3. n \in Nat /\ n <= Len(stored) /\ n = Lesser(l, cap)
    BY <1>2, <2>1 DEF Lesser
  <2>4. /\ SubSeq(stored, 1, n) \in Seq(Int) /\ Len(SubSeq(stored, 1, n)) = n
        /\ \A i \in 1..n : SubSeq(stored, 1, n)[i] = stored[i]
    BY <1>2, <2>3, Beginning, Zenon
  <2>5. QED BY <2>2, <2>3, <2>4
<1> HIDE DEF l, f
<1>7. Lesser(l, cap) \in Nat /\ Lesser(l, cap) <= cap /\ (l < cap => Lesser(l, cap) = l)
  BY <1>2 DEF Lesser
<1>8. ASSUME Same(member', stored, Lesser(l, cap)), to \in Arrays,
             to # "barray" /\ l < cap => member'[l + 1] = Nul
      PROVE  Truncated'
  <2>1. \A i \in 1..Min({cap, Len(stored)}) : member'[i] = stored[i]
    BY <1>2, <1>8, TruncatedBy, Zenon DEF l
  <2>2. QED BY <1>1, <1>8, <2>1 DEF Truncated, l
<1>9. CASE isNull'
  <2>1. HeldAs'
    BY <1>1, <1>2, <1>9 DEF HeldAs
  <2>2. Meant' /\ Announced' /\ Transferred'
    BY <1>1, <1>3, <2>1 DEF Contents, Meant, Announced, Transferred
  <2>3. QED BY <1>4, <2>2 DEF Contents
<1>10. CASE ~isNull'
  <2>1. ~(null' /\ nullable') /\ room' # 0
    BY <1>1, <1>3, <1>10
  <2>2. CASE to = "barray"
    <3>1. member' = BytesValue /\ to \in Arrays
      BY <1>1, <1>10, <2>2 DEF Arrays
    <3>2. Same(member', stored, Lesser(l, cap))
      <4>1. CASE null
        <5>1. Lesser(l, cap) = 0
          BY <1>2, <1>5, <4>1 DEF Lesser
        <5>2. QED BY <5>1 DEF Same
      <4>2. CASE ~null
        <5>1. member' = Put(member, 0, f)
          BY <3>1, <4>2 DEF BytesValue, f
        <5>2. 0 + Len(f) <= Len(member)
          BY <1>2, <1>6, <1>7, <3>1
        <5>3. \A i \in 1..Len(f) : Put(member, 0, f)[0 + i] = f[i]
          BY <1>2, <1>6, <5>2, PutItems
        <5>4. QED BY <1>6, <1>7, <5>1, <5>3 DEF Same
      <4>3. QED BY <1>2, <4>1, <4>2
    <3>3. Truncated'
      BY <1>8, <2>2, <3>1, <3>2
    <3>4. HeldAs'
      BY <1>1, <1>10, <2>1, <3>1, <3>3 DEF HeldAs
    <3>5. Meant' /\ Announced' /\ Transferred'
      BY <1>1, <1>3, <3>4 DEF Contents, Meant, Announced, Transferred
    <3>6. QED BY <1>4, <3>5 DEF Contents
  <2>3. CASE to \in Arrays /\ to # "barray"
    <3> DEFINE e == l < cap
               y == IF e THEN <<Nul>> ELSE <<>>
               z == f \o y
    <3>1. member' = Put(member, 0, z)
      BY <1>1, <1>10, <2>3 DEF ArrayValue, f, l
    <3>2. y \in Seq(Int) /\ Len(y) = (IF e THEN 1 ELSE 0) /\ (e => y[1] = Nul)
      BY DEF Nul
    <3> HIDE DEF y
    <3>3. z \in Seq(Int) /\ Len(z) = Len(f) + Len(y)
      BY <1>6, <3>2, Joined, Zenon
    <3>4. /\ \A i \in 1..Len(f) : z[i] = f[i]
          /\ \A i \in 1..Len(y) : z[Len(f) + i] = y[i]
      BY <1>6, <3>2, JoinedItems, Zenon
    <3> HIDE DEF z
    <3>5. 0 + Len(z) <= Len(member) /\ 0 \in Nat
      BY <1>2, <1>6, <1>7, <2>3, <3>2, <3>3
    <3>6. \A i \in 1..Len(z) : Put(member, 0, z)[0 + i] = z[i]
      BY <1>2, <3>3, <3>5, PutItems
    <3>7. Same(member', stored, Lesser(l, cap))
      <4>1. ASSUME NEW i \in 1..Lesser(l, cap) PROVE member'[i] = stored[i]
        <5>1. i \in 1..Len(f) /\ i \in 1..Len(z) /\ 0 + i = i
          BY <1>6, <1>7, <3>2, <3>3
        <5>2. QED BY <1>6, <3>1, <3>4, <3>6, <5>1
      <4>2. QED BY <4>1 DEF Same
    <3>8. l < cap => member'[l + 1] = Nul
      <4> SUFFICES ASSUME l < cap PROVE member'[l + 1] = Nul
        OBVIOUS
      <4>1. /\ e /\ Len(f) = l /\ Len(y) = 1 /\ 1 \in 1..Len(y)
            /\ l + 1 \in 1..Len(z) /\ 0 + (l + 1) = l + 1
        BY <1>2, <1>6, <1>7, <3>2, <3>3
      <4>2. z[l + 1] = Nul
        BY <3>2, <3>4, <4>1
      <4>3. QED BY <3>1, <3>6, <4>1, <4>2
    <3>9. Truncated'
      BY <1>8, <2>3, <3>7, <3>8
    <3>10. HeldAs'
      BY <1>1, <1>10, <2>1, <2>3, <3>9 DEF HeldAs
    <3>11. Meant' /\ Announced' /\ Transferred'
      BY <1>1, <1>3, <3>10 DEF Contents, Meant, Announced, Transferred
    <3>12. QED BY <1>4, <3>11 DEF Contents
  <2>4. CASE to \notin Arrays
    <3>1. to # "barray"
      BY <2>4 DEF Arrays
    <3>2. member' = stored
      BY <1>1, <1>10, <2>4, <3>1 DEF StringValue
    <3>3. HeldAs'
      BY <1>1, <1>10, <2>1, <2>4, <3>2 DEF HeldAs
    <3>4. Meant' /\ Announced' /\ Transferred'
      BY <1>1, <1>3, <3>3 DEF Contents, Meant, Announced, Transferred
    <3>5. QED BY <1>4, <3>4 DEF Contents
  <2>5. QED BY <2>2, <2>3, <2>4
<1>11. QED BY <1>9, <1>10

LEMMA StutterTells == Contents /\ UNCHANGED vars => Contents'
<1> SUFFICES ASSUME Contents, UNCHANGED vars PROVE Contents'
  OBVIOUS
<1>1. /\ UNCHANGED <<from, to, cap, null, value, room, behind, nullable, before>>
      /\ UNCHANGED <<pc, position, stored, member, isNull, tmp, got, known>>
      /\ UNCHANGED <<chunk, into, at, size>>
  BY DEF vars, sender, receiver
<1>2. Meant' /\ before' \in Seq(Int)
  BY <1>1 DEF Contents, Meant
<1>3. Sent'
  BY <1>1 DEF Contents, Sent, SentSoFar, SentAs, SentWell, ReadsOn, Memory
<1>4. Announced'
  BY <1>1 DEF Contents, Announced
<1>5. Transferred'
  <2>1. Read' = Read
    BY <1>1 DEF Read, ArrayRead, Width
  <2>2. Returned' = Returned
    BY <1>1 DEF Returned, StringReturned, InBuffer, ArrayReturned, Width
  <2>3. HeldAs' = HeldAs
    BY <1>1 DEF HeldAs, Truncated
  <2>4. QED BY <1>1, <2>1, <2>2, <2>3 DEF Contents, Transferred
<1>6. QED BY <1>2, <1>3, <1>4, <1>5 DEF Contents

LEMMA NextTells == IInv /\ Contents /\ [Next]_vars => Contents'
BY SendNullTells, SendWholeTells, SendWideStringTells, SendWideArrayTells, DescribeTells,
   CallbackTells, GetDataTells, StoreTells, TakeTells, StutterTells DEF Next

------------------------------------------------------------------------------
\* Numbers.

LEMMA Divided ==
  ASSUME NEW a \in Int, NEW b \in Nat, b > 0
  PROVE  /\ a \div b \in Int /\ a % b \in Int /\ 0 <= a % b /\ a % b < b
         /\ ((a \div b) * b) + (a % b) = a
OBVIOUS

\* A number below b * k has less than k units.
LEMMA FewerUnits ==
  ASSUME NEW a \in Nat, NEW b \in Nat, b > 0, NEW k \in Nat, a < k * b
  PROVE  a \div b \in Nat /\ a \div b < k
OBVIOUS

\* Money is put together again from its two words.
LEMMA TwoWords ==
  ASSUME NEW v \in Int
  PROVE  MoneyUnits(MoneyImage(v)) = v
<1>1. Word \in Nat /\ Word > 0
  BY ValuesAssumption
<1>2. ((v \div Word) * Word) + (v % Word) = v
  BY <1>1, Divided
<1>3. QED BY <1>2 DEF MoneyUnits, MoneyImage

\* A number below the fourth power of the base is put together from four bytes.
LEMMA FourBytes ==
  ASSUME NEW v \in 0..(ByteBase * ByteBase * ByteBase * ByteBase - 1)
  PROVE  RowversionValue(RowversionImage(v)) = v
<1> DEFINE B == ByteBase
           a == v \div B
           b == a \div B
           c == b \div B
           s == <<v, a, b, c>>
           y == Bytes(v)
<1>1. B \in Nat /\ B > 0
  BY ValuesAssumption
<1>2. v \in Nat /\ v < B * B * B * B /\ B * B * B \in Nat /\ B * B \in Nat
  BY <1>1
<1> HIDE DEF B
<1>3. a \in Nat /\ a < B * B * B
  BY <1>1, <1>2, FewerUnits
<1>4. v = (a * B) + (v % B)
  BY <1>1, <1>2, Divided
<1> HIDE DEF a
<1>5. b \in Nat /\ b < B * B
  BY <1>1, <1>2, <1>3, FewerUnits
<1>6. a = (b * B) + (a % B)
  BY <1>1, <1>3, Divided
<1> HIDE DEF b
<1>7. c \in Nat /\ c < B
  BY <1>1, <1>5, FewerUnits
<1>8. b = (c * B) + (b % B)
  BY <1>1, <1>5, Divided
<1> HIDE DEF c
<1>9. c % B = c
  BY <1>1, <1>7
<1>10. y = [i \in 1..4 |-> s[i] % B]
  BY DEF Bytes, a, b, c, B
<1>11. y[1] = v % B /\ y[2] = a % B /\ y[3] = b % B /\ y[4] = c % B /\ Len(y) = 4
  BY <1>10
<1> HIDE DEF y
<1> DEFINE r == RowversionImage(v)
<1>12. r = [i \in 1..Len(y) |-> y[(Len(y) - i) + 1]]
  BY DEF RowversionImage, Reverse, y
<1>13. r[1] = y[4] /\ r[2] = y[3] /\ r[3] = y[2] /\ r[4] = y[1]
  BY <1>11, <1>12
<1> HIDE DEF r
<1>14. RowversionValue(r) = ((r[1] * B + r[2]) * B + r[3]) * B + r[4]
  BY DEF RowversionValue, B
<1>15. RowversionValue(r) = v
  BY <1>4, <1>6, <1>8, <1>9, <1>11, <1>13, <1>14
<1>16. QED BY <1>15 DEF r

LEMMA AnyNumber ==
  ASSUME NEW n \in Numbers
  PROVE  n.kind \in NumberKinds /\ n.number \in Int /\ n.null \in BOOLEAN
BY ValuesAssumption DEF Numbers

\* What is made of the image of a number is the number.
LEMMA NumberIsBack ==
  ASSUME NEW n \in Numbers
  PROVE  Value(n, Image(n)) = (IF n.null THEN 0 ELSE n.number)
<1> DEFINE v == n.number
<1>1. n.kind \in NumberKinds /\ v \in Int /\ n.null \in BOOLEAN
  BY AnyNumber
<1>2. CASE n.null
  BY <1>2 DEF Value
<1>3. CASE ~n.null /\ n.kind = "smallmoney_int"
  BY <1>3 DEF Image, Value
<1>4. CASE ~n.null /\ n.kind = "money_int"
  <2>1. Image(n) = MoneyImage(v) /\ \A i : Value(n, i) = MoneyUnits(i)
    BY <1>4 DEF Image, Value
  <2>2. MoneyUnits(MoneyImage(v)) = v
    BY <1>1, TwoWords
  <2>3. QED BY <1>4, <2>1, <2>2
<1>5. CASE ~n.null /\ n.kind = "rowversion"
  <2>1. Image(n) = RowversionImage(v) /\ \A i : Value(n, i) = RowversionValue(i)
    BY <1>5 DEF Image, Value
  <2>2. v \in 0..(ByteBase * ByteBase * ByteBase * ByteBase - 1)
    BY <1>5 DEF Numbers
  <2>3. RowversionValue(RowversionImage(v)) = v
    BY <2>2, FourBytes
  <2>4. QED BY <1>5, <2>1, <2>3
<1>6. QED BY <1>1, <1>2, <1>3, <1>4, <1>5 DEF NumberKinds

------------------------------------------------------------------------------
\* Parameters.

AnyParam == [type : ParamTypes, by : {"value", "ref"}, prec : Nat,
            scale : (0..MaxScale) \cup {Unset}]

\* What bind_param() makes of the parameter is what the column looks like.
LooksRight(p, b) ==
  /\ SqlType[b.type] = SqlType[p.type]
  /\ Declared(b) = ColumnOf(p)
  /\ b.type \in DOMAIN BufferSize => b.ind = BufferSize[b.type]
  /\ p.type \in ShortTypes => Room(b) = ColumnOf(p).size

Unspecified(p) == p.type = "decimal" /\ p.by = "value" /\ p.scale = Unset

LEMMA IntegralLooksRight ==
  ASSUME NEW p \in AnyParam, p.type \in Integral
  PROVE  LooksRight(p, Bound(p))
<1>1. Bound(p) = [type |-> p.type, capacity |-> 0, ind |-> 0, buffer |-> 0]
  BY DEF Bound, BindIntegral, BindBigint, Bind, Integral
<1>2. Bound(p).type = p.type
  BY <1>1
<1>3. p.type \notin DOMAIN BufferSize
  BY DEF BufferSize, CBinary, Integral
<1>4. Declared(Bound(p)) = Declaration(0, 0)
  BY <1>1 DEF Declared, Integral, ShortTypes, LongTypes, TimeTypes
<1>5. ColumnOf(p) = Declaration(0, 0)
  BY DEF ColumnOf, Integral, LongTypes
<1>6. p.type \notin ShortTypes
  BY DEF ShortTypes, Integral
<1>7. QED BY <1>2, <1>3, <1>4, <1>5, <1>6 DEF LooksRight

LEMMA DecimalLooksRight ==
  ASSUME NEW p \in AnyParam, p.type = "decimal", ~Unspecified(p)
  PROVE  LooksRight(p, Bound(p))
<1> DEFINE P == Or0(p.prec, 18)
           S == OrUnset(p.scale, 0)
<1>1. P \in Nat /\ S \in 0..99
  BY DEF AnyParam, Or0, OrUnset, MaxScale, Unset
<1>2. Bound(p) = [type |-> "decimal", capacity |-> P * 100 + S, ind |-> 0, buffer |-> 0]
  <2>1. Bound(p) = BindDecimal(p)
    BY DEF Bound, Integral
  <2>2. p.by # "ref" => p.scale = S
    BY DEF Unspecified, OrUnset, AnyParam
  <2>3. QED BY <2>1, <2>2 DEF BindDecimal, Bind
<1>3. (P * 100 + S) \div 100 = P /\ (P * 100 + S) % 100 = S
  <2> HIDE DEF P, S
  <2>1. QED BY <1>1
<1>4. Declared(Bound(p)) = Declaration(P, S)
  BY <1>2, <1>3 DEF Declared, DeclareNumber, ShortTypes, LongTypes, TimeTypes
<1>5. ColumnOf(p) = Declaration(P, S)
  BY DEF ColumnOf, LongTypes
<1>6. "decimal" \notin DOMAIN BufferSize /\ "decimal" \notin ShortTypes
  BY DEF BufferSize, CBinary, ShortTypes
<1>7. Bound(p).type = p.type
  BY <1>2
<1>8. QED BY <1>4, <1>5, <1>6, <1>7 DEF LooksRight

LEMMA MoneyLooksRight ==
  ASSUME NEW p \in AnyParam, p.type \in {"smallmoney", "money"}
  PROVE  LooksRight(p, Bound(p))
<1>1. Bound(p) = [type |-> p.type, capacity |-> 0,
                  ind |-> IF p.type = "money" THEN 8 ELSE 4, buffer |-> 0]
  BY DEF Bound, BindMoney, Bind, Integral
<1>2. Declared(Bound(p)) = ColumnOf(p)
  BY <1>1 DEF Declared, DeclareNumber, ColumnOf, ShortTypes, LongTypes, TimeTypes
<1>3. Bound(p).ind = BufferSize[p.type] /\ Bound(p).type = p.type
  BY <1>1 DEF BufferSize, CBinary
<1>4. p.type \notin ShortTypes
  BY DEF ShortTypes
<1>5. QED BY <1>2, <1>3, <1>4 DEF LooksRight

LEMMA FloatLooksRight ==
  ASSUME NEW p \in AnyParam, p.type \in {"float4", "float8"}
  PROVE  LooksRight(p, Bound(p))
<1> DEFINE P == Or0(p.prec, IF p.type = "float4" THEN 24 ELSE 53)
<1>1. Bound(p) = [type |-> p.type, capacity |-> P, ind |-> 0, buffer |-> 0]
  BY DEF Bound, BindFloat, Bind, Integral
<1>2. Declared(Bound(p)) = Declaration(P, 0)
  BY <1>1 DEF Declared, DeclareNumber, ShortTypes, LongTypes, TimeTypes
<1>3. ColumnOf(p) = Declaration(P, 0)
  BY DEF ColumnOf, LongTypes
<1>4. p.type \notin DOMAIN BufferSize /\ p.type \notin ShortTypes
  BY DEF BufferSize, CBinary, ShortTypes
<1>5. Bound(p).type = p.type
  BY <1>1
<1>6. QED BY <1>2, <1>3, <1>4, <1>5 DEF LooksRight

LEMMA ShortLooksRight ==
  ASSUME NEW p \in AnyParam, p.type \in ShortTypes
  PROVE  LooksRight(p, Bound(p))
<1>1. ShortMax \in Nat /\ ShortMax >= 1 /\ (ShortMax \div 2) * 2 = ShortMax /\ p.prec \in Nat
  BY ValuesAssumption DEF AnyParam
<1>2. p.type \notin DOMAIN BufferSize
  BY DEF BufferSize, CBinary, ShortTypes
<1>3. CASE p.type = "string"
  <2> DEFINE B == Or0(p.prec, ShortMax)
  <2>1. B \in Nat /\ B >= 1
    BY <1>1 DEF Or0
  <2>2. Bound(p) = [type |-> "string", capacity |-> B + 1, ind |-> OfData, buffer |-> B]
    BY <1>3 DEF Bound, BindString, Bind, Integral
  <2>3. ColumnOf(p) = Declaration(B, 0)
    BY <1>3 DEF ColumnOf, LongTypes
  <2> HIDE DEF B
  <2>4. Declared(Bound(p)) = Declaration(B, 0)
    <3>1. Declared(Bound(p)) = Sized(B + 1, B)
      <4>1. Declared(Bound(p)) = Sized(B + 1, (B + 1) - 1)
        BY <2>2 DEF Declared, DeclareData, ShortTypes, LongTypes, TimeTypes
      <4>2. (B + 1) - 1 = B
        BY <2>1
      <4>3. QED BY <4>1, <4>2
    <3>2. QED BY <2>1, <3>1 DEF Sized
  <2>5. Room(Bound(p)) = B
    BY <2>2 DEF Room
  <2>6. QED BY <1>2, <1>3, <2>2, <2>3, <2>4, <2>5 DEF LooksRight, Declaration
<1>4. CASE p.type = "nstring"
  <2> DEFINE B == IF p.prec # 0 THEN p.prec * 2 ELSE ShortMax
             C == Or0(p.prec, ShortMax \div 2)
  <2>1. C \in Nat /\ B = C * 2
    BY <1>1 DEF Or0
  <2>2. Bound(p) = [type |-> "nstring", capacity |-> B + 2, ind |-> OfData, buffer |-> B]
    BY <1>4 DEF Bound, BindNString, Bind, Integral
  <2>3. ColumnOf(p) = Declaration(C, 0)
    BY <1>4 DEF ColumnOf, LongTypes
  <2> HIDE DEF B, C
  <2>4. Declared(Bound(p)) = Declaration(C, 0)
    <3>1. Declared(Bound(p)) = Sized(B + 2, (B + 2) \div 2 - 1)
      BY <2>2 DEF Declared, DeclareData, ShortTypes, LongTypes, TimeTypes
    <3>2. (B + 2) \div 2 - 1 = C /\ B + 2 # 0
      BY <2>1
    <3>3. QED BY <3>1, <3>2 DEF Sized
  <2>5. Room(Bound(p)) = C
    <3>1. Room(Bound(p)) = B \div 2
      BY <2>2 DEF Room
    <3>2. QED BY <2>1, <3>1
  <2>6. QED BY <1>2, <1>4, <2>2, <2>3, <2>4, <2>5 DEF LooksRight, Declaration
<1>5. CASE p.type = "binary"
  <2> DEFINE B == Or0(p.prec, ShortMax)
  <2>1. B \in Nat /\ B >= 1
    BY <1>1 DEF Or0
  <2>2. Bound(p) = [type |-> "binary", capacity |-> B, ind |-> OfData, buffer |-> B]
    BY <1>5 DEF Bound, BindBinary, Bind, Integral
  <2>3. ColumnOf(p) = Declaration(B, 0)
    BY <1>5 DEF ColumnOf, LongTypes
  <2> HIDE DEF B
  <2>4. Declared(Bound(p)) = Declaration(B, 0)
    <3>1. Declared(Bound(p)) = Sized(B, B)
      BY <2>2 DEF Declared, DeclareData, ShortTypes, LongTypes, TimeTypes
    <3>2. QED BY <2>1, <3>1 DEF Sized
  <2>5. Room(Bound(p)) = B
    BY <2>2 DEF Room
  <2>6. QED BY <1>2, <1>5, <2>2, <2>3, <2>4, <2>5 DEF LooksRight, Declaration
<1>6. QED BY <1>3, <1>4, <1>5 DEF ShortTypes

\* Long data are bound as they are, or a copy as short data of the same SQL type.
LEMMA LongLooksRight ==
  ASSUME NEW p \in AnyParam, p.type \in LongTypes
  PROVE  LooksRight(p, Bound(p))
<1>1. p.prec \in Nat /\ p.type \notin ShortTypes
  BY DEF AnyParam, ShortTypes, LongTypes
<1>2. ColumnOf(p) = Declaration(p.prec, 0)
  <2>1. ColumnOf(p) = Declaration(Or0(p.prec, Unlimited), 0)
    BY DEF ColumnOf, LongTypes
  <2>2. Or0(p.prec, Unlimited) = p.prec
    BY <1>1 DEF Or0, Unlimited
  <2>3. QED BY <2>1, <2>2
<1>3. \A k : Sized(0, k) = Declaration(0, 0)
  BY DEF Sized, Unlimited
<1>4. CASE p.type = "long_string"
  <2>1. CASE p.by = "ref"
    <3>1. Bound(p) = [type |-> "long_string", capacity |-> p.prec, ind |-> AtExec, buffer |-> 0]
      BY <1>4, <2>1 DEF Bound, BindLongString, Bind, Integral
    <3>2. Declared(Bound(p)) = Sized(p.prec, p.prec)
      BY <3>1 DEF Declared, DeclareData, ShortTypes, LongTypes, TimeTypes
    <3>3. Declared(Bound(p)) = Declaration(p.prec, 0)
      BY <1>1, <3>2 DEF Sized, Unlimited
    <3>4. Bound(p).type = "long_string" /\ "long_string" \notin DOMAIN BufferSize
      BY <3>1 DEF BufferSize, CBinary
    <3>5. QED BY <1>1, <1>2, <1>4, <3>3, <3>4 DEF LooksRight
  <2>2. CASE p.by # "ref"
    <3> DEFINE c == IF p.prec # 0 THEN p.prec + 1 ELSE 0
    <3>1. Bound(p) = [type |-> "string", capacity |-> c, ind |-> OfData, buffer |-> 0]
      BY <1>4, <2>2 DEF Bound, BindLongString, Bind, Integral
    <3> HIDE DEF c
    <3>2. Declared(Bound(p)) = Sized(c, c - 1)
      BY <3>1 DEF Declared, DeclareData, ShortTypes, LongTypes, TimeTypes
    <3>3. Declared(Bound(p)) = Declaration(p.prec, 0)
      BY <1>1, <3>2 DEF Sized, Unlimited, c
    <3>4. /\ Bound(p).type = "string" /\ "string" \notin DOMAIN BufferSize
          /\ SqlType["string"] = SqlType["long_string"]
      BY <3>1 DEF BufferSize, CBinary, SqlType, ParamTypes, ShortTypes, LongTypes
    <3>5. QED BY <1>1, <1>2, <1>4, <3>3, <3>4 DEF LooksRight
  <2>3. QED BY <2>1, <2>2
<1>5. CASE p.type = "long_nstring"
  <2>1. CASE p.by = "ref"
    <3>1. Bound(p) = [type |-> "long_nstring", capacity |-> p.prec * 2, ind |-> AtExec,
                      buffer |-> 0]
      BY <1>5, <2>1 DEF Bound, BindLongNString, Bind, Integral
    <3>2. Declared(Bound(p)) = Sized(p.prec * 2, (p.prec * 2) \div 2)
      BY <3>1 DEF Declared, DeclareData, ShortTypes, LongTypes, TimeTypes
    <3>3. (p.prec * 2) \div 2 = p.prec /\ (p.prec * 2 # 0 <=> p.prec # 0)
      BY <1>1
    <3>4. Declared(Bound(p)) = Declaration(p.prec, 0)
      BY <1>1, <3>2, <3>3 DEF Sized, Unlimited
    <3>5. Bound(p).type = "long_nstring" /\ "long_nstring" \notin DOMAIN BufferSize
      BY <3>1 DEF BufferSize, CBinary
    <3>6. QED BY <1>1, <1>2, <1>5, <3>4, <3>5 DEF LooksRight
  <2>2. CASE p.by # "ref"
    <3> DEFINE c == IF p.prec # 0 THEN (p.prec + 1) * 2 ELSE 0
    <3>1. Bound(p) = [type |-> "nstring", capacity |-> c, ind |-> OfData, buffer |-> 0]
      BY <1>5, <2>2 DEF Bound, BindLongNString, Bind, Integral
    <3>2. /\ p.prec = 0 => c = 0
          /\ p.prec # 0 => c # 0 /\ c \div 2 - 1 = p.prec
      BY <1>1
    <3> HIDE DEF c
    <3>3. Declared(Bound(p)) = Sized(c, c \div 2 - 1)
      BY <3>1 DEF Declared, DeclareData, ShortTypes, LongTypes, TimeTypes
    <3>4. Declared(Bound(p)) = Declaration(p.prec, 0)
      BY <1>1, <3>2, <3>3 DEF Sized, Unlimited
    <3>5. /\ Bound(p).type = "nstring" /\ "nstring" \notin DOMAIN BufferSize
          /\ SqlType["nstring"] = SqlType["long_nstring"]
      BY <3>1 DEF BufferSize, CBinary, SqlType, ParamTypes, ShortTypes, LongTypes
    <3>6. QED BY <1>1, <1>2, <1>5, <3>4, <3>5 DEF LooksRight
  <2>3. QED BY <2>1, <2>2
<1>6. CASE p.type = "long_binary"
  <2> DEFINE b == Bound(p)
  <2>1. b.type \in {"long_binary", "binary"} /\ b.capacity = p.prec
    BY <1>6 DEF Bound, BindLongBinary, Bind, Integral
  <2> HIDE DEF b
  <2>2. Declared(b) = Sized(p.prec, p.prec)
    BY <2>1 DEF Declared, DeclareData, ShortTypes, LongTypes, TimeTypes
  <2>3. Declared(b) = Declaration(p.prec, 0)
    BY <1>1, <2>2 DEF Sized, Unlimited
  <2>4. b.type \notin DOMAIN BufferSize
    BY <2>1 DEF BufferSize, CBinary
  <2>5. SqlType["binary"] = SqlType["long_binary"]
    BY DEF SqlType, ParamTypes, ShortTypes, LongTypes
  <2>6. LooksRight(p, b)
    BY <1>1, <1>2, <1>6, <2>1, <2>3, <2>4, <2>5 DEF LooksRight
  <2>7. QED BY <2>6 DEF b
<1>7. QED BY <1>4, <1>5, <1>6 DEF LongTypes

\* A time has the scale of the column, or the largest, 7, if it is not specified.
LEMMA TimeLooksRight ==
  ASSUME NEW p \in AnyParam, p.type \in TimeTypes
  PROVE  LooksRight(p, Bound(p))
<1> DEFINE S == OrUnset(p.scale, 7)
           b == Bound(p)
           i == CASE p.type = "time" -> 12
                  [] p.type = "datetimeoffset" -> 20
                  [] p.type = "datetime" -> 0
<1>1. S \in Nat
  BY DEF AnyParam, OrUnset, MaxScale, Unset
<1>2. b = [type |-> p.type, capacity |-> S, ind |-> i, buffer |-> 0]
  BY DEF Bound, BindTime, BindDatetime, Bind, Integral, TimeTypes
<1> HIDE DEF S, b
<1>3. b.type = p.type /\ b.capacity = S /\ b.ind = i
  BY <1>2
<1>4. Fraction(S) = (IF S = 0 THEN 0 ELSE S + 1)
  BY DEF Fraction
<1>5. Declared(b) = ColumnOf(p)
  <2>1. CASE p.type = "time"
    <3>1. Declared(b) = Declaration(IF S = 0 THEN 8 ELSE S + 9, S)
      BY <1>3, <2>1 DEF Declared, DeclareTime, ShortTypes, LongTypes, TimeTypes
    <3>2. ColumnOf(p) = Declaration(8 + Fraction(S), S)
      BY <2>1 DEF ColumnOf, LongTypes, S
    <3>3. 8 + Fraction(S) = (IF S = 0 THEN 8 ELSE S + 9)
      BY <1>1, <1>4
    <3>4. QED BY <3>1, <3>2, <3>3
  <2>2. CASE p.type = "datetime"
    <3>1. Declared(b) = (IF S = 8 THEN Declaration(16, 0)
                         ELSE Declaration(IF S = 0 THEN 19 ELSE S + 20, S))
      BY <1>3, <2>2 DEF Declared, DeclareTime, ShortTypes, LongTypes, TimeTypes
    <3>2. ColumnOf(p) = (IF S = 8 THEN Declaration(16, 0)
                         ELSE Declaration(19 + Fraction(S), S))
      BY <2>2 DEF ColumnOf, LongTypes, S
    <3>3. 19 + Fraction(S) = (IF S = 0 THEN 19 ELSE S + 20)
      BY <1>1, <1>4
    <3>4. QED BY <3>1, <3>2, <3>3
  <2>3. CASE p.type = "datetimeoffset"
    <3>1. Declared(b) = Declaration(IF S = 0 THEN 26 ELSE S + 27, S)
      BY <1>3, <2>3 DEF Declared, DeclareTime, ShortTypes, LongTypes, TimeTypes
    <3>2. ColumnOf(p) = Declaration(26 + Fraction(S), S)
      BY <2>3 DEF ColumnOf, LongTypes, S
    <3>3. 26 + Fraction(S) = (IF S = 0 THEN 26 ELSE S + 27)
      BY <1>1, <1>4
    <3>4. QED BY <3>1, <3>2, <3>3
  <2>4. QED BY <2>1, <2>2, <2>3 DEF TimeTypes
<1>6. b.type \in DOMAIN BufferSize => b.ind = BufferSize[b.type]
  BY <1>3 DEF BufferSize, CBinary, TimeTypes
<1>7. p.type \notin ShortTypes
  BY DEF ShortTypes, TimeTypes
<1>8. LooksRight(p, b)
  BY <1>3, <1>5, <1>6, <1>7 DEF LooksRight
<1>9. QED BY <1>8 DEF b

LEMMA OtherLooksRight ==
  ASSUME NEW p \in AnyParam, p.type \in {"date", "uniqueidentifier", "rowversion"}
  PROVE  LooksRight(p, Bound(p))
<1> DEFINE b == Bound(p)
<1>1. b = [type |-> p.type, capacity |-> 0,
           ind |-> IF p.type = "rowversion" THEN 8 ELSE 0, buffer |-> 0]
  BY DEF Bound, BindDate, BindGuid, BindRowversion, Bind, Integral
<1> HIDE DEF b
<1>2. Declared(b) = ColumnOf(p)
  BY <1>1 DEF Declared, DeclareTime, ColumnOf, ShortTypes, LongTypes, TimeTypes
<1>3. b.type \in DOMAIN BufferSize => b.ind = BufferSize[b.type]
  BY <1>1 DEF BufferSize, CBinary
<1>4. p.type \notin ShortTypes
  BY DEF ShortTypes
<1>5. LooksRight(p, b)
  BY <1>1, <1>2, <1>3, <1>4 DEF LooksRight
<1>6. QED BY <1>5 DEF b

LEMMA ParametersLookRight ==
  ASSUME NEW p \in Params, ~Unspecified(p)
  PROVE  LooksRight(p, Bound(p))
<1>1. p \in AnyParam
  BY ValuesAssumption DEF AnyParam
<1>2. \/ p.type \in Integral \/ p.type = "decimal" \/ p.type \in {"smallmoney", "money"}
      \/ p.type \in {"float4", "float8"} \/ p.type \in ShortTypes \/ p.type \in LongTypes
      \/ p.type \in TimeTypes \/ p.type \in {"date", "uniqueidentifier", "rowversion"}
  BY <1>1 DEF AnyParam, ParamTypes, FixedTypes
<1>3. QED BY <1>1, <1>2, IntegralLooksRight, DecimalLooksRight, MoneyLooksRight,
             FloatLooksRight, ShortLooksRight, LongLooksRight, TimeLooksRight, OtherLooksRight

------------------------------------------------------------------------------
\* Values of every kind.

BoundAs(p, b) ==
  [step |-> "bound", type |-> SqlType[b.type], as |-> b.type, ind |-> b.ind,
   declared |-> Declared(b), sent |-> SubSeq(value, 1, Min({Len(value), Room(b)}))]

\* What has become of the item.
Outcomes ==
  /\ \/ item = Data \/ item \in Numbers \/ item \in Floats
     \/ item \in [what : {"parameter"}, param : Params]
  /\ \/ outcome.step \in {"pending", "sent", "received"}
     \/ item.what = "parameter" /\ outcome = BoundAs(item.param, Bound(item.param))

ValuesIInv == IInv /\ Outcomes

\* Long and short data are idle while something else is on its way.
LEMMA IdleEstablishes ==
  ASSUME ValuesInit, item # Data
  PROVE  IInv
<1>1. /\ from = "string" /\ to = "string" /\ room = 0 /\ behind = 0
      /\ cap = (CHOOSE n \in Capacities : TRUE)
      /\ null = FALSE /\ nullable = FALSE /\ isNull = FALSE /\ known = TRUE
      /\ member = <<>> /\ tmp = <<>> /\ stored = <<>>
      /\ position = 0 /\ got = 0 /\ at = 0 /\ size = 0
      /\ pc = "done" /\ chunk = "none" /\ into = "tmp"
  BY DEF ValuesInit
<1>2. PICK n : /\ n \in IF item.what = "parameter" /\ item.param.type \in ShortTypes
                        THEN Lengths ELSE {0}
               /\ value = [i \in 1..n |-> i]
  BY DEF ValuesInit
<1>3. n \in Nat
  BY <1>2, LongDataAssumption
<1>4. value \in Seq(Nat)
  BY <1>2, <1>3
<1>5. to \in Charset(from)
  <2>1. Charset("string") \in {Narrow, Wide, Binary} /\ "string" \in Charset("string")
    BY DEF Charset, Narrow
  <2>2. QED BY <1>1, <2>1
<1>6. cap \in Capacities
  BY <1>1, LongDataAssumption
<1>7. from \in Types /\ from \notin Arrays /\ to \notin Arrays /\ to \notin Wide
  BY <1>1 DEF Types, Narrow, Arrays, Wide
<1>8. Ends
  BY <1>1, <1>4, <1>5, <1>6, <1>7 DEF Ends
<1>9. Steps
  <2>1. stored \in Seq(Int) /\ Len(stored) = 0
    BY <1>1
  <2>2. got \in 0..Len(stored) /\ at \in Nat /\ size \in Nat /\ position \in Nat
    BY <1>1, <2>1
  <2>3. QED BY <1>1, <2>1, <2>2 DEF Steps
<1>10. Buffers
  <2>1. member \in Seq(Int) /\ tmp \in Seq(Int) /\ Len(tmp) = 0
    BY <1>1
  <2>2. Len(tmp) * Width <= TmpCapacity
    BY <1>7, <2>1, Sizes DEF Width
  <2>3. QED BY <1>7, <2>1, <2>2 DEF Buffers
<1>11. Buffered /\ Sending /\ Getting /\ Called
  BY <1>1 DEF Buffered, Sending, Getting, Called
<1>12. QED BY <1>8, <1>9, <1>10, <1>11 DEF IInv

LEMMA ValuesInitEstablishes == ValuesInit => ValuesIInv
<1> SUFFICES ASSUME ValuesInit PROVE ValuesIInv
  OBVIOUS
<1>1. IInv
  <2>1. CASE item = Data
    <3>1. Data \notin Numbers \cup Floats \cup {[what |-> "parameter", param |-> p] : p \in Params}
      BY DEF Data, Numbers, Floats
    <3>2. Init
      BY <2>1, <3>1 DEF ValuesInit
    <3>3. QED BY <3>2, InitEstablishes
  <2>2. CASE item # Data
    BY <2>2, IdleEstablishes
  <2>3. QED BY <2>1, <2>2
<1>2. outcome.step = "pending"
  BY DEF ValuesInit, Pending
<1>3. \/ item = Data \/ item \in Numbers \/ item \in Floats
      \/ item \in [what : {"parameter"}, param : Params]
  BY DEF ValuesInit
<1>4. QED BY <1>1, <1>2, <1>3 DEF ValuesIInv, Outcomes

LEMMA ValuesNextKeeps == ValuesIInv /\ [ValuesNext]_valuesVars => ValuesIInv'
<1> SUFFICES ASSUME ValuesIInv, [ValuesNext]_valuesVars PROVE ValuesIInv'
  OBVIOUS
<1>1. IInv'
  <2>1. [Next]_vars
    BY DEF ValuesNext, SendNumber, ReceiveNumber, BindParam, valuesVars
  <2>2. QED BY <2>1, NextKeeps DEF ValuesIInv
<1>2. item' = item
  BY DEF ValuesNext, SendNumber, ReceiveNumber, BindParam, valuesVars
<1>3. CASE item.what = "data" /\ Next /\ UNCHANGED <<item, outcome>>
  <2>1. outcome.step \in {"pending", "sent", "received"}
    BY <1>3 DEF ValuesIInv, Outcomes
  <2>2. QED BY <1>1, <1>2, <1>3, <2>1 DEF ValuesIInv, Outcomes
<1>4. CASE SendNumber
  <2>1. outcome'.step = "sent"
    BY <1>4 DEF SendNumber
  <2>2. QED BY <1>1, <1>2, <2>1 DEF ValuesIInv, Outcomes
<1>5. CASE ReceiveNumber
  <2>1. outcome'.step = "received"
    BY <1>5 DEF ReceiveNumber
  <2>2. QED BY <1>1, <1>2, <2>1 DEF ValuesIInv, Outcomes
<1>6. CASE BindParam
  <2>1. /\ item.what = "parameter" /\ value' = value
        /\ outcome' = BoundAs(item.param, Bound(item.param))
    BY <1>6 DEF BindParam, BoundAs, vars, sender
  <2>2. outcome' = BoundAs(item.param, Bound(item.param))'
    BY <1>2, <2>1 DEF BoundAs
  <2>3. QED BY <1>1, <1>2, <2>1, <2>2 DEF ValuesIInv, Outcomes
<1>7. CASE UNCHANGED valuesVars
  <2>1. value' = value /\ outcome' = outcome
    BY <1>7 DEF valuesVars, vars, sender
  <2>2. BoundAs(item.param, Bound(item.param))' = BoundAs(item.param, Bound(item.param))
    BY <1>2, <2>1 DEF BoundAs
  <2>3. QED BY <1>1, <1>2, <2>1, <2>2 DEF ValuesIInv, Outcomes
<1>8. QED BY <1>3, <1>4, <1>5, <1>6, <1>7 DEF ValuesNext

LEMMA Invariance == ValuesSpec => []ValuesIInv
<1>1. QED BY ValuesInitEstablishes, ValuesNextKeeps, PTL DEF ValuesSpec

\* A number on its way is its image, and then its value again.
Numbered ==
  item.what = "number" =>
    /\ outcome.step = "sent" => outcome.image = Image(item)
    /\ outcome.step = "received" =>
         outcome.value = (IF item.null THEN 0 ELSE item.number)

RoundInv == ValuesIInv /\ RInv /\ Numbered

LEMMA RoundInitEstablishes == ValuesInit => RoundInv
<1> SUFFICES ASSUME ValuesInit PROVE RoundInv
  OBVIOUS
<1>1. RInv
  <2> SUFFICES ASSUME item = Data PROVE Contents
    BY DEF RInv
  <2>1. Data \notin Numbers \cup Floats \cup {[what |-> "parameter", param |-> p] : p \in Params}
    BY DEF Data, Numbers, Floats
  <2>2. Init
    BY <2>1 DEF ValuesInit
  <2>3. QED BY <2>2, InitTells
<1>2. Numbered
  BY DEF ValuesInit, Pending, Numbered
<1>3. QED BY <1>1, <1>2, ValuesInitEstablishes DEF RoundInv

LEMMA RoundNextKeeps == RoundInv /\ [ValuesNext]_valuesVars => RoundInv'
<1> SUFFICES ASSUME RoundInv, [ValuesNext]_valuesVars PROVE RoundInv'
  OBVIOUS
<1>1. item' = item /\ [Next]_vars
  BY DEF ValuesNext, SendNumber, ReceiveNumber, BindParam, valuesVars
<1>2. RInv'
  <2> SUFFICES ASSUME item' = Data PROVE Contents'
    BY DEF RInv
  <2>1. IInv /\ Contents
    BY <1>1 DEF RoundInv, RInv, ValuesIInv
  <2>2. QED BY <1>1, <2>1, NextTells
<1>3. Numbered'
  <2> SUFFICES ASSUME item.what = "number" PROVE Numbered'
    BY <1>1 DEF Numbered
  <2>1. item \in Numbers
    BY DEF RoundInv, ValuesIInv, Outcomes, Data, Floats
  <2>2. CASE SendNumber
    <3>1. outcome'.step = "sent" /\ outcome'.image = Image(item)
      BY <2>2 DEF SendNumber
    <3>2. QED BY <1>1, <3>1 DEF Numbered
  <2>3. CASE ReceiveNumber
    <3>1. /\ outcome.step = "sent" /\ outcome'.step = "received"
          /\ outcome'.value = Value(item, outcome.image)
      BY <2>3 DEF ReceiveNumber
    <3>2. outcome.image = Image(item)
      BY <3>1 DEF RoundInv, Numbered
    <3>3. outcome'.value = (IF item.null THEN 0 ELSE item.number)
      BY <2>1, <3>1, <3>2, NumberIsBack
    <3>4. QED BY <1>1, <3>1, <3>3 DEF Numbered
  <2>4. CASE UNCHANGED outcome
    BY <1>1, <2>4 DEF RoundInv, Numbered
  <2>5. QED BY <2>2, <2>3, <2>4 DEF ValuesNext, BindParam, valuesVars
<1>4. ValuesIInv'
  BY ValuesNextKeeps DEF RoundInv
<1>5. QED BY <1>2, <1>3, <1>4 DEF RoundInv

------------------------------------------------------------------------------
\* The theorems.

\* Members, buffers and positions keep their types, and arrays and the temporary
\* buffer their sizes: nothing is written where there is no space for it.
THEOREM TypeCorrect == ValuesSpec => []TypeOK
<1>1. ValuesIInv => TypeOK
  BY DEF ValuesIInv, IInv, Ends, Steps, Buffers, TypeOK
<1>2. QED BY <1>1, Invariance, PTL

\* The callbacks of long data never get a chunk that they assert they do not get
\* (after one that they gave room for all of it), and never give the driver more
\* room than there is.
THEOREM NoChunkIsUnexpected == ValuesSpec => []ChunksAreExpected
<1>1. ValuesIInv => ChunksAreExpected
  <2> SUFFICES ASSUME ValuesIInv PROVE ChunksAreExpected
    OBVIOUS
  <2>1. pc = "get" => at + size \div Width <= Len(Destination)
    BY DEF ValuesIInv, IInv, Getting
  <2>2. pc = "callback" => ~Unexpected
    <3> SUFFICES ASSUME pc = "callback", Unexpected PROVE FALSE
      OBVIOUS
    <3>1. /\ chunk = "next"
          /\ to \in {"wstring2", "vector"} \/ (to = "string" /\ position = 0)
      BY DEF Unexpected
    <3>2. Given
      BY <3>1 DEF ValuesIInv, IInv, Called
    <3>3. QED BY <3>1, <3>2 DEF Given, StringGot
  <2>3. QED BY <2>1, <2>2 DEF ChunksAreExpected
<1>2. QED BY <1>1, Invariance, PTL

\* A query parameter of any type, precision and scale is declared to the driver as
\* the column that it is compared with, but for a decimal by value without a scale.
THEOREM ParametersLookLikeColumns == ValuesSpec => []DeclaredAsTheColumn
<1>1. ValuesIInv => DeclaredAsTheColumn
  <2> SUFFICES ASSUME ValuesIInv, outcome.step = "bound",
                      ~Unspecified(item.param)
               PROVE  LET p == item.param
                          column == ColumnOf(p)
                      IN  /\ outcome.type = SqlType[p.type]
                          /\ outcome.declared = column
                          /\ outcome.as \in DOMAIN BufferSize =>
                               outcome.ind = BufferSize[outcome.as]
                          /\ p.type \in ShortTypes =>
                               outcome.sent = SubSeq(value, 1, Min({Len(value), column.size}))
    BY DEF DeclaredAsTheColumn, Unspecified
  <2> DEFINE p == item.param
             b == Bound(p)
  <2>1. item.what = "parameter" /\ outcome = BoundAs(p, b)
    BY DEF ValuesIInv, Outcomes
  <2>2. p \in Params
    BY <2>1 DEF ValuesIInv, Outcomes, Data, Numbers, Floats
  <2>3. LooksRight(p, b)
    BY <2>2, ParametersLookRight
  <2> HIDE DEF p, b
  <2>4. /\ outcome.type = SqlType[b.type] /\ outcome.as = b.type /\ outcome.ind = b.ind
        /\ outcome.declared = Declared(b)
        /\ outcome.sent = SubSeq(value, 1, Min({Len(value), Room(b)}))
    BY <2>1 DEF BoundAs
  <2>5. QED BY <2>3, <2>4 DEF LooksRight, p
<1>2. QED BY <1>1, Invariance, PTL

\* Data of any length come back as they were sent, through any buffers and however the
\* chunks are cut, but in two cases that are named: a long wide array that the code
\* reads on behind its end (ReadsOn) may be sent with more than its value, and a long
\* wide string that it adds to what the member held (AddsToOld) may hold that too.
\* Money that is kept in units and versions come back as they are.  Nothing is said of
\* money that is a float, nor of parameters.
THEOREM ValuesSurvive == ValuesSpec => []ValuesRoundTrip
<1>1. RoundInv => ValuesRoundTrip
  <2> SUFFICES ASSUME RoundInv PROVE ValuesRoundTrip
    OBVIOUS
  <2>1. CASE item.what = "data"
    <3>1. item = Data
      BY <2>1 DEF RoundInv, ValuesIInv, Outcomes, Numbers, Floats
    <3>2. Contents
      BY <3>1 DEF RoundInv, RInv
    <3>3. stored \in Seq(Int)
      BY DEF RoundInv, ValuesIInv, IInv, Steps
    <3>4. ASSUME pc = "done" PROVE SentWell \/ ReadsOn
      BY <3>2, <3>4 DEF Contents, Sent, SentAs
    <3>5. ASSUME pc = "done", ~AddsToOld PROVE Held
      <4>1. HeldAs
        BY <3>2, <3>5 DEF Contents, Transferred
      <4>2. CASE ~(null /\ nullable) /\ to = "wstring4" /\ room = 0
        <5>1. to \notin Arrays
          BY <4>2 DEF Arrays
        <5>2. before = <<>> \/ stored = <<>>
          BY <3>5, <4>2 DEF AddsToOld
        <5>3. <<>> \o stored = stored
          BY <3>3, ConcatEmptySeq
        <5>4. ~isNull /\ member = stored
          BY <4>1, <4>2, <5>1, <5>2, <5>3 DEF HeldAs
        <5>5. QED BY <4>2, <5>1, <5>4 DEF Held
      <4>3. CASE ~(~(null /\ nullable) /\ to = "wstring4" /\ room = 0)
        BY <4>1, <4>3 DEF HeldAs, Held
      <4>4. QED BY <4>2, <4>3
    <3>6. RoundTrip
      BY <3>4, <3>5 DEF RoundTrip
    <3>7. QED BY <2>1, <3>6 DEF ValuesRoundTrip
  <2>2. CASE item.what = "number"
    BY <2>2 DEF RoundInv, Numbered, ValuesRoundTrip
  <2>3. CASE item.what \in {"float", "parameter"}
    BY <2>3 DEF ValuesRoundTrip
  <2>4. item.what \in {"data", "number", "float", "parameter"}
    BY DEF RoundInv, ValuesIInv, Outcomes, Data, Numbers, Floats
  <2>5. QED BY <2>1, <2>2, <2>3, <2>4
<1>2. ValuesSpec => []RoundInv
  BY RoundInitEstablishes, RoundNextKeeps, PTL DEF ValuesSpec
<1>3. QED BY <1>1, <1>2, PTL
==============================================================================
