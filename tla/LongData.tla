------------------------------- MODULE LongData -------------------------------
(****************************************************************************)
(* Character and binary data.  A value is sent from one member and read     *)
(* into another, perhaps by another program.  Data of a short column go     *)
(* through an image of the column's size, by set_image() and set_value().   *)
(* Long data go in chunks, by execute() with a param_callback and by        *)
(* stream_result() with a result_callback, which agree only through a       *)
(* position, a buffer with its size, and the kind of chunk.  Data are       *)
(* sequences of characters (bytes of binary data); sizes are in bytes.      *)
(****************************************************************************)
EXTENDS SequencesExt, Integers

CONSTANTS TmpCapacity,   \* capacity of the connection's temporary buffer
          Short,         \* the string that is tried first when no total is known
          Long,          \* and the size the string gets when that is too short
          Capacities,    \* bound: N of the array members
          Lengths,       \* bound: characters of a value
          OldLengths,    \* bound: characters that a string holds before
          Rooms          \* bound: sizes of short columns, in characters

ASSUME LongDataAssumption ==
  /\ TmpCapacity \in Nat /\ Short \in 3..TmpCapacity /\ Long \in Nat /\ Long > Short
  /\ TmpCapacity >= 4 /\ TmpCapacity % 2 = 0
  /\ Capacities \subseteq Nat \ {0} /\ Capacities # {}
  /\ Lengths \subseteq Nat /\ OldLengths \subseteq Nat /\ Rooms \subseteq Nat \ {0}

\* wstring and warray have 2 or 4 bytes in a wchar_t; the column has 2 in any case.
Narrow == {"string", "array"}
Wide == {"wstring2", "wstring4", "warray2", "warray4"}
Binary == {"vector", "barray"}
Types == Narrow \cup Wide \cup Binary
Arrays == {"array", "warray2", "warray4", "barray"}
Charset(t) == CHOOSE s \in {Narrow, Wide, Binary} : t \in s

Nul == 0       \* the terminator; also what resize() appends
Old == -1      \* what a member or buffer held before
Behind == -2   \* what is in memory behind an array

VARIABLES
  from, to,    \* the types of the two members
  cap,         \* N, for arrays
  null,        \* is the value NULL?
  value,       \* the characters that the sender's member means
  room,        \* the size of a short column, or 0
  behind,      \* how many characters up to a 0 are behind the sender's array
  pc,          \* long data: "send", "describe", "callback", "get"; short data:
               \* "store", "take"; "done"
  position,    \* the callback's position context
  stored,      \* what the server has got
  nullable,    \* is the receiving member wrapped (nullable, smart pointer)?
  before,      \* the characters of the receiving member before
  member,      \* and now; all N of an array
  isNull,      \* is the wrapper null?
  tmp,         \* the temporary buffer
  got,         \* characters that SQLGetData() has returned
  known,       \* did the driver tell the total?
  chunk, into, at, size   \* the callback's arguments: buffer ("member" or "tmp"
                          \* and an offset) and size

sender == <<from, cap, null, value, room, behind>>
receiver == <<to, nullable, before>>
vars == <<sender, receiver, pc, position, stored, member, isNull, tmp, got, known,
          chunk, into, at, size>>

Width == IF to \in Wide THEN 2 ELSE 1
Fill(x, n) == [i \in 1..n |-> x]
Resize(s, n) == SubSeq(s, 1, Min({n, Len(s)})) \o Fill(Nul, n - Min({n, Len(s)}))
Put(s, offset, data) ==
  SubSeq(s, 1, offset) \o data \o SubSeq(s, offset + Len(data) + 1, Len(s))

TypeOK ==
  /\ from \in Types /\ to \in Charset(from) /\ cap \in Capacities
  /\ null \in BOOLEAN /\ nullable \in BOOLEAN /\ isNull \in BOOLEAN /\ known \in BOOLEAN
  /\ pc \in {"send", "describe", "callback", "get", "store", "take", "done"}
  /\ value \in Seq(Nat) /\ stored \in Seq(Int) /\ position \in Nat
  /\ member \in Seq(Int) /\ tmp \in Seq(Int)
  /\ to \in Arrays => Len(member) = cap
  /\ Len(tmp) * Width <= TmpCapacity
  /\ got \in 0..Len(stored) /\ at \in Nat /\ size \in Nat
  /\ chunk \in {"none", "null", "one", "first", "next", "last"}
  /\ into \in {"member", "tmp"}

Init ==
  /\ from \in Types /\ to \in Charset(from) /\ cap \in Capacities
  /\ null \in BOOLEAN /\ nullable \in BOOLEAN
  /\ \E n \in IF null THEN {0} ELSE IF from = "barray" THEN {cap} ELSE Lengths :
       (from \in Arrays => n <= cap) /\ value = [i \in 1..n |-> i]
  /\ room \in {0} \cup Rooms
  /\ behind \in IF from = "warray4" /\ room = 0 THEN {0, 2} ELSE {0}
  /\ isNull \in {FALSE, nullable}
  /\ \E n \in IF to \in Arrays THEN {cap} ELSE IF isNull THEN {0} ELSE OldLengths :
       before = Fill(Old, n)
  /\ member = before
  /\ tmp = Fill(Old, TmpCapacity \div (IF from \in Wide THEN 2 ELSE 1))
  /\ pc = (IF room = 0 THEN "send" ELSE "store") /\ position = 0 /\ stored = <<>>
  /\ got = 0 /\ known = TRUE /\ chunk = "none" /\ into = "tmp" /\ at = 0 /\ size = 0

------------------------------------------------------------------------------
\* statement::execute() and the param callbacks

Received(data, last) ==
  /\ stored' = stored \o data
  /\ pc' = IF last THEN "describe" ELSE "send"
  /\ UNCHANGED <<sender, receiver, member, isNull, tmp, got, known, chunk, into, at, size>>

\* NULL is in the indicator and no callback is called.
SendNull == pc = "send" /\ null /\ Received(<<>>, TRUE) /\ UNCHANGED position

\* One chunk, straight from the member.
SendWhole ==
  /\ pc = "send" /\ ~null /\ from \notin {"wstring4", "warray4"}
  /\ Received(value, TRUE)
  /\ UNCHANGED position

\* wchar_t is narrowed into the temporary buffer, as much as it takes.
SendWideString ==
  /\ pc = "send" /\ ~null /\ from = "wstring4"
  /\ LET left == Len(value) - position
         n == Min({left, TmpCapacity \div 2})
     IN  /\ Received(SubSeq(value, position + 1, position + n), n = left)
         /\ position' = position + n

\* The array as it is in memory: a 0 ends the value if there is space for one.
Memory == value \o (IF Len(value) < cap THEN <<Nul>> ELSE Fill(Behind, behind) \o <<Nul>>)

\* It is read up to a 0, or N characters from where the last chunk ended.
SendWideArray ==
  /\ pc = "send" /\ ~null /\ from = "warray4"
  /\ LET rest == SubSeq(Memory, position + 1, Len(Memory) - 1)
         n == Min({Len(rest), cap, TmpCapacity \div 2})
     IN  /\ Received(SubSeq(rest, 1, n), n # TmpCapacity \div 2)
         /\ position' = position + n

------------------------------------------------------------------------------
\* statement::stream_result()

\* The first SQLGetData() has no room for data and asks for the total.  The driver
\* always knows it for national and binary data.
Describe ==
  /\ pc = "describe"
  /\ known' \in IF to \in Narrow THEN BOOLEAN ELSE {TRUE}
  /\ chunk' = (IF null THEN "null"
               ELSE IF known' /\ stored = <<>> THEN "one" ELSE "first")
  /\ size' = 0 /\ position' = 0
  /\ pc' = "callback"
  /\ UNCHANGED <<sender, receiver, stored, member, isNull, tmp, got, into, at>>

\* Mutant of Terminator: its size is not taken off.
TerminatorCounted == 0
\* One byte for the '\0' that ends every chunk of characters.
Terminator == IF to \in Binary THEN 0 ELSE 1

Destination == IF into = "member" THEN member ELSE tmp
Write(data) ==
  LET written == data \o (IF to \in Binary THEN <<>> ELSE <<Nul>>) IN
  IF into = "member" THEN member' = Put(member, at, written) /\ UNCHANGED tmp
                     ELSE tmp' = Put(tmp, at, written) /\ UNCHANGED member

\* SQLGetData() into what the callback has given: all that is left, or what
\* fits, with a 0 behind it.
GetData ==
  /\ pc = "get"
  /\ at + size \div Width <= Len(Destination)
  /\ LET left == Len(stored) - got
         fits == size \div Width - (IF to \in Binary THEN 0 ELSE 1)
         n == Min({left, fits})
     IN  /\ Write(SubSeq(stored, got + 1, got + n))
         /\ got' = got + n
         /\ chunk' = IF n = left THEN "last" ELSE "next"
         /\ size' = IF n = left THEN n * Width ELSE size - Terminator
  /\ pc' = "callback"
  /\ UNCHANGED <<sender, receiver, position, stored, isNull, known, into, at>>

\* The buffer and its size are what the callback returns.
Give(buffer, offset, bytes) == into' = buffer /\ at' = offset /\ size' = bytes
KeepBuffer == UNCHANGED <<into, at, size>>
Empty == chunk \in {"null", "one"}

------------------------------------------------------------------------------
\* The result callbacks

\* Mutant of StringRoom: the terminator has no room.
StringRoomExact == Len(stored)
StringRoom == Len(stored) + 1

\* std::string: in one go if the total is known, else a short string by way of the
\* temporary buffer, else a string that doubles.
StringResult ==
  \/ Empty /\ member' = <<>> /\ KeepBuffer /\ UNCHANGED position
  \/ /\ chunk = "first" /\ known
     /\ member' = Resize(member, StringRoom)
     /\ Give("member", 0, StringRoom) /\ position' = 0
  \/ /\ chunk = "first" /\ ~known
     /\ Give("tmp", 0, Short) /\ position' = 1
     /\ UNCHANGED member
  \/ /\ chunk = "next" /\ position = 1
     /\ member' = Resize(SubSeq(tmp, 1, size), Long)
     /\ position' = size
     /\ Give("member", position', Len(member') - position')
  \/ /\ chunk = "next" /\ position > 1
     /\ member' = Resize(member, 2 * Len(member))
     /\ position' = position + size
     /\ Give("member", position', Len(member') - position')
  \/ /\ chunk = "last"
     /\ member' = (IF position = 1 THEN SubSeq(tmp, 1, size)
                   ELSE Resize(member, position + size))
     /\ KeepBuffer /\ UNCHANGED position

\* std::wstring with the column's own characters.
WideString2Result ==
  /\ \/ Empty /\ member' = <<>> /\ KeepBuffer
     \/ /\ chunk = "first"
        /\ member' = Resize(member, Len(stored) + 1)
        /\ Give("member", 0, (Len(stored) + 1) * 2)
     \/ chunk = "last" /\ member' = Resize(member, size \div 2) /\ KeepBuffer
  /\ UNCHANGED position

\* std::wstring by way of the temporary buffer.  The string is not emptied first.
WideString4Result ==
  /\ \/ Empty /\ member' = <<>> /\ KeepBuffer
     \/ chunk = "first" /\ Give("tmp", 0, TmpCapacity) /\ UNCHANGED member
     \/ /\ chunk \in {"next", "last"}
        /\ member' = member \o SubSeq(tmp, 1, size \div 2)
        /\ IF chunk = "next" THEN Give("tmp", 0, TmpCapacity) ELSE KeepBuffer
  /\ UNCHANGED position

\* char[N], and wchar_t[N] with the column's own characters.  The driver ends
\* what it puts into the array with a 0, so the character that the 0 stands for
\* is the first of the next chunk, and the rest is thrown away.
ArrayResult ==
  \/ Empty /\ member' = Put(member, 0, <<Nul>>) /\ KeepBuffer /\ UNCHANGED position
  \/ /\ chunk = "first"
     /\ Give("member", 0, cap * Width)
     /\ UNCHANGED <<member, position>>
  \/ /\ chunk = "next"
     /\ position' = Min({position + 1, 2})
     /\ member' = IF position = 1 THEN Put(member, cap - 1, <<tmp[1]>>) ELSE member
     /\ Give("tmp", 0, TmpCapacity)
  \/ /\ chunk = "last"
     /\ member' = (CASE position = 0 /\ size \div Width < cap ->
                          Put(member, size \div Width, <<Nul>>)
                     [] position = 1 -> Put(member, cap - 1, <<tmp[1]>>)
                     [] OTHER -> member)
     /\ KeepBuffer /\ UNCHANGED position

\* Mutant of Copied: a terminator whether there is space for it or not.
CopiedAlwaysEnded(n) == Put(member, position, SubSeq(tmp, 1, n) \o <<Nul>>)
\* n characters more, and a terminator if there is space.
Copied(n) ==
  Put(member, position,
      SubSeq(tmp, 1, n) \o (IF position + n < cap THEN <<Nul>> ELSE <<>>))

\* wchar_t[N] by way of the temporary buffer.
WideArray4Result ==
  \/ Empty /\ member' = Put(member, 0, <<Nul>>) /\ KeepBuffer /\ UNCHANGED position
  \/ chunk = "first" /\ Give("tmp", 0, TmpCapacity) /\ UNCHANGED <<member, position>>
  \/ /\ chunk \in {"next", "last"}
     /\ IF position < cap
        THEN LET n == Min({size \div 2, cap - position})
             IN  member' = Copied(n) /\ position' = position + n
        ELSE UNCHANGED <<member, position>>
     /\ IF chunk = "next" THEN Give("tmp", 0, TmpCapacity) ELSE KeepBuffer

\* std::vector
VectorResult ==
  /\ \/ Empty /\ member' = <<>> /\ KeepBuffer
     \/ /\ chunk = "first"
        /\ member' = Resize(member, Len(stored)) /\ Give("member", 0, Len(stored))
     \/ chunk = "last" /\ UNCHANGED member /\ KeepBuffer
  /\ UNCHANGED position

\* An array of bytes: what does not fit is thrown away.
BinaryArrayResult ==
  /\ \/ Empty /\ member' = Fill(Nul, cap) /\ KeepBuffer
     \/ chunk = "first" /\ UNCHANGED member /\ Give("member", 0, Min({Len(stored), cap}))
     \/ chunk = "next" /\ UNCHANGED member /\ Give("tmp", 0, TmpCapacity)
     \/ chunk = "last" /\ UNCHANGED member /\ KeepBuffer
  /\ UNCHANGED position

Result ==
  \/ to = "string" /\ StringResult
  \/ to = "wstring2" /\ WideString2Result
  \/ to = "wstring4" /\ WideString4Result
  \/ to \in {"array", "warray2"} /\ ArrayResult
  \/ to = "warray4" /\ WideArray4Result
  \/ to = "vector" /\ VectorResult
  \/ to = "barray" /\ BinaryArrayResult

\* The callback of a wrapper hears of NULL, and passes on everything else.
Callback ==
  /\ pc = "callback"
  /\ IF nullable /\ chunk = "null"
     THEN isNull' = TRUE /\ UNCHANGED <<member, position, into, at, size>>
     ELSE isNull' = FALSE /\ Result
  /\ pc' = IF chunk \in {"null", "one", "last"} THEN "done" ELSE "get"
  /\ UNCHANGED <<sender, receiver, stored, tmp, got, known, chunk>>

\* A chunk that the callback does not expect: its assertion fails.
Unexpected == chunk = "next" /\ (to \in {"wstring2", "vector"} \/ (to = "string" /\ position = 0))

------------------------------------------------------------------------------
\* Short data: set_image() and set_value().  What does not fit is cut off.

\* Strings, wide or not, and vectors.
StringImage == SubSeq(value, 1, Min({Len(value), room}))
\* Arrays of characters end at a 0, or after N characters.
ArrayImage ==
  LET end == Min({i \in DOMAIN Memory : Memory[i] = Nul} \cup {cap + 1})
  IN  SubSeq(Memory, 1, Min({end - 1, cap, room}))
\* Arrays of bytes are sent whole.
BytesImage == SubSeq(value, 1, Min({cap, room}))

Store ==
  /\ pc = "store"
  /\ stored' = CASE null -> <<>>
                 [] ~null /\ from = "barray" -> BytesImage
                 [] ~null /\ from \in Arrays \ {"barray"} -> ArrayImage
                 [] ~null /\ from \notin Arrays -> StringImage
  /\ pc' = "take"
  /\ UNCHANGED <<sender, receiver, position, member, isNull, tmp, got, known, chunk, into, at, size>>

Fitting == SubSeq(stored, 1, Min({Len(stored), cap}))
StringValue == stored
ArrayValue == Put(member, 0, Fitting \o (IF Len(stored) < cap THEN <<Nul>> ELSE <<>>))
BytesValue == IF null THEN Fill(Nul, cap) ELSE Put(member, 0, Fitting)

\* A wrapper is set to NULL and its value is left alone.
Take ==
  /\ pc = "take"
  /\ isNull' = (null /\ nullable)
  /\ member' = CASE isNull' -> member
                 [] ~isNull' /\ to = "barray" -> BytesValue
                 [] ~isNull' /\ to \in Arrays \ {"barray"} -> ArrayValue
                 [] ~isNull' /\ to \notin Arrays -> StringValue
  /\ pc' = "done"
  /\ UNCHANGED <<sender, receiver, position, stored, tmp, got, known, chunk, into, at, size>>

Next == SendNull \/ SendWhole \/ SendWideString \/ SendWideArray
        \/ Describe \/ Callback \/ GetData \/ Store \/ Take

Spec == Init /\ [][Next]_vars

------------------------------------------------------------------------------
\* Properties

\* No callback gets a chunk that it asserts it never gets, and the driver is
\* never given more room than there is in the string, the array or the buffer.
ChunksAreExpected ==
  /\ pc = "callback" => ~Unexpected
  /\ pc = "get" => at + size \div Width <= Len(Destination)

\* Two cases in which the code does not do what is meant.  A long wide array that is
\* full and does not fit the temporary buffer is read on behind its end, up to a 0;
\* and a long wide string that comes by way of that buffer is added to what the
\* member held.
ReadsOn ==
  from = "warray4" /\ room = 0 /\ Len(value) = cap /\ cap >= TmpCapacity \div 2 /\ behind > 0
AddsToOld == to = "wstring4" /\ room = 0 /\ before # <<>> /\ stored # <<>>

\* The server gets what the member means, or as much of it as a short column takes.
SentWell == stored = (IF room = 0 THEN value ELSE SubSeq(value, 1, Min({Len(value), room})))

\* An array holds as much of the value as fits, and a 0 if there is space.
Truncated ==
  /\ \A i \in 1..Min({cap, Len(stored)}) : member[i] = stored[i]
  /\ to # "barray" /\ Len(stored) < cap => member[Len(stored) + 1] = Nul

Held ==
  CASE null /\ nullable -> isNull
    [] ~(null /\ nullable) /\ to \in Arrays -> ~isNull /\ Truncated
    [] OTHER -> ~isNull /\ member = stored

\* A value survives the way to the server and back, wherever the chunks are cut,
\* whether the driver knows the total or not, and whatever the member held; of a
\* short column, as much as fits.  Nothing is promised of the two cases above.
RoundTrip == pc = "done" => (SentWell \/ ReadsOn) /\ (Held \/ AddsToOld)
==============================================================================
