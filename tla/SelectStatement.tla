--------------------------- MODULE SelectStatement ---------------------------
(****************************************************************************)
(* From the text of a SELECT to the members it fills.  process_select()     *)
(* leaves out the columns that are not bound and the JOINs nobody uses, and *)
(* puts long data columns last; bind_result() numbers the buffers, and      *)
(* stream_result() numbers the long data again when a row is read.  None of *)
(* the three knows the others' numbers: the columns only meet in the server.*)
(****************************************************************************)
EXTENDS FiniteSets, SequencesExt

CONSTANTS From,        \* the alias of the table in the FROM part
          Joins,       \* the aliases of the JOIN parts, in the order of the text
          ColumnOf,    \* the alias that each column of the list belongs to
          NoColumn     \* what a buffer holds before it is filled

Aliases == {From} \cup Range(Joins)
Columns == DOMAIN ColumnOf

ASSUME SelectStatementAssumption ==
  /\ Joins \in Seq(Aliases) /\ IsInjective(Joins) /\ From \notin Range(Joins)
  /\ ColumnOf \in Seq(Aliases)
  /\ NoColumn \notin Columns

VARIABLES
  kind,      \* the bind array: each column "absent" (no buffer), "plain" or "long"
  on,        \* the joined aliases that the ON condition of each JOIN mentions
  trailer,   \* and those that WHERE, ORDER BY and the like mention
  optimize,  \* the argument: drop unused JOINs
  pc,        \* what comes next
  text,      \* the column list that the statement is prepared with
  kept,      \* JOINs it is prepared with
  todo,      \* JOINs that pass 2 has not looked at, the last comes first
  boundTo,   \* column number -> the buffer SQLBindCol() was given
  streamed,  \* how many bind entries stream_result() has been through, and the
             \* column number it is at
  buffer     \* the column each buffer was filled with

input == <<kind, on, trailer, optimize>>
vars == <<input, pc, text, kept, todo, boundTo, streamed, buffer>>

Steps == {"process", "columns", "joins", "bind", "execute", "stream", "done", "empty"}

TypeOK ==
  /\ kind \in [Columns -> {"absent", "plain", "long"}]
  /\ on \in [Range(Joins) -> SUBSET Range(Joins)]
  /\ trailer \subseteq Range(Joins) /\ optimize \in BOOLEAN
  /\ pc \in Steps
  /\ text \in Seq(Columns) /\ IsInjective(text)
  /\ kept \subseteq Range(Joins) /\ IsPrefix(todo, Joins)
  /\ boundTo \in Seq(Columns)
  /\ streamed.entry \in 0..Len(ColumnOf) /\ streamed.column \in 0..Len(text)
  /\ buffer \in [Columns -> Columns \cup {NoColumn}]

\* The ON condition of a JOIN mentions its own table and tables before it.
UpTo(j) == {Joins[k] : k \in 1..(CHOOSE k \in DOMAIN Joins : Joins[k] = j)}

Init ==
  /\ kind \in [Columns -> {"absent", "plain", "long"}]
  /\ on \in [Range(Joins) -> SUBSET Range(Joins)]
  /\ \A j \in Range(Joins) : j \in on[j] /\ on[j] \subseteq UpTo(j)
  /\ trailer \in SUBSET Range(Joins)
  /\ optimize \in BOOLEAN
  /\ pc = "process"
  /\ text = <<>> /\ kept = {} /\ todo = Joins /\ boundTo = <<>>
  /\ streamed = [entry |-> 0, column |-> 0]
  /\ buffer = [c \in Columns |-> NoColumn]

------------------------------------------------------------------------------
\* process_select()

Empty == \A c \in Columns : kind[c] = "absent"
Fast == \A c \in Columns : kind[c] = "plain"

Of(k) == {c \in Columns : kind[c] = k}

\* A pass over the bind array that takes the columns of C.
InOrder(C) ==
  LET upTo[c \in 0..Len(ColumnOf)] ==
        IF c = 0 THEN <<>> ELSE IF c \in C THEN Append(upTo[c - 1], c) ELSE upTo[c - 1]
  IN  upTo[Len(ColumnOf)]
InList(k) == InOrder(Of(k))

\* Nothing to select: the statement stays empty and is never executed.
ProcessEmpty ==
  /\ pc = "process" /\ Empty
  /\ pc' = "empty"
  /\ UNCHANGED <<input, text, kept, todo, boundTo, streamed, buffer>>

\* Every column is there and none is long data: the text is used as it is.
ProcessFast ==
  /\ pc = "process" /\ Fast /\ ~Empty
  /\ ~optimize \/ Joins = <<>>
  /\ text' = InList("plain") /\ kept' = Range(Joins) /\ todo' = <<>>
  /\ pc' = "bind"
  /\ UNCHANGED <<input, boundTo, streamed, buffer>>

\* Mutant of ColumnList: one pass over the columns.
ColumnListInOrder == InOrder(Columns \ Of("absent"))
\* Mutant of ColumnList: the second pass does not look at the kind.
ColumnListTwice == InList("plain") \o ColumnListInOrder
\* Two passes: the plain columns, then the long data.
ColumnList == InList("plain") \o InList("long")

ProcessColumns ==
  /\ pc = "process" /\ ~Empty /\ ~(Fast /\ (~optimize \/ Joins = <<>>))
  /\ text' = ColumnList
  /\ pc' = "joins"
  /\ UNCHANGED <<input, kept, todo, boundTo, streamed, buffer>>

\* Mutant of Used: the ON conditions are not searched.
UsedOutsideJoins(a) == a \in trailer \/ \E c \in Range(text) : ColumnOf[c] = a
\* An alias is looked for in the statement built so far: the column list, the
\* trailer and the JOINs after this one that stay.
Used(a) == \/ a \in trailer
           \/ \E c \in Range(text) : ColumnOf[c] = a
           \/ \E j \in kept : a \in on[j]

\* The JOINs are spliced in from the last to the first.
ProcessJoin ==
  /\ pc = "joins" /\ todo # <<>>
  /\ kept' = kept \cup {j \in {Last(todo)} : Used(j)}
  /\ todo' = Front(todo)
  /\ UNCHANGED <<input, pc, text, boundTo, streamed, buffer>>

JoinsDone ==
  /\ pc = "joins" /\ todo = <<>>
  /\ pc' = "bind"
  /\ UNCHANGED <<input, text, kept, todo, boundTo, streamed, buffer>>

------------------------------------------------------------------------------
\* bind_result(): the entries that have a buffer and are not long data, in the
\* order of the bind array, are columns 1, 2, ... of the statement.
BindResult ==
  /\ pc = "bind"
  /\ boundTo' = InList("plain")
  /\ pc' = "execute"
  /\ UNCHANGED <<input, text, kept, todo, streamed, buffer>>

LongCount == Cardinality(Of("long"))

\* execute() and fetch(): SQLFetch() puts column n into the n-th bound buffer.
Fetch ==
  /\ pc = "execute"
  /\ buffer' = [c \in Columns |->
       LET n == {k \in DOMAIN boundTo : boundTo[k] = c}
       IN  IF n = {} THEN NoColumn ELSE text[CHOOSE k \in n : TRUE]]
  /\ streamed' = [entry |-> 0, column |-> Len(boundTo)]
  /\ pc' = IF LongCount # 0 THEN "stream" ELSE "done"
  /\ UNCHANGED <<input, text, kept, todo, boundTo>>

\* Mutant of Streams: an entry without a buffer is not skipped.
StreamsAbsent(c) == kind[c] # "plain"
\* stream_result() goes through the bind array again.
Streams(c) == kind[c] = "long"

StreamResult ==
  /\ pc = "stream"
  /\ LET c == streamed.entry + 1
     IN  IF Streams(c) /\ streamed.column < Len(text)
         THEN /\ buffer' = [buffer EXCEPT ![c] = text[streamed.column + 1]]
              /\ streamed' = [entry |-> c, column |-> streamed.column + 1]
         ELSE /\ streamed' = [streamed EXCEPT !.entry = c]
              /\ UNCHANGED buffer
  /\ pc' = IF streamed.entry + 1 = Len(ColumnOf) THEN "done" ELSE "stream"
  /\ UNCHANGED <<input, text, kept, todo, boundTo>>

Next == \/ ProcessEmpty \/ ProcessFast \/ ProcessColumns \/ ProcessJoin \/ JoinsDone
        \/ BindResult \/ Fetch \/ StreamResult

Spec == Init /\ [][Next]_vars

------------------------------------------------------------------------------
\* Properties

\* Each member is filled from its own column and an absent one from none,
\* although the text, the bound columns and the streamed columns are counted in
\* three places.
MembersGetTheirColumns ==
  pc = "done" => \A c \in Columns :
    buffer[c] = (IF kind[c] = "absent" THEN NoColumn ELSE c)

\* The driver gives SQLGetData() only columns after the last one that is bound:
\* no long data column is within the bound ones, and the assertion of execute(),
\* columns_ == result_count_ + long_count_, holds.
LongDataLast ==
  pc = "execute" =>
    /\ Len(text) = Len(boundTo) + LongCount
    /\ \A k \in DOMAIN text : kind[text[k]] = "long" => k > Len(boundTo)

\* What the statement needs is the least set of JOINs that has every alias of the
\* columns and the trailer and is closed under the ON conditions.
Closed(S) == \A a \in Range(Joins) :
  (\/ a \in trailer
   \/ \E c \in Range(text) : ColumnOf[c] = a
   \/ \E j \in S : a \in on[j] \ {j})
    => a \in S
Needed == {a \in Range(Joins) : \A S \in SUBSET Range(Joins) : Closed(S) => a \in S}

\* A pass over the JOINs from the last to the first finds just those: no alias
\* of the statement is left without its table, and no table is joined in vain.
JoinsAreTheNeeded ==
  (pc = "bind" /\ (optimize \/ ~Fast)) => kept = Needed
==============================================================================
