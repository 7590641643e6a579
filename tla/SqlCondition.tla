---------------------------- MODULE SqlCondition ----------------------------
(****************************************************************************)
(* What the server makes of the text of a query, as far as the library      *)
(* writes such texts: how the words of a search condition bind, and which   *)
(* rows it selects in the three-valued logic of SQL.                        *)
(*                                                                          *)
(* Tokens are <<"word", w>> and the operands <<"column", c>> and            *)
(* <<"value", v>>.  A condition is what it says of each row.                *)
(****************************************************************************)
EXTENDS Sequences, Integers

CONSTANTS ShortColumns, LongColumns,   \* columns, of short and of long data
          NativeColumns,   \* columns that the application names in native text
          Values           \* what columns and variables can hold; 0 is empty

Null == -1
Columns == ShortColumns \cup LongColumns
Rows == [Columns -> Values \cup {Null}]

Comparisons == {"=", "!=", "<", ">", "<=", ">="}
SqlWords == Comparisons \cup
  {"WHERE", "ORDER BY", "(", ")", ",", "NOT", "AND", "OR", "IN", "LIKE", "ESCAPE",
   "IS NULL", "IS NOT NULL", "1 = 1", "1 = 0"}
Word(w) == <<"word", w>>

------------------------------------------------------------------------------
\* Truth: 0 is false, 1 unknown, 2 true.

Disjoined(x, y) == IF 2 \in {x, y} THEN 2 ELSE IF 1 \in {x, y} THEN 1 ELSE 0
Conjoined(x, y) == IF 0 \in {x, y} THEN 0 ELSE IF 1 \in {x, y} THEN 1 ELSE 2
Truth(b) == IF b THEN 2 ELSE 0

Operand(x, row) == IF x[1] = "column" THEN row[x[2]] ELSE x[2]

Compare(op, a, b) ==
  IF a = Null \/ b = Null THEN 1
  ELSE Truth(CASE op = "=" -> a = b   [] op = "!=" -> a # b
               [] op = "<" -> a < b   [] op = ">" -> a > b
               [] op = "<=" -> a <= b [] op = ">=" -> a >= b)

\* A pattern without wildcards matches itself, and nothing if all there is of it
\* is the escape character.
Like(a, p, escapes) ==
  IF a = Null THEN 1 ELSE Truth(a = p /\ p \notin escapes)

Always(b) == [row \in Rows |-> Truth(b)]
ComparisonTruth(op, x, y) == [row \in Rows |-> Compare(op, Operand(x, row), Operand(y, row))]
NullTruth(x) == [row \in Rows |-> Truth(Operand(x, row) = Null)]
InTruth(x, s) ==
  [row \in Rows |-> IF Operand(x, row) = Null THEN 1
                    ELSE Truth(\E i \in DOMAIN s : Operand(s[i], row) = Operand(x, row))]
LikeTruth(x, y, s) ==
  [row \in Rows |-> Like(Operand(x, row), Operand(y, row), {Operand(s[i], row) : i \in DOMAIN s})]

OrOf(f, g) == [row \in Rows |-> Disjoined(f[row], g[row])]
AndOf(f, g) == [row \in Rows |-> Conjoined(f[row], g[row])]
NotOf(f) == [row \in Rows |-> 2 - f[row]]

------------------------------------------------------------------------------
\* Reading a text: NOT binds closer than AND, AND closer than OR.  What is read
\* is a condition and the place after it; an error is an error of the whole.

At(t, i) == IF i <= Len(t) THEN t[i] ELSE <<"end">>
IsOperand(x) == x[1] \in {"column", "value"} \/ (x[1] = "word" /\ x[2] \in NativeColumns)
AsOperand(x) == IF x[1] = "word" THEN <<"column", x[2]>> ELSE x
Done(truth, i) == [ok |-> TRUE, truth |-> truth, next |-> i]
Failed == [ok |-> FALSE, truth |-> Always(FALSE), next |-> 0]

\* n values separated by commas and closed by a parenthesis.
IsList(t, i, n) ==
  /\ \A k \in 1..n : IsOperand(At(t, i + 2 * k - 2))
  /\ \A k \in 1..(n - 1) : At(t, i + 2 * k - 1) = Word(",")
  /\ At(t, i + 2 * n - 1) = Word(")")

ReadIn(t, i) ==
  IF \E n \in 1..Len(t) : IsList(t, i + 3, n)
  THEN LET n == CHOOSE n \in 1..Len(t) : IsList(t, i + 3, n)
       IN  Done(InTruth(AsOperand(t[i]), [k \in 1..n |-> t[i + 1 + 2 * k]]), i + 3 + 2 * n)
  ELSE Failed

ReadLike(t, i) ==
  IF At(t, i + 3) = Word("ESCAPE")
  THEN IF IsOperand(At(t, i + 4))
       THEN Done(LikeTruth(AsOperand(t[i]), t[i + 2], <<t[i + 4]>>), i + 5)
       ELSE Failed
  ELSE Done(LikeTruth(AsOperand(t[i]), t[i + 2], <<>>), i + 3)

\* An operand and what follows it.
ReadPredicate(t, i) ==
  LET w == At(t, i + 1) IN
  CASE w = Word("IS NULL") -> Done(NullTruth(AsOperand(t[i])), i + 2)
    [] w = Word("IS NOT NULL") -> Done(NotOf(NullTruth(AsOperand(t[i]))), i + 2)
    [] w = Word("IN") /\ At(t, i + 2) = Word("(") -> ReadIn(t, i)
    [] w = Word("LIKE") /\ IsOperand(At(t, i + 2)) -> ReadLike(t, i)
    [] w[1] = "word" /\ w[2] \in Comparisons /\ IsOperand(At(t, i + 2)) ->
         Done(ComparisonTruth(w[2], AsOperand(t[i]), AsOperand(t[i + 2])), i + 3)
    [] OTHER -> Failed

ReadAtom(t, i) ==
  CASE At(t, i) = Word("1 = 1") -> Done(Always(TRUE), i + 1)
    [] At(t, i) = Word("1 = 0") -> Done(Always(FALSE), i + 1)
    [] OTHER -> IF IsOperand(At(t, i)) THEN ReadPredicate(t, i) ELSE Failed

\* What is read at place i, given what is read at the later places: without AND
\* and OR; from x, which has been read there, with AND; and with both.
ReadNot(t, i, later) ==
  CASE At(t, i) = Word("NOT") ->
         LET x == later[i + 1].not
         IN  IF x.ok THEN Done(NotOf(x.truth), x.next) ELSE Failed
    [] At(t, i) = Word("(") ->
         LET x == later[i + 1].or
         IN  IF x.ok /\ At(t, x.next) = Word(")") THEN Done(x.truth, x.next + 1) ELSE Failed
    [] OTHER -> ReadAtom(t, i)

ReadAnd(t, x, later) ==
  IF ~x.ok \/ At(t, x.next) # Word("AND") THEN x
  ELSE LET y == later[x.next + 1].and
       IN  IF y.ok THEN Done(AndOf(x.truth, y.truth), y.next) ELSE Failed

ReadOr(t, x, later) ==
  IF ~x.ok \/ At(t, x.next) # Word("OR") THEN x
  ELSE LET y == later[x.next + 1].or
       IN  IF y.ok THEN Done(OrOf(x.truth, y.truth), y.next) ELSE Failed

ReadAt(t, i, later) ==
  LET x == ReadNot(t, i, later)
      y == ReadAnd(t, x, later)
  IN  [not |-> x, and |-> y, or |-> ReadOr(t, y, later)]

Reading(t) ==
  LET read[i \in 1..(Len(t) + 1)] == ReadAt(t, i, read) IN read

\* The condition of a statement that ends in the text t: after a WHERE, up to
\* the end or the ORDER BY.
Condition(t) ==
  LET x == Reading(t)[2].or IN
  CASE t = <<>> \/ At(t, 1) = Word("ORDER BY") -> Done(Always(TRUE), 1)
    [] At(t, 1) = Word("WHERE") ->
         IF x.ok /\ At(t, x.next) \in {<<"end">>, Word("ORDER BY")} THEN x ELSE Failed
    [] OTHER -> Failed

\* Does the statement return the row?
Selects(x, row) == x.ok /\ x.truth[row] = 2
==============================================================================
