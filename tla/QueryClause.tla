----------------------------- MODULE QueryClause -----------------------------
(****************************************************************************)
(* query_base and query_column: a query is a list of clause parts, with its *)
(* parameters and their bindings kept in lists of their own.  Native text   *)
(* is a sequence of words (ORDER BY and IS NULL are one word).              *)
(****************************************************************************)
EXTENDS SequencesExt, SqlCondition

CONSTANT BeginsWith   \* <<w, k>>: the word w is longer than the keyword k it begins with

\* Parameters (query_param): by value they hold what the variable was when they
\* were constructed, by reference they know where it is.
ValueParam(long, v) == [by |-> "value", long |-> long, var |-> "", value |-> v]
RefParam(long, x) == [by |-> "ref", long |-> long, var |-> x, value |-> Null]

\* Clause parts
Native(words) == <<"native", words>>
Bool(b) == <<"bool", b>>
Column(c) == <<"column", c>>
Param == <<"param">>
Kind(part) == part[1]

\* The constructors.  count is that of the binding the statement is given.
None == [clause |-> <<>>, parameters |-> <<>>, bind |-> <<>>, count |-> 0]
Part(x) == [None EXCEPT !.clause = <<x>>]

------------------------------------------------------------------------------
\* Putting clauses together

\* append() of native text: after a native part it goes into that part.
AppendNative(x, words) ==
  IF x.clause # <<>> /\ Kind(Last(x.clause)) = "native"
  THEN [x EXCEPT !.clause[Len(x.clause)] = Native(@[2] \o words)]
  ELSE [x EXCEPT !.clause = Append(@, Native(words))]

AppendColumn(x, c) == [x EXCEPT !.clause = Append(@, Column(c))]

AppendParam(x, p) ==
  [clause |-> Append(x.clause, Param),
   parameters |-> Append(x.parameters, p),
   bind |-> Append(x.bind, p),
   count |-> Len(x.bind) + 1]

\* Mutant of Plus: the bindings of y are not counted when x has some.
PlusCountsFirst(x, y) ==
  [clause |-> x.clause \o y.clause,
   parameters |-> x.parameters \o y.parameters,
   bind |-> x.bind \o y.bind,
   count |-> IF x.bind = <<>> THEN Len(y.bind) ELSE x.count]
\* Mutant of Plus: the bindings of y go in front.
PlusBindsInFront(x, y) ==
  [clause |-> x.clause \o y.clause,
   parameters |-> x.parameters \o y.parameters,
   bind |-> y.bind \o x.bind,
   count |-> Len(x.bind \o y.bind)]
\* x += y: parts, parameters and bindings are added, and the binding is updated
\* if there are new ones.
Plus(x, y) ==
  [clause |-> x.clause \o y.clause,
   parameters |-> x.parameters \o y.parameters,
   bind |-> x.bind \o y.bind,
   count |-> IF y.bind = <<>> THEN x.count ELSE Len(x.bind \o y.bind)]

\* The copy constructor.
Copy(x) == [x EXCEPT !.count = Len(x.bind)]

\* The operators + copy their left side and add to it; text and parameters become
\* queries when they are on the left.
Added(x, y) == Plus(Copy(x), y)
AddedText(x, words) == AppendNative(Copy(x), words)
AddedColumn(x, c) == AppendColumn(Copy(x), c)
TextAdded(words, x) == Plus(Part(Native(words)), x)
TextAndParam(words, p) == AppendParam(Part(Native(words)), p)
ParamAndText(p, words) == AppendNative(AppendParam(None, p), words)
AddedParam(x, p) == AppendParam(Copy(x), p)
ParamAdded(p, x) == Plus(AppendParam(None, p), x)

ConstTrue(x) == x.clause = <<Bool(TRUE)>>

\* Both operators put each side into parentheses, NOT does it with its one.
Joined(x, words, y) ==
  AppendNative(Plus(AppendNative(Plus(Part(Native(<<"(">>)), x), words), y), <<")">>)
Or(x, y) == Joined(x, <<")", "OR", "(">>, y)
And(x, y) ==
  IF ConstTrue(y) THEN Copy(x)
  ELSE IF ConstTrue(x) THEN Copy(y) ELSE Joined(x, <<")", "AND", "(">>, y)
\* Mutant of Negated: without the parentheses.
NegatedBare(x) == Plus(Part(Native(<<"NOT">>)), x)
Negated(x) == AppendNative(Plus(Part(Native(<<"NOT", "(">>)), x), <<")">>)

------------------------------------------------------------------------------
\* query_column.  An operand is a column or a parameter, as <<"column", c>> or
\* <<"param", p>>; one of the two is a column.

IsColumn(operand) == operand[1] = "column"
Compared(c, op, p) == AppendParam(AppendNative(Part(c), <<op>>), p[2])

Equal(x, y) == IF IsColumn(x) THEN Compared(x, "=", y) ELSE Compared(y, "=", x)
Unequal(x, y) == IF IsColumn(x) THEN Compared(x, "!=", y) ELSE Compared(y, "!=", x)
Less(x, y) == IF IsColumn(x) THEN Compared(x, "<", y) ELSE Compared(y, ">", x)
Greater(x, y) == IF IsColumn(x) THEN Compared(x, ">", y) ELSE Compared(y, "<", x)
LessEqual(x, y) == IF IsColumn(x) THEN Compared(x, "<=", y) ELSE Compared(y, ">=", x)
GreaterEqual(x, y) == IF IsColumn(x) THEN Compared(x, ">=", y) ELSE Compared(y, "<=", x)

ColumnsCompared(c, op, d) == AppendColumn(AppendNative(Part(c), <<op>>), d[2])

Comparison(op, x, y) ==
  IF IsColumn(x) /\ IsColumn(y) THEN ColumnsCompared(x, op, y)
  ELSE CASE op = "=" -> Equal(x, y)      [] op = "!=" -> Unequal(x, y)
         [] op = "<" -> Less(x, y)       [] op = ">" -> Greater(x, y)
         [] op = "<=" -> LessEqual(x, y) [] op = ">=" -> GreaterEqual(x, y)

IsNull(c) == AppendNative(Part(c), <<"IS NULL">>)
IsNotNull(c) == AppendNative(Part(c), <<"IS NOT NULL">>)

\* in() and in_range(); a range may be empty.
In(c, ps) ==
  LET list[n \in DOMAIN ps] ==
        IF n = 1 THEN AppendParam(AppendNative(Part(c), <<"IN", "(">>), ps[1])
        ELSE AppendParam(AppendNative(list[n - 1], <<",">>), ps[n])
  IN  IF ps = <<>> THEN Part(Bool(FALSE)) ELSE AppendNative(list[Len(ps)], <<")">>)

LikePattern(c, p) == AppendParam(AppendNative(Part(c), <<"LIKE">>), p)
LikeEscape(c, p, e) == AppendParam(AppendNative(LikePattern(c, p), <<"ESCAPE">>), e)

\* A bool column as a condition.
BoolColumn(c) == Compared(c, "=", <<"param", ValueParam(FALSE, 1)>>)

------------------------------------------------------------------------------
\* The text

Keywords == {"WHERE", "SELECT", "ORDER BY", "GROUP BY", "HAVING", "EXEC", "EXECUTE"}

\* The chain of comparisons stops at the first keyword that the text begins
\* with, EXEC before EXECUTE, and a blank or the end must follow that one.
CheckPrefix(words) ==
  Head(words) \in Keywords /\ ~\E k \in Keywords : <<Head(words), k>> \in BeginsWith

\* TRUE alone, or before another clause, is removed.
Optimized(x) ==
  IF /\ x.clause # <<>> /\ Head(x.clause) = Bool(TRUE)
     /\ \/ Len(x.clause) = 1
        \/ Kind(x.clause[2]) = "native" /\ CheckPrefix(x.clause[2][2])
  THEN [x EXCEPT !.clause = Tail(@)]
  ELSE x

ClausePrefix(x) ==
  IF \/ x.clause = <<>>
     \/ Kind(Head(x.clause)) = "native" /\ CheckPrefix(Head(x.clause)[2])
  THEN <<>>
  ELSE <<Word("WHERE")>>

Written(part) ==
  CASE Kind(part) = "native" -> [i \in DOMAIN part[2] |-> Word(part[2][i])]
    [] Kind(part) = "bool" -> <<Word(IF part[2] THEN "1 = 1" ELSE "1 = 0")>>
    [] OTHER -> <<part>>

\* The tokens of clause(); a parameter is a question mark.
Clause(x) ==
  ClausePrefix(x) \o FlattenSeq([i \in DOMAIN x.clause |-> Written(x.clause[i])])
==============================================================================
