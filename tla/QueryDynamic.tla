---------------------------- MODULE QueryDynamic ----------------------------
(****************************************************************************)
(* Database-independent queries (odb::query_base of libodb, as translate()  *)
(* uses it) and their translation.  A common query is a list of parts in    *)
(* postfix order: an operator is the last of its parts, "data" of a binary  *)
(* one is the place of its left operand, that of IN the number of values.   *)
(****************************************************************************)
EXTENDS QueryClause

CommonPart(op, data, info) == [op |-> op, data |-> data, info |-> info]
Leaf(op, info) == <<CommonPart(op, 0, info)>>
Binary == {"op_add", "op_and", "op_or"} \cup Comparisons
\* Each knows its query_column: where it is, and how its parameters are made.
CommonColumn(c) == Leaf("column", c)
CommonParam(p) == Leaf("param", <<"param", p>>)
IsTrue(s) == s = Leaf("true", <<>>)

\* Places move when a query is put behind another.
Moved(s, n) ==
  [i \in DOMAIN s |-> IF s[i].op \in Binary THEN [s[i] EXCEPT !.data = @ + n] ELSE s[i]]
Combined(op, s, t) == s \o Moved(t, Len(s)) \o <<CommonPart(op, Len(s), <<>>)>>

CommonAdd(s, t) == IF s = <<>> THEN t ELSE IF t = <<>> THEN s ELSE Combined("op_add", s, t)
CommonAnd(s, t) == IF IsTrue(t) THEN s ELSE IF IsTrue(s) THEN t ELSE Combined("op_and", s, t)
CommonOr(s, t) == Combined("op_or", s, t)
CommonNot(s) == s \o Leaf("op_not", <<>>)

OtherWay == [op \in Comparisons |->
  CASE op = "<" -> ">" [] op = ">" -> "<" [] op = "<=" -> ">=" [] op = ">=" -> "<=" [] OTHER -> op]
\* Operands are columns and parameters; the column comes first in the list.
CommonOperand(x) == IF IsColumn(x) THEN CommonColumn(x) ELSE CommonParam(x[2])
CommonComparison(op, x, y) ==
  IF IsColumn(x) THEN Combined(op, CommonOperand(x), CommonOperand(y))
                 ELSE Combined(OtherWay[op], CommonOperand(y), CommonOperand(x))
CommonNull(op, c) == CommonColumn(c) \o Leaf(op, <<>>)
\* The column, values or pattern with escape character, and their number.
CommonOfColumn(op, c, ps) ==
  CommonColumn(c) \o [i \in DOMAIN ps |-> CommonPart("param", 0, <<"param", ps[i]>>)]
    \o <<CommonPart(op, Len(ps), <<>>)>>

------------------------------------------------------------------------------
\* query_param_factory_impl(): a parameter of its own, made from the value or the
\* variable of the common one.
Made(x) == x.info[2]

\* x and what is appended to it: native text goes on in the native part before it.
Glued(x, y) ==
  IF /\ x.clause # <<>> /\ Kind(Last(x.clause)) = "native"
     /\ y.clause # <<>> /\ Kind(Head(y.clause)) = "native"
  THEN Plus(AppendNative(x, Head(y.clause)[2]), [y EXCEPT !.clause = Tail(@)])
  ELSE Plus(x, y)

\* translate(): what is appended for the part p of s and all it is made of, given
\* what is appended for the parts before.

\* Mutant of BothSides: the left operand is taken for the part before the right
\* one, whatever size that has.
BothSidesAdjacent(s, p, words, made) == Glued(AppendNative(made[p - 2], words), made[p - 1])
BothSides(s, p, words, made) == Glued(AppendNative(made[s[p].data], words), made[p - 1])

\* With no optimisation of TRUE here.
TranslateLogic(s, p, words, made) ==
  AppendNative(Glued(Part(Native(<<"(">>)), BothSides(s, p, words, made)), <<")">>)

TranslateIn(s, p, made) ==
  LET first == p - s[p].data
      list[i \in first..(p - 1)] ==
        IF i = first THEN Glued(AppendNative(made[first - 1], <<"IN", "(">>), made[i])
        ELSE Glued(AppendNative(list[i - 1], <<",">>), made[i])
  IN  IF s[p].data = 0 THEN Part(Bool(FALSE)) ELSE AppendNative(list[p - 1], <<")">>)

Translate(s, p, made) ==
  LET x == s[p] IN
  CASE x.op = "column" -> AppendColumn(None, x.info[2])
    [] x.op = "param" -> AppendParam(None, Made(x))
    [] x.op = "native" -> AppendNative(None, x.info)
    [] x.op \in {"true", "false"} -> Part(Bool(x.op = "true"))
    [] x.op = "op_add" -> Glued(made[x.data], made[p - 1])
    [] x.op = "op_and" -> TranslateLogic(s, p, <<")", "AND", "(">>, made)
    [] x.op = "op_or" -> TranslateLogic(s, p, <<")", "OR", "(">>, made)
    [] x.op = "op_not" ->
         AppendNative(Glued(Part(Native(<<"NOT", "(">>)), made[p - 1]), <<")">>)
    [] x.op \in {"IS NULL", "IS NOT NULL"} -> AppendNative(made[p - 1], <<x.op>>)
    [] x.op = "op_in" -> TranslateIn(s, p, made)
    [] x.op = "op_like" -> Glued(AppendNative(made[p - 2], <<"LIKE">>), made[p - 1])
    [] x.op = "op_like_escape" ->
         Glued(AppendNative(Glued(AppendNative(made[p - 3], <<"LIKE">>), made[p - 2]),
                            <<"ESCAPE">>), made[p - 1])
    [] x.op \in Comparisons -> BothSides(s, p, <<x.op>>, made)

\* The constructor from a common query.
Translated(s) ==
  LET made[p \in DOMAIN s] == Translate(s, p, made)
  IN  IF s = <<>> THEN None ELSE made[Len(s)]
==============================================================================
