------------------------------ MODULE Queries ------------------------------
(****************************************************************************)
(* An application builds a query from columns, values, variables and native *)
(* text, in the classes of this database and as a common query at once, has *)
(* one of the two prepared and executes it while its variables change.      *)
(* What each operation means to the application is kept beside the query,   *)
(* to compare it with what the server reads.                                *)
(****************************************************************************)
EXTENDS QueryDynamic

CONSTANTS BoolColumns,     \* those of ShortColumns that are bool
          Vars,            \* variables that parameters refer to
          Operands,        \* bound: conditions that are combined
          MaxConditions,   \* bound: conditions in a query
          MaxValues        \* bound: values of an in()

\* A column with the name of a keyword is not written into native text as it is.
ASSUME QueriesAssumption ==
  /\ BoolColumns \subseteq ShortColumns /\ NativeColumns \subseteq Columns
  /\ NativeColumns \cap (SqlWords \cup Keywords) = {}
  /\ \A k \in Keywords : <<"ORDER BY", k>> \notin BeginsWith
  /\ Values \subseteq Nat /\ MaxConditions \in Nat /\ MaxValues \in Nat

VARIABLES
  expr,       \* the query so far: query, common, what it means, conditions, ordered?
  variable,   \* what the variables hold
  prepared,   \* the prepared statement, or NoStatement
  answer      \* the text that the server has read, since the variables last changed

vars == <<expr, variable, prepared, answer>>

Valuations == [Vars -> Values]
\* What a query means: which rows it selects, as the variables are.
Everything == [v \in Valuations |-> Always(TRUE)]

Expr(q, c, m, n) ==
  [query |-> q, common |-> c, means |-> m, conditions |-> n, negated |-> FALSE, ordered |-> FALSE]
NoExpr == Expr(None, <<>>, Everything, 0)
NoStatement == [text |-> <<<<"none">>>>, parameters |-> <<>>, bound |-> <<>>, image |-> <<>>,
                means |-> Everything, common |-> FALSE]
NoAnswer == <<"none">>

Init ==
  /\ expr = NoExpr /\ prepared = NoStatement /\ answer = NoAnswer
  /\ variable \in Valuations

------------------------------------------------------------------------------
\* Conditions of one column, in both classes, with what they mean

Params(c) == {ValueParam(c \in LongColumns, v) : v \in Values}
               \cup {RefParam(c \in LongColumns, x) : x \in Vars}
Meant(p, v) == <<"value", IF p.by = "value" THEN p.value ELSE v[p.var]>>
Meaning(operand, v) == IF IsColumn(operand) THEN operand ELSE Meant(operand[2], v)

ComparisonExpr(op, x, y) ==
  Expr(Comparison(op, x, y), CommonComparison(op, x, y),
       [v \in Valuations |-> ComparisonTruth(op, Meaning(x, v), Meaning(y, v))], 1)

ComparisonsOf(c) ==
  (UNION {{ComparisonExpr(op, Column(c), <<"param", p>>), ComparisonExpr(op, <<"param", p>>, Column(c))}
            : op \in Comparisons, p \in Params(c)})
    \cup {ComparisonExpr(op, Column(c), Column(d)) : op \in Comparisons, d \in ShortColumns \ {c}}

NullTestsOf(c) ==
  {Expr(IsNull(Column(c)), CommonNull("IS NULL", Column(c)),
        [v \in Valuations |-> NullTruth(Column(c))], 1),
   Expr(IsNotNull(Column(c)), CommonNull("IS NOT NULL", Column(c)),
        [v \in Valuations |-> NotOf(NullTruth(Column(c)))], 1)}

ValueLists == UNION {[1..n -> {ValueParam(FALSE, w) : w \in Values}] : n \in 0..MaxValues}
InExpr(c, ps) ==
  Expr(In(Column(c), ps), CommonOfColumn("op_in", Column(c), ps),
       [v \in Valuations |->
          IF ps = <<>> THEN Always(FALSE)
          ELSE InTruth(Column(c), [i \in DOMAIN ps |-> Meant(ps[i], v)])], 1)
InOf(c) == {InExpr(c, ps) : ps \in ValueLists}

LikeExpr(c, p) ==
  Expr(LikePattern(Column(c), p), CommonOfColumn("op_like", Column(c), <<p>>),
       [v \in Valuations |-> LikeTruth(Column(c), Meant(p, v), <<>>)], 1)
EscapeExpr(c, p, e) ==
  Expr(LikeEscape(Column(c), p, e), CommonOfColumn("op_like_escape", Column(c), <<p, e>>),
       [v \in Valuations |-> LikeTruth(Column(c), Meant(p, v), <<Meant(e, v)>>)], 1)
LikesOf(c) ==
  {LikeExpr(c, p) : p \in Params(c)}
    \cup (UNION {{EscapeExpr(c, p, ValueParam(FALSE, w)) : w \in Values} : p \in Params(c)})

BoolExpr(c) ==
  Expr(BoolColumn(Column(c)),
       CommonComparison("=", Column(c), <<"param", ValueParam(FALSE, 1)>>),
       [v \in Valuations |-> ComparisonTruth("=", Column(c), <<"value", 1>>)], 1)
Literal(b) ==
  Expr(Part(Bool(b)), Leaf(IF b THEN "true" ELSE "false", <<>>),
       [v \in Valuations |-> Always(b)], 1)

\* Conditions in native text, whose first word may begin like a keyword, with a
\* parameter after or before the text.
NativeNull(c) ==
  Expr(Part(Native(<<c, "IS NULL">>)), Leaf("native", <<c, "IS NULL">>),
       [v \in Valuations |-> NullTruth(Column(c))], 1)
ParamAfter(q, c, p) ==
  Expr(q, CommonAdd(Leaf("native", <<c, "=">>), CommonParam(p)),
       [v \in Valuations |-> ComparisonTruth("=", Column(c), Meant(p, v))], 1)
ParamBefore(q, c, p) ==
  Expr(q, CommonAdd(CommonParam(p), Leaf("native", <<"=", c>>)),
       [v \in Valuations |-> ComparisonTruth("=", Meant(p, v), Column(c))], 1)
NativesOf(c) ==
  {NativeNull(c)} \cup
  (UNION {{ParamAfter(TextAndParam(<<c, "=">>, p), c, p),
           ParamAfter(AddedParam(Part(Native(<<c, "=">>)), p), c, p),
           ParamBefore(ParamAndText(p, <<"=", c>>), c, p),
           ParamBefore(ParamAdded(p, Part(Native(<<"=", c>>))), c, p)} : p \in Params(c)})

Conditions ==
  (UNION {ComparisonsOf(c) \cup NullTestsOf(c) : c \in Columns})
    \cup (UNION {InOf(c) \cup LikesOf(c) : c \in ShortColumns})
    \cup {BoolExpr(c) : c \in BoolColumns} \cup (UNION {NativesOf(c) : c \in NativeColumns})
    \cup {Literal(b) : b \in BOOLEAN}

ASSUME OperandsAssumption == Operands \subseteq Conditions

------------------------------------------------------------------------------
\* Combining them

Both(q, c, m, x, y) == Expr(q, c, m, x.conditions + y.conditions)
BothMean(x, y) == [v \in Valuations |-> AndOf(x.means[v], y.means[v])]
EitherMeans(x, y) == [v \in Valuations |-> OrOf(x.means[v], y.means[v])]
AndExpr(x, y) == Both(And(x.query, y.query), CommonAnd(x.common, y.common), BothMean(x, y), x, y)
OrExpr(x, y) == Both(Or(x.query, y.query), CommonOr(x.common, y.common), EitherMeans(x, y), x, y)
\* x + "OR" + y, or x + ("OR" + y)
TextOrExpr(x, y) ==
  Both(IF x.conditions = 1 THEN Added(x.query, TextAdded(<<"OR">>, y.query))
       ELSE Added(AddedText(x.query, <<"OR">>), y.query),
       CommonAdd(CommonAdd(x.common, Leaf("native", <<"OR">>)), y.common), EitherMeans(x, y), x, y)
NotExpr(x) ==
  [Expr(Negated(x.query), CommonNot(x.common), [v \in Valuations |-> NotOf(x.means[v])],
        x.conditions) EXCEPT !.negated = TRUE]
\* x + "ORDER BY" + c
OrderedExpr(x, c) ==
  [x EXCEPT !.query = AddedColumn(AddedText(@, <<"ORDER BY">>), c),
            !.common = CommonAdd(CommonAdd(@, Leaf("native", <<"ORDER BY">>)), CommonColumn(Column(c))),
            !.ordered = TRUE]

\* Bounds: what is combined with an operand are operands, their negations and what
\* is already combined, and no NOT is put before a NOT.
IsCondition == expr.conditions > 0 /\ ~expr.ordered
Combines ==
  /\ IsCondition
  /\ \/ expr.conditions > 1
     \/ \E y \in Operands : expr.query \in {y.query, Negated(y.query)}
Become(x) ==
  /\ x.conditions <= MaxConditions
  /\ expr' = x
  /\ UNCHANGED <<variable, prepared, answer>>

Make == expr = NoExpr /\ prepared = NoStatement /\ \E x \in Conditions : Become(x)
Conjoin == Combines /\ \E y \in Operands : Become(AndExpr(expr, y)) \/ Become(AndExpr(y, expr))
Disjoin == Combines /\ \E y \in Operands : Become(OrExpr(expr, y)) \/ Become(OrExpr(y, expr))
JoinText == Combines /\ \E y \in Operands : Become(TextOrExpr(expr, y)) \/ Become(TextOrExpr(y, expr))
Negate == IsCondition /\ ~expr.negated /\ Become(NotExpr(expr))
Order == ~expr.ordered /\ prepared = NoStatement /\ \E c \in ShortColumns : Become(OrderedExpr(expr, c))

------------------------------------------------------------------------------
\* Preparing and executing

\* Long data by value is bound as it is, and an empty copy has no buffer.
HasBuffer(p) == ~(p.by = "value" /\ p.long /\ p.value = 0)
Buffers(bind, count) ==
  LET kept[n \in 0..count] ==
        IF n = 0 THEN <<>>
        ELSE IF HasBuffer(bind[n]) THEN Append(kept[n - 1], bind[n]) ELSE kept[n - 1]
  IN  kept[count]

\* The statement binds the buffers there are, in order, to the question marks.
Prepare(common) ==
  /\ expr # NoExpr
  /\ LET x == IF common THEN Translated(expr.common) ELSE expr.query IN
     \E q \in {x, Optimized(x)} :
       prepared' = [text |-> Clause(q), parameters |-> q.parameters,
                    bound |-> Buffers(q.bind, q.count),
                    image |-> [p \in {r \in ToSet(q.parameters) : r.by = "ref"} |-> Null],
                    means |-> expr.means, common |-> common]
  /\ expr' = NoExpr
  /\ UNCHANGED <<variable, answer>>

InitParameters(image) == [p \in DOMAIN image |-> variable[p.var]]

Sent(p, image) ==
  CASE p.by = "value" -> p.value
    [] p.by = "ref" /\ ~p.long -> image[p]
    [] p.by = "ref" /\ p.long -> variable[p.var]   \* the callback is called now

\* The text with the values of the bound parameters for its question marks.
Marks(text, n) == Cardinality({i \in 1..n : text[i] = Param})
Filled(text, values) ==
  [i \in DOMAIN text |->
     IF text[i] = Param THEN <<"value", values[Marks(text, i)]>> ELSE text[i]]

\* Every execution initialises the parameters first.  The server wants a value
\* for each question mark.
Execute ==
  /\ prepared # NoStatement
  /\ LET image == InitParameters(prepared.image)
         values == [n \in DOMAIN prepared.bound |-> Sent(prepared.bound[n], image)]
     IN  /\ prepared' = [prepared EXCEPT !.image = image]
         /\ answer' = IF Marks(prepared.text, Len(prepared.text)) = Len(values)
                      THEN <<"read", Filled(prepared.text, values)>>
                      ELSE <<"refused">>
  /\ UNCHANGED <<expr, variable>>

Change ==
  /\ \E x \in Vars, v \in Values : variable' = [variable EXCEPT ![x] = v]
  /\ answer' = NoAnswer
  /\ UNCHANGED <<expr, prepared>>

Finish ==
  /\ prepared # NoStatement
  /\ prepared' = NoStatement /\ answer' = NoAnswer
  /\ UNCHANGED <<expr, variable>>

Next ==
  \/ Make \/ Conjoin \/ Disjoin \/ JoinText \/ Negate \/ Order
  \/ \E common \in BOOLEAN : Prepare(common)
  \/ Execute \/ Change \/ Finish

Spec == Init /\ [][Next]_vars

------------------------------------------------------------------------------
\* Properties

TypeOK ==
  /\ expr.conditions \in 0..MaxConditions /\ {expr.negated, expr.ordered} \subseteq BOOLEAN
  /\ expr.means \in [Valuations -> [Rows -> 0..2]]
  /\ variable \in Valuations
  /\ answer \in {NoAnswer, <<"refused">>} \/ (Len(answer) = 2 /\ answer[1] = "read")
  /\ \A q \in {expr.query, Translated(expr.common)} : q.count = Marks(q.clause, Len(q.clause))

\* However a query is put together, and translated or not, there are as many
\* parameters as question marks, each has initialised the binding in its own
\* place, and the statement is told of all of them.
PlaceholdersMatchParameters ==
  \A q \in {expr.query, Translated(expr.common)} :
    /\ q.bind = q.parameters
    /\ q.count = Len(q.bind)
    /\ Len(q.parameters) = Marks(q.clause, Len(q.clause))

\* The rows that the server selects are those that the application meant, with
\* the values that parameters had when they were built and variables have now.
Answered ==
  CASE answer = NoAnswer -> TRUE
    [] answer = <<"refused">> -> \E p \in ToSet(prepared.parameters) : ~HasBuffer(p)
    [] OTHER -> LET x == Condition(answer[2]) IN
                /\ x.ok
                /\ \A row \in Rows : Selects(x, row) <=> prepared.means[variable][row] = 2

\* A text built by the operators of query_base and query_column selects the rows
\* that its conditions mean: parentheses keep AND, OR, NOT and native text apart,
\* a condition gets its WHERE, and each question mark has its own value, as of
\* construction or as of now.  Only a statement with an empty long value is refused.
TextMeansTheQuery == ~prepared.common => Answered

\* And so does the translation of the common query.
TranslationMeansTheQuery == prepared.common => Answered
==============================================================================
