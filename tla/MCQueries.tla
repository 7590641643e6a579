----------------------------- MODULE MCQueries -----------------------------
(****************************************************************************)
(* Instances of Queries for TLC.                                            *)
(****************************************************************************)
EXTENDS Queries

\* A column whose name begins like a keyword, and the long name of the call.
MCBeginsWith == {<<"HAVINGS", "HAVING">>, <<"EXECUTE", "EXEC">>}

\* A short parameter by value, long data by reference, and TRUE.
MCOperands ==
  {ComparisonExpr("<", <<"param", ValueParam(FALSE, 1)>>, Column("a")),
   ComparisonExpr("=", Column("l"), <<"param", RefParam(TRUE, "x")>>), Literal(TRUE)}
==============================================================================
