-------------------------- MODULE MCSelectStatement --------------------------
(****************************************************************************)
(* Instances of SelectStatement for TLC: three joined tables, one of which  *)
(* has two columns, and every way to bind the columns and use the aliases.  *)
(****************************************************************************)
EXTENDS SelectStatement

CONSTANTS tbl, ja, jb, jc

MCJoins == <<ja, jb, jc>>
MCColumnOf == <<tbl, jc, jb, jc>>
==============================================================================
