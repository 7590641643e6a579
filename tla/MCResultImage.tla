---------------------------- MODULE MCResultImage ----------------------------
(****************************************************************************)
(* Instances of StatementCache, and of ResultImage in it, for TLC: a result *)
(* without rows among others with more than one.                            *)
(****************************************************************************)
EXTENDS StatementCache, TLC

CONSTANTS r1, r2, r3

MCRows == (r1 :> 2) @@ (r2 :> 1) @@ (r3 :> 0)
==============================================================================
