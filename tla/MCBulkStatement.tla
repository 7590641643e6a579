--------------------------- MODULE MCBulkStatement ---------------------------
(****************************************************************************)
(* Instances of BulkStatement for TLC.  SQL Server adds a warning to an     *)
(* integrity violation ("The statement has been terminated").               *)
(****************************************************************************)
EXTENDS BulkStatement

MCRowErrors == {<<"23000", "01000">>, <<"HY000">>, <<"23000", "HY000">>, <<"HYT00">>}
MCWholeErrors == {<<"HY000">>, <<"08S01">>, <<"23000">>}
==============================================================================
