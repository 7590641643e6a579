---------------------------- MODULE MCTransactions ----------------------------
(****************************************************************************)
(* Instances of Transactions for TLC: the diagnostics that tell the cases   *)
(* of translate_error() apart.                                              *)
(****************************************************************************)
EXTENDS Transactions, TLC

MCStatementErrors == {<<"23000">>, <<"HYT00">>, <<"01000", "40001">>, <<"40001", "HY000">>, <<>>}
MCLinkErrors == {<<"08S01">>, <<"HYT01">>, <<"HY000", "08S01">>, <<"?????">>}
MCEndTranErrors == {<<"25S03">>, <<"01000", "40001">>, <<"HYC00">>, <<"HYT00">>,
                    <<"40002", "HY000">>, <<"25S03", "?????">>, <<"01000", "?????">>, <<"?????">>}

\* SQLEndTran() fails only with what settles the transaction.
MCRolledBack == {<<"25S03">>, <<"01000", "40001">>}

\* Connections are interchangeable.
Symmetry == Permutations(Conns)
==============================================================================
