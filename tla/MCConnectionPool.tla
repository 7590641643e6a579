--------------------------- MODULE MCConnectionPool ---------------------------
(****************************************************************************)
(* Instances of ConnectionPool for TLC.  Every thread may have a connection *)
(* it is deleting while the pool is full, so this many identities are       *)
(* enough for "new" never to run out of them.                               *)
(****************************************************************************)
EXTENDS ConnectionPool

ASSUME EnoughConns == Cardinality(Conns) >= MaxConn + Cardinality(Threads)
==============================================================================
