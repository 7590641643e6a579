------------------------------- MODULE Leasing -------------------------------
(****************************************************************************)
(* What a connection pool promises to the threads that use it, with nothing *)
(* said of how: a connection is leased to one thread at a time, no more     *)
(* than MaxConn leases are out at once, and a connection that broke while   *)
(* it was leased is never leased again.  ConnectionPool implements it.      *)
(****************************************************************************)
EXTENDS Naturals, FiniteSets

CONSTANTS Threads,   \* threads that ask for connections
          Conns,     \* identities of connection objects
          NoConn,    \* "no connection"
          MaxConn    \* most leases at once; 0 = no limit

VARIABLES lease,     \* lease[t] is the connection thread t holds, or NoConn
          broken     \* connections known to be unusable

vars == <<lease, broken>>

Out == {t \in Threads : lease[t] # NoConn}

Init ==
  /\ lease = [t \in Threads |-> NoConn]
  /\ broken = {}

\* A thread without a lease gets a sound connection that no one else holds.
Lend(t, c) ==
  /\ lease[t] = NoConn
  /\ c \notin broken
  /\ \A u \in Threads : lease[u] # c
  /\ MaxConn # 0 => Cardinality(Out) < MaxConn
  /\ lease' = [lease EXCEPT ![t] = c]
  /\ UNCHANGED broken

\* The leased connection turns out to be unusable.
Break(t) ==
  /\ lease[t] # NoConn
  /\ broken' = broken \cup {lease[t]}
  /\ UNCHANGED lease

GiveBack(t) ==
  /\ lease[t] # NoConn
  /\ lease' = [lease EXCEPT ![t] = NoConn]
  /\ UNCHANGED broken

\* A broken connection that no one holds is destroyed; its identity (the
\* address of the object) may name another connection afterwards.
Discard(c) ==
  /\ c \in broken
  /\ \A u \in Threads : lease[u] # c
  /\ broken' = broken \ {c}
  /\ UNCHANGED lease

Next ==
  \/ \E t \in Threads, c \in Conns : Lend(t, c)
  \/ \E t \in Threads : Break(t) \/ GiveBack(t)
  \/ \E c \in Conns : Discard(c)

Spec == Init /\ [][Next]_vars
==============================================================================
