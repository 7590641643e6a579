---------------------------- MODULE ConnectionPool ----------------------------
(****************************************************************************)
(* connection_pool_factory: the bounded pool of connections that threads    *)
(* share.  A mutex protects connections_, in_use_ and waiters_; a thread    *)
(* that finds neither an idle connection nor room for a new one blocks on a *)
(* condition variable.  A body that runs under the mutex is one step; the   *)
(* mutex is given up only in cond_.wait(), so a wait splits its function in *)
(* two steps.  The connection object that release() does not keep is        *)
(* deleted after the mutex is released, in a step of its own.               *)
(****************************************************************************)
EXTENDS Naturals, Sequences, FiniteSets

CONSTANTS Threads,            \* application threads that call connect()
          Owner,              \* the thread that builds and destroys the factory
          Conns,              \* identities of connection objects
          NoConn,             \* "no connection"
          MaxConn,            \* max_: most connections at once, 0 = no limit
          MinConn,            \* min_: connections to keep, 0 = keep them all
          MaxCreateFailures   \* bound: how often create() throws

\* The constructor's assertion, and what makes the sets usable.
ASSUME PoolAssumption ==
  /\ IsFiniteSet(Threads)
  /\ Owner \notin Threads
  /\ NoConn \notin Conns
  /\ MaxConn \in Nat /\ MinConn \in Nat /\ MaxCreateFailures \in Nat
  /\ MaxConn = 0 \/ MaxConn >= MinConn

VARIABLES
  pc,              \* where each thread is in connect(), release() or the destructor
  conn,            \* the connection a thread holds, or is about to delete
  connections_,    \* idle connections; the back of the vector is the last one
  in_use_,         \* counter: connections handed out
  waiters_,        \* counter: threads inside cond_.wait() or on their way out
  failed,          \* connections in state_failed
  createFailures   \* how often create() has thrown

vars == <<pc, conn, connections_, in_use_, waiters_, failed, createFailures>>

Procs == Threads \cup {Owner}

ThreadPC == {"idle", "waiting", "woken", "holding", "deleting"}
OwnerPC == {"filling", "serving", "waiting", "woken", "destroyed"}

Idle == {connections_[i] : i \in 1..Len(connections_)}
Holders == {t \in Threads : pc[t] = "holding"}
Busy == {t \in Threads : pc[t] \in {"holding", "deleting"}}
Blocked == {p \in Procs : pc[p] = "waiting"}
Waiters == {p \in Procs : pc[p] \in {"waiting", "woken"}}

\* Connection objects that exist, and the one the next "new" returns.
Live == Idle \cup {conn[t] : t \in Busy}
Fresh == CHOOSE c \in Conns : c \notin Live

TypeOK ==
  /\ pc \in [Procs -> ThreadPC \cup OwnerPC]
  /\ \A t \in Threads : pc[t] \in ThreadPC
  /\ pc[Owner] \in OwnerPC
  /\ conn \in [Threads -> Conns \cup {NoConn}]
  /\ connections_ \in Seq(Conns)
  /\ in_use_ \in Nat /\ waiters_ \in Nat
  /\ failed \subseteq Conns
  /\ createFailures \in 0..MaxCreateFailures

Init ==
  /\ pc = [p \in Procs |-> IF p = Owner THEN "filling" ELSE "idle"]
  /\ conn = [t \in Threads |-> NoConn]
  /\ connections_ = <<>>
  /\ in_use_ = 0
  /\ waiters_ = 0
  /\ failed = {}
  /\ createFailures = 0

------------------------------------------------------------------------------
\* database(): the loop that creates min_ connections before any thread can
\* reach the factory.

Fill ==
  /\ pc[Owner] = "filling"
  /\ IF Len(connections_) < MinConn
     THEN /\ \E c \in Conns : c \notin Live
          /\ connections_' = Append(connections_, Fresh)
          /\ UNCHANGED pc
     ELSE /\ pc' = [pc EXCEPT ![Owner] = "serving"]
          /\ UNCHANGED connections_
  /\ UNCHANGED <<conn, in_use_, waiters_, failed, createFailures>>

\* create() throws half-way: the database constructor unwinds and destroys the
\* factory, and the connections made so far with it.
FillThrows ==
  /\ pc[Owner] = "filling"
  /\ Len(connections_) < MinConn
  /\ createFailures < MaxCreateFailures
  /\ createFailures' = createFailures + 1
  /\ pc' = [pc EXCEPT ![Owner] = "destroyed"]
  /\ connections_' = <<>>
  /\ UNCHANGED <<conn, in_use_, waiters_, failed>>

------------------------------------------------------------------------------
\* connect()

\* Mutant of HasRoom: one connection too many.
HasRoomForOneMore == MaxConn = 0 \/ in_use_ <= MaxConn

\* A new connection may be created only while fewer than max_ are in use.
HasRoom == MaxConn = 0 \/ in_use_ < MaxConn

\* Mutant of HandOut: in_use_++ forgotten.
HandOutUncounted(t, c) ==
  /\ pc' = [pc EXCEPT ![t] = "holding"]
  /\ conn' = [conn EXCEPT ![t] = c]
  /\ UNCHANGED in_use_

HandOut(t, c) ==
  /\ pc' = [pc EXCEPT ![t] = "holding"]
  /\ conn' = [conn EXCEPT ![t] = c]
  /\ in_use_' = in_use_ + 1

\* One turn of the while loop, entered with the mutex held and waiters_ = w.
Attempt(t, w) ==
  \/ /\ connections_ # <<>>
     /\ HandOut(t, connections_[Len(connections_)])
     /\ connections_' = SubSeq(connections_, 1, Len(connections_) - 1)
     /\ waiters_' = w
     /\ UNCHANGED <<failed, createFailures>>
  \/ /\ connections_ = <<>> /\ HasRoom
     /\ \E c \in Conns : c \notin Live
     /\ HandOut(t, Fresh)
     /\ waiters_' = w
     /\ UNCHANGED <<connections_, failed, createFailures>>
  \/ /\ connections_ = <<>> /\ HasRoom
     /\ createFailures < MaxCreateFailures
     /\ createFailures' = createFailures + 1       \* create() throws
     /\ pc' = [pc EXCEPT ![t] = "idle"]
     /\ waiters_' = w
     /\ UNCHANGED <<conn, connections_, in_use_, failed>>
  \/ /\ connections_ = <<>> /\ ~HasRoom
     /\ pc' = [pc EXCEPT ![t] = "waiting"]
     /\ waiters_' = w + 1
     /\ UNCHANGED <<conn, connections_, in_use_, failed, createFailures>>

Connect(t) ==
  /\ pc[t] = "idle" /\ pc[Owner] = "serving"
  /\ Attempt(t, waiters_)

\* cond_.wait() returns with the mutex held again: waiters_--, then the loop.
Reacquire(t) ==
  /\ pc[t] = "woken"
  /\ Attempt(t, waiters_ - 1)

\* A condition variable may wake a thread that no one signalled.
SpuriousWakeup(p) ==
  /\ pc[p] = "waiting"
  /\ pc' = [pc EXCEPT ![p] = "woken"]
  /\ UNCHANGED <<conn, connections_, in_use_, waiters_, failed, createFailures>>

------------------------------------------------------------------------------
\* The holder of a connection.

\* An ODBC diagnostic says the connection is lost: connection::mark_failed().
MarkFailed(t) ==
  /\ pc[t] = "holding"
  /\ failed' = failed \cup {conn[t]}
  /\ UNCHANGED <<pc, conn, connections_, in_use_, waiters_, createFailures>>

\* Mutants of Keep: the failed check forgotten, and an off-by-one in min_.
KeepFailed(c) ==
  waiters_ # 0 \/ MinConn = 0 \/ Len(connections_) + in_use_ <= MinConn
KeepFewer(c) ==
  /\ c \notin failed
  /\ waiters_ # 0 \/ MinConn = 0 \/ Len(connections_) + in_use_ < MinConn

\* Decided before in_use_ is decremented, so the sum counts c itself.
Keep(c) ==
  /\ c \notin failed
  /\ waiters_ # 0 \/ MinConn = 0 \/ Len(connections_) + in_use_ <= MinConn

\* cond_.signal() wakes one of the threads blocked in wait(), if there is one.
Signal(f) ==
  IF Blocked = {} THEN {f} ELSE {[f EXCEPT ![p] = "woken"] : p \in Blocked}

\* Mutant of Signalled: the thread is woken only when there is a connection for
\* it to take, so dropping a failed connection wakes no one.
SignalledIfKept(t, keep) ==
  LET f == [pc EXCEPT ![t] = IF keep THEN "idle" ELSE "deleting"]
  IN  IF keep /\ waiters_ # 0 THEN Signal(f) ELSE {f}

\* The threads' positions after t's release(): a waiter is signalled whether
\* or not the connection was kept.
Signalled(t, keep) ==
  LET f == [pc EXCEPT ![t] = IF keep THEN "idle" ELSE "deleting"]
  IN  IF waiters_ # 0 THEN Signal(f) ELSE {f}

\* Mutant of Pooled: the connection is pushed back whether it is kept or not.
PooledAlways(c, keep) == Append(connections_, c)

Pooled(c, keep) == IF keep THEN Append(connections_, c) ELSE connections_

\* The last reference goes away: zero_counter() calls release().  The caller
\* deletes the connection when it was not kept.
Release(t) ==
  /\ pc[t] = "holding"
  /\ LET keep == Keep(conn[t]) IN
       /\ connections_' = Pooled(conn[t], keep)
       /\ conn' = [conn EXCEPT ![t] = IF keep THEN NoConn ELSE @]
       /\ pc' \in Signalled(t, keep)
  /\ in_use_' = in_use_ - 1
  /\ UNCHANGED <<waiters_, failed, createFailures>>

\* Outside the mutex: ~connection() disconnects from the server.
Delete(t) ==
  /\ pc[t] = "deleting"
  /\ pc' = [pc EXCEPT ![t] = "idle"]
  /\ conn' = [conn EXCEPT ![t] = NoConn]
  /\ failed' = failed \ {conn[t]}
  /\ UNCHANGED <<connections_, in_use_, waiters_, createFailures>>

------------------------------------------------------------------------------
\* ~connection_pool_factory().  No thread may be in connect() when an object is
\* destroyed, and none calls it afterwards; holders may still be there.

\* Mutant of OwnerTurn: the destructor does not count itself as a waiter.
OwnerTurnUncounted(w) ==
  /\ IF in_use_ = 0
     THEN pc' = [pc EXCEPT ![Owner] = "destroyed"] /\ connections_' = <<>>
     ELSE pc' = [pc EXCEPT ![Owner] = "waiting"] /\ UNCHANGED connections_
  /\ UNCHANGED <<conn, in_use_, waiters_, failed, createFailures>>

\* One test of "while (in_use_ != 0)", entered with the mutex held.
OwnerTurn(w) ==
  /\ IF in_use_ = 0
     THEN /\ pc' = [pc EXCEPT ![Owner] = "destroyed"]
          /\ connections_' = <<>>
          /\ waiters_' = w
     ELSE /\ pc' = [pc EXCEPT ![Owner] = "waiting"]
          /\ waiters_' = w + 1
          /\ UNCHANGED connections_
  /\ UNCHANGED <<conn, in_use_, failed, createFailures>>

Destroy ==
  /\ pc[Owner] = "serving"
  /\ \A t \in Threads : pc[t] \notin {"waiting", "woken"}
  /\ OwnerTurn(waiters_)

OwnerReacquire ==
  /\ pc[Owner] = "woken"
  /\ OwnerTurn(waiters_ - 1)

------------------------------------------------------------------------------
ThreadNext(t) ==
  \/ Connect(t) \/ Reacquire(t) \/ MarkFailed(t) \/ Release(t) \/ Delete(t)

Next ==
  \/ Fill \/ FillThrows \/ Destroy \/ OwnerReacquire
  \/ \E t \in Threads : ThreadNext(t)
  \/ \E p \in Procs : SpuriousWakeup(p)

Spec == Init /\ [][Next]_vars

\* A woken thread is scheduled and gets the mutex, a holder drops its connection
\* sooner or later, and a thread inside a function goes on.  Nobody has to call
\* connect() or the destructor, and no connection has to fail.
Fairness ==
  /\ WF_vars(Fill) /\ WF_vars(OwnerReacquire)
  /\ \A t \in Threads : WF_vars(Reacquire(t)) /\ WF_vars(Release(t)) /\ WF_vars(Delete(t))

FairSpec == Spec /\ Fairness

------------------------------------------------------------------------------
\* Properties

\* Every connection object has one owner: it is idle in the pool, or held, or
\* being deleted by exactly one thread, and never two of these at once; and
\* in_use_ counts exactly the connections that are held.
OneOwner ==
  /\ in_use_ = Cardinality(Holders)
  /\ \A t, u \in Busy : t # u => conn[t] # conn[u]
  /\ \A t \in Busy : conn[t] \in Conns \ Idle
  /\ \A i, j \in 1..Len(connections_) : connections_[i] = connections_[j] => i = j

\* waiters_ counts the threads (the destructor's included) that are blocked or
\* have been woken and do not hold the mutex yet.
WaitersCounted == waiters_ = Cardinality(Waiters)

\* Idle and used connections together never exceed max_: connect() takes the
\* idle ones before it creates one.
Capacity == MaxConn # 0 => Len(connections_) + in_use_ <= MaxConn

\* A connection that failed is never put back into the pool.
FailedNeverPooled == failed \cap Idle = {}

\* A sound connection is dropped only while the pool keeps min_ others, and
\* never when min_ is 0.
ShrinksToMin ==
  [][\A t \in Threads :
       (pc[t] = "holding" /\ pc'[t] = "deleting" /\ conn[t] \notin failed) =>
         MinConn # 0 /\ Len(connections_') + in_use_' >= MinConn]_vars

\* As long as create() has not thrown, no wake-up is lost: whenever a thread
\* is blocked in connect(), every slot that is free has a woken thread on its
\* way to take it.
NoStrandedWaiter ==
  (createFailures = 0 /\ Blocked \cap Threads # {}) =>
    MaxConn <= in_use_ + Cardinality(Waiters \ Blocked)

\* Connections are handed out or threads stop waiting: as long as create() has
\* not thrown, somebody can block for ever only because others keep getting
\* connections (the pool does not queue its waiters).
Served(t) == pc[t] # "holding" /\ pc'[t] = "holding"
WaitersProgress ==
  \A t \in Threads :
    ([](createFailures = 0) /\ <>[](pc[t] \in {"waiting", "woken"})) =>
      []<><<\E u \in Threads : Served(u)>>_vars

\* Once every holder has let go, the destructor returns.
DestructorReturns == (pc[Owner] = "waiting") ~> (pc[Owner] = "destroyed")

\* The pool keeps the promises of Leasing.
leaseOf == [t \in Threads |-> IF pc[t] = "holding" THEN conn[t] ELSE NoConn]
L == INSTANCE Leasing WITH lease <- leaseOf, broken <- failed
ImplementsLeasing == L!Spec

\* What makes these invariants inductive: a failed connection is with the thread
\* that found it failed; before the factory serves, and once its destructor has
\* begun, no thread is in connect(); while it is being filled nothing is used.
FailedHeld == failed \subseteq {conn[t] : t \in Busy}
Phases ==
  /\ pc[Owner] # "serving" => \A t \in Threads : pc[t] \notin {"waiting", "woken"}
  /\ pc[Owner] = "filling" => \A t \in Threads : pc[t] = "idle"
IInv == TypeOK /\ OneOwner /\ WaitersCounted /\ Capacity /\ FailedHeld /\ Phases

\* What the code does not guarantee (see the findings).

\* "Wait until someone releases a connection": a thread that is blocked, when
\* no woken thread is about to act, waits for a connection that is in use.
WaitsForARelease ==
  Blocked \cap Threads # {} => (in_use_ # 0 \/ Waiters \ Blocked # {})
==============================================================================
