----------------------------- MODULE Transactions -----------------------------
(****************************************************************************)
(* transaction_impl over pooled connections: how the database's sessions,   *)
(* the exceptions and the pool stay in step.  A connection works in manual  *)
(* commit mode, so the server opens a transaction at the first statement    *)
(* and keeps it open until SQLEndTran() or the disconnect, whatever objects *)
(* exist on the client.  The pool is used through what Leasing promises.    *)
(****************************************************************************)
EXTENDS ErrorTranslation, FiniteSets

CONSTANTS Threads, Conns, NoConn, MaxConn,   \* as in Leasing
          Keepers,            \* threads whose application takes connections itself
          MaxTx,              \* bound: transactions begun
          MaxFailures,        \* bound: failed ODBC calls and lost links
          StatementErrors,    \* diagnostics of a failed statement (tuples of codes)
          LinkErrors,         \* diagnostics of any call on a lost connection
          EndTranErrors       \* diagnostics of a failed SQLEndTran()

\* There may be no record at all, and a record need not be readable.
ASSUME TransactionsAssumption ==
  /\ NoConn \notin Conns /\ MaxTx \in Nat /\ MaxFailures \in Nat
  /\ StatementErrors \cup LinkErrors \cup EndTranErrors \subseteq Seq(Codes)

VARIABLES
  lease, broken,   \* the pool (see Leasing); broken: state_failed
  keeps,           \* threads whose application holds a connection_ptr of its own
  phase,           \* the thread's transaction object
  work,            \* number of the thread's transaction, 0 = none (Outside)
  begun,           \* transactions begun so far
  outcome,         \* what the application has been told about each transaction
  results,         \* transactions whose query results are open, per connection
  cursor,          \* whose work left the cursor of direct_stmt_ open, {} = closed
  open,            \* server: whose uncommitted work is in c's session
  committed,       \* server: transactions whose work was committed
  undone,          \* server: transactions whose work was rolled back
  lost,            \* connections whose link is gone
  suspect,         \* connections that reported a lost link, or a failed SQLEndTran()
                   \* with a record that did not say what became of the transaction
  unheard,         \* connections whose failed SQLEndTran() said nothing that can be read
  failures         \* failed calls and lost links so far

poolVars == <<lease, broken>>
clientVars == <<keeps, phase, work, begun, outcome, results, cursor>>
serverVars == <<open, committed, undone, lost>>
trust == <<suspect, unheard>>
vars == <<poolVars, clientVars, serverVars, trust, failures>>

Pool == INSTANCE Leasing

Tx == 1..MaxTx

\* Statements that no transaction object stands for run in the session too.
Outside == 0
Work == Tx \cup {Outside}

\* "active": statements may be run; "doomed": an exception left the scope of the
\* transaction, whose destructor will roll it back; "thrown": commit() or
\* rollback() threw, so the object is finalized and still has its connection.
TypeOK ==
  /\ lease \in [Threads -> Conns \cup {NoConn}] /\ broken \subseteq Conns
  /\ keeps \subseteq Keepers \cap Threads
  /\ phase \in [Threads -> {"none", "active", "doomed", "thrown"}]
  /\ work \in [Threads -> Work] /\ begun \in 0..MaxTx
  /\ \A t \in Threads : phase[t] # "none" => lease[t] \in Conns /\ work[t] \in Tx
  /\ outcome \in [Tx -> {"unknown", "committed", "rolled_back", "not_ended", "failed"}]
  /\ results \in [Conns -> SUBSET Tx] /\ cursor \in [Conns -> SUBSET Work]
  /\ open \in [Conns -> SUBSET Work]
  /\ committed \subseteq Tx /\ undone \subseteq Tx
  /\ lost \subseteq Conns /\ suspect \subseteq Conns /\ unheard \subseteq Conns
  /\ failures \in 0..MaxFailures

Init ==
  /\ Pool!Init
  /\ keeps = {} /\ phase = [t \in Threads |-> "none"]
  /\ work = [t \in Threads |-> Outside] /\ begun = 0
  /\ outcome = [x \in Tx |-> "unknown"]
  /\ results = [c \in Conns |-> {}] /\ cursor = [c \in Conns |-> {}]
  /\ open = [c \in Conns |-> {}]
  /\ committed = {} /\ undone = {} /\ lost = {} /\ suspect = {} /\ unheard = {}
  /\ failures = 0

------------------------------------------------------------------------------
\* The server's side of a session: what is open is committed or undone, what was
\* done outside of transactions (whose fate is not followed) with it.

Settle(c, how) ==
  /\ open' = [open EXCEPT ![c] = {}]
  /\ IF how = "commit"
     THEN committed' = committed \cup (open[c] \ {Outside}) /\ UNCHANGED undone
     ELSE undone' = undone \cup (open[c] \ {Outside}) /\ UNCHANGED committed

\* The driver closes the cursors of a session whose transaction has ended.
CloseCursor(c) == cursor' = [cursor EXCEPT ![c] = {}]

\* The diagnostic records of a call that is not part of a batch.
Records(e) == [i \in 1..Len(e) |-> [code |-> e[i], row |-> NoRow]]
Has(e, codes) == \E i \in 1..Len(e) : e[i] \in codes

\* What a failed call may answer: SQL_ERROR with records, some of them or all
\* unreadable, or with none; or a return code that has no records.
Answers(errors, bare) ==
  {[code |-> "ERROR", diag |-> e] : e \in errors} \cup {[code |-> r, diag |-> <<>>] : r \in bare}
StatementAnswers(c) ==
  Answers(IF c \in lost THEN LinkErrors ELSE StatementErrors, {"STILL_EXECUTING", "INVALID_HANDLE"})
EndTranAnswers(c) == Answers(IF c \in lost THEN LinkErrors ELSE EndTranErrors, BareReturns)

\* translate_error() for a failed call on t's connection.
Failed(t, a, endTran) ==
  /\ failures < MaxFailures /\ failures' = failures + 1
  /\ IF Translate(a.code, Records(a.diag), endTran, NoRow).marks
     THEN Pool!Break(t)
     ELSE UNCHANGED poolVars

\* Did the diagnostics of a call on t's connection report a lost link?
Reports(t, e) == suspect' = IF Has(e, LinkCodes) THEN suspect \cup {lease[t]} ELSE suspect

------------------------------------------------------------------------------
\* database::connection(): the application takes a connection for itself.
TakeConnection(t) ==
  /\ t \in Keepers \ keeps /\ phase[t] = "none"
  /\ \E c \in Conns : Pool!Lend(t, c)
  /\ keeps' = keeps \cup {t}
  /\ UNCHANGED <<phase, work, begun, outcome, results, cursor, serverVars, trust, failures>>

DropConnection(t) ==
  /\ phase[t] = "none" /\ t \in keeps
  /\ Pool!GiveBack(t)
  /\ keeps' = keeps \ {t}
  /\ UNCHANGED <<phase, work, begun, outcome, results, cursor, serverVars, trust, failures>>

\* start(): grabs a connection if the transaction was not given one.  Nothing is
\* sent to the server.
Start(t) ==
  /\ phase[t] = "none" /\ begun < MaxTx
  /\ IF t \in keeps THEN UNCHANGED poolVars ELSE \E c \in Conns : Pool!Lend(t, c)
  /\ begun' = begun + 1
  /\ work' = [work EXCEPT ![t] = begun + 1]
  /\ phase' = [phase EXCEPT ![t] = "active"]
  /\ UNCHANGED <<keeps, outcome, results, cursor, serverVars, trust, failures>>

\* No statement asks for a transaction: one can run on the connection of the
\* thread's transaction, or on one that the application has taken.
MayRun(t) == phase[t] = "active" \/ (phase[t] # "doomed" /\ t \in keeps)
Whose(t) == IF phase[t] = "active" THEN work[t] ELSE Outside

\* An exception leaves the transaction's scope, if there is a transaction.
Doom(t) == phase' = [phase EXCEPT ![t] = IF @ = "active" THEN "doomed" ELSE @]

\* A statement runs; a query (of a transaction) leaves a result open.  The server
\* begins a transaction when none is open, for whoever runs the statement.
Execute(t, query) ==
  /\ MayRun(t) /\ lease[t] \notin lost \cup suspect
  /\ query => phase[t] = "active"
  /\ open' = [open EXCEPT ![lease[t]] = @ \cup {Whose(t)}]
  /\ results' = [results EXCEPT ![lease[t]] = IF query THEN @ \cup {work[t]} ELSE @]
  /\ UNCHANGED <<poolVars, keeps, phase, work, begun, outcome, cursor, committed, undone,
                 lost, trust, failures>>

\* Mutant of StatementFails: the return code is not checked, so no exception.
StatementFailsUnseen(t) ==
  /\ MayRun(t) /\ lease[t] \notin lost /\ failures < MaxFailures
  /\ failures' = failures + 1
  /\ Settle(lease[t], "undo")
  /\ UNCHANGED <<poolVars, clientVars, lost, trust>>

\* A statement fails: the exception leaves the transaction's scope.  SQL Server
\* has rolled the transaction back if it was chosen as a deadlock victim.
StatementFails(t) ==
  /\ MayRun(t)
  /\ \E a \in StatementAnswers(lease[t]) :
       /\ Failed(t, a, FALSE) /\ Reports(t, a.diag)
       /\ IF Has(a.diag, {"40001"}) THEN Settle(lease[t], "undo")
                                    ELSE UNCHANGED <<open, committed, undone>>
  /\ Doom(t)
  /\ UNCHANGED <<keeps, work, begun, outcome, results, cursor, lost, unheard>>

\* connection::execute(): the text is executed on direct_stmt_, what it selects is
\* counted and the cursor closed; but the exception of a failed fetch leaves it open.
ExecuteDirect(t) ==
  /\ Execute(t, FALSE)
  /\ cursor[lease[t]] = {}

FetchFails(t) ==
  /\ MayRun(t) /\ lease[t] \notin lost \cup suspect /\ cursor[lease[t]] = {}
  /\ \E a \in StatementAnswers(lease[t]) :
       ~Has(a.diag, {"40001"}) /\ Failed(t, a, FALSE) /\ Reports(t, a.diag)
  /\ open' = [open EXCEPT ![lease[t]] = @ \cup {Whose(t)}]
  /\ cursor' = [cursor EXCEPT ![lease[t]] = {Whose(t)}]
  /\ Doom(t) \/ UNCHANGED phase
  /\ UNCHANGED <<keeps, work, begun, outcome, results, committed, undone, lost, unheard>>

\* SQLSTATE 24000: "invalid cursor state".
DirectRefused(t) ==
  /\ MayRun(t) /\ lease[t] \notin lost \cup suspect /\ cursor[lease[t]] # {}
  /\ Doom(t)
  /\ UNCHANGED <<poolVars, keeps, work, begun, outcome, results, cursor, serverVars, trust,
                 failures>>

\* The application reads a result to the end, or destroys it.
CloseResult(t) ==
  /\ phase[t] # "none" /\ work[t] \in results[lease[t]]
  /\ results' = [results EXCEPT ![lease[t]] = @ \ {work[t]}]
  /\ UNCHANGED <<poolVars, keeps, phase, work, begun, outcome, cursor, serverVars, trust,
                 failures>>

------------------------------------------------------------------------------
\* commit() and rollback() differ in what SQLEndTran() is asked to do.

\* connection_.reset(): the last reference unless the application has one too.
Reset(t) == IF t \in keeps THEN UNCHANGED poolVars ELSE Pool!GiveBack(t)

\* connection::invalidate_results()
Invalidate(t) == results' = [results EXCEPT ![lease[t]] = {}]

Told(t, what) == outcome' = [outcome EXCEPT ![work[t]] = what]

\* Mutant of EndTran: the connection goes back before the transaction is ended.
EndTranAfterReset(t, how) ==
  /\ Reset(t)
  /\ phase' = [phase EXCEPT ![t] = "none"]
  /\ work' = [work EXCEPT ![t] = Outside]
  /\ Told(t, IF how = "commit" THEN "committed" ELSE "rolled_back")
  /\ UNCHANGED <<results, cursor, keeps, begun, serverVars, trust, failures>>

\* Query results are invalidated, SQLEndTran() succeeds, and the connection is
\* released.
EndTran(t, how) ==
  /\ lease[t] \notin lost \cup suspect
  /\ Invalidate(t) /\ CloseCursor(lease[t])
  /\ Settle(lease[t], how)
  /\ Told(t, IF how = "commit" THEN "committed" ELSE "rolled_back")
  /\ Reset(t)
  /\ phase' = [phase EXCEPT ![t] = "none"]
  /\ work' = [work EXCEPT ![t] = Outside]
  /\ UNCHANGED <<keeps, begun, lost, trust, failures>>

\* invalidate_results() throws: SQLFreeStmt() of an open result failed, and
\* SQLEndTran() is never called.
InvalidateFails(t) ==
  /\ results[lease[t]] # {}
  /\ \E a \in StatementAnswers(lease[t]) :
       ~Has(a.diag, {"40001"}) /\ Failed(t, a, FALSE) /\ Reports(t, a.diag)
  /\ Told(t, "not_ended")
  /\ phase' = [phase EXCEPT ![t] = "thrown"]
  /\ UNCHANGED <<keeps, work, begun, results, cursor, serverVars, unheard>>

\* The records say what became of the transaction; warnings and records that
\* cannot be read say nothing of it.
Settled(e) == Has(e, SettledCodes) /\ ~Has(e, Codes \ (SettledCodes \cup {"01000", "?????"}))

\* What a failed SQLEndTran() leaves behind.  The transaction is rolled back, or
\* nothing was done (HYC00), or the connection is suspended and no one knows if
\* the transaction was committed.
AfterFailedEndTran(t, e, how) ==
  LET c == lease[t] IN
  IF Settled(e)
  THEN /\ IF Has(e, SettledCodes \ {"HYC00"})
          THEN Settle(c, "undo") /\ CloseCursor(c)
          ELSE UNCHANGED <<open, committed, undone, cursor>>
       /\ Told(t, IF Has(e, {"HYC00"}) THEN "not_ended" ELSE "failed")
       /\ UNCHANGED trust
  ELSE /\ \/ c \notin lost /\ Settle(c, how)
          \/ UNCHANGED <<open, committed, undone>>
       /\ UNCHANGED cursor
       /\ Told(t, "failed")
       /\ IF Has(e, Codes \ {"?????"})
          THEN suspect' = suspect \cup {c} /\ UNCHANGED unheard
          ELSE unheard' = unheard \cup {c} /\ UNCHANGED suspect

\* Mutants of EndTranFails: the return code is not checked, so a commit that
\* failed looks like one that succeeded; the connection is released before the
\* code is checked.
EndTranFailsUnseen(t, how) ==
  /\ failures < MaxFailures /\ failures' = failures + 1
  /\ Invalidate(t)
  /\ Settle(lease[t], "undo")
  /\ Told(t, IF how = "commit" THEN "committed" ELSE "rolled_back")
  /\ Reset(t)
  /\ phase' = [phase EXCEPT ![t] = "none"]
  /\ work' = [work EXCEPT ![t] = Outside]
  /\ UNCHANGED <<cursor, keeps, begun, lost, trust>>
EndTranFailsReleased(t, how) ==
  /\ failures < MaxFailures /\ failures' = failures + 1
  /\ Invalidate(t) /\ Reset(t)
  /\ \E a \in EndTranAnswers(lease[t]) : AfterFailedEndTran(t, a.diag, how)
  /\ phase' = [phase EXCEPT ![t] = "thrown"]
  /\ UNCHANGED <<keeps, work, begun, lost>>

\* SQLEndTran() fails and the exception leaves commit() or rollback().
EndTranFails(t, how) ==
  /\ Invalidate(t)
  /\ \E a \in EndTranAnswers(lease[t]) :
       Failed(t, a, TRUE) /\ AfterFailedEndTran(t, a.diag, how)
  /\ phase' = [phase EXCEPT ![t] = "thrown"]
  /\ UNCHANGED <<keeps, work, begun, lost>>

Commit(t) ==
  /\ phase[t] = "active"
  /\ EndTran(t, "commit") \/ InvalidateFails(t) \/ EndTranFails(t, "commit")

Rollback(t) ==
  /\ phase[t] \in {"active", "doomed"}
  /\ EndTran(t, "undo") \/ InvalidateFails(t) \/ EndTranFails(t, "undo")

\* The transaction object is destroyed.  It is finalized, so nothing is rolled
\* back; the reference to the connection goes.
Destroy(t) ==
  /\ phase[t] = "thrown"
  /\ Reset(t)
  /\ phase' = [phase EXCEPT ![t] = "none"]
  /\ work' = [work EXCEPT ![t] = Outside]
  /\ UNCHANGED <<keeps, begun, outcome, results, cursor, serverVars, trust, failures>>

------------------------------------------------------------------------------
\* The link to a connection's session is lost; the server undoes what is open.
LinkLost(c) ==
  /\ c \notin lost /\ failures < MaxFailures
  /\ failures' = failures + 1
  /\ lost' = lost \cup {c}
  /\ Settle(c, "undo")
  /\ UNCHANGED <<poolVars, clientVars, trust>>

\* ~connection() of one the pool does not keep: the server undoes what is open.
Disconnect(c) ==
  /\ \A t \in Threads : lease[t] # c
  /\ open[c] \cup results[c] \cup cursor[c] # {} \/ c \in broken \cup lost \cup unheard
  /\ IF c \in broken THEN Pool!Discard(c) ELSE UNCHANGED poolVars
  /\ Settle(c, "undo")
  /\ results' = [results EXCEPT ![c] = {}] /\ CloseCursor(c)
  /\ lost' = lost \ {c} /\ suspect' = suspect \ {c} /\ unheard' = unheard \ {c}
  /\ UNCHANGED <<keeps, phase, work, begun, outcome, failures>>

Next ==
  \/ \E t \in Threads :
       \/ TakeConnection(t) \/ DropConnection(t) \/ Start(t)
       \/ Execute(t, TRUE) \/ Execute(t, FALSE) \/ StatementFails(t) \/ CloseResult(t)
       \/ ExecuteDirect(t) \/ FetchFails(t) \/ DirectRefused(t)
       \/ Commit(t) \/ Rollback(t) \/ Destroy(t)
  \/ \E c \in Conns : LinkLost(c) \/ Disconnect(c)

Spec == Init /\ [][Next]_vars

------------------------------------------------------------------------------
\* Properties

Ended(what) == {x \in Tx : outcome[x] = what}

\* When commit() has returned, all the work of the transaction was committed;
\* when rollback() has returned, all of it was undone.  Nothing of it is left in
\* a session, and no later transaction on the connection changes that.
ToldTheTruth ==
  /\ Ended("committed") \cap undone = {}
  /\ Ended("rolled_back") \cap committed = {}
  /\ \A c \in Conns : open[c] \cap (Ended("committed") \cup Ended("rolled_back")) = {}

\* A connection that goes back to the pool and is not marked failed has no
\* uncommitted work, no open result and no open cursor of execute(), with three
\* exceptions: the call that should have ended the transaction never reached
\* SQLEndTran() or was refused by it (not_ended); the statements were run outside
\* of a transaction, and nothing ended what the server had begun for them; or
\* SQLEndTran() failed and nothing could be read of why (unheard).
CleanWhenPooled ==
  \A c \in Conns \ (broken \cup unheard) : (\A t \in Threads : lease[t] # c) =>
    open[c] \cup results[c] \cup cursor[c] \subseteq Ended("not_ended") \cup {Outside}

\* A connection that reported a lost link, or that a failed SQLEndTran() left in
\* the suspended state with a record that shows it, is not leased to anyone again.
\* This is less than translate_error()'s comment wants ("should be disconnected
\* unless we know the transaction was rolled back"): what is only in unheard is
\* not marked, and is leased again.
SuspectsStayOut ==
  [][\A t \in Threads :
       (lease'[t] # lease[t] /\ lease'[t] # NoConn) => lease'[t] \notin suspect]_vars

\* A transaction's work is committed or undone as a whole, even when commit()
\* threw: its connection never carries a part of it over.
AllOrNothing == committed \cap undone = {}

\* What the code does not guarantee (see the findings): "In ODBC a transaction is
\* started automatically before the first statement is executed", so a session
\* holds no work but that of the transaction that is active on it (unless the one
\* before it ended no one knows how).
FirstStatementStartsTransaction ==
  \A t \in Threads :
    phase[t] = "active" /\ lease[t] \notin unheard => open[lease[t]] \subseteq {work[t]}
==============================================================================
