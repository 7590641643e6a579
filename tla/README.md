# A TLA+ specification of libodb-mssql

libodb-mssql is the Microsoft SQL Server runtime of the ODB object-relational
mapping: the library between the code that the ODB compiler generates for an
application's classes and the ODBC driver. This directory models the parts of
it that hold state between calls, checks them with TLC on small instances, and
proves their safety with TLAPS for all instances.

Paths below are relative to `src/odb/mssql/`. `tlc -config X.cfg M` checks a run
listed in `PROJECT.json`; `tlapm M.tla` checks the proofs of a module (those whose
names end in `Proofs`).

## 1. The system

| Component | State | Operations | Hard behaviour | Correct when |
|---|---|---|---|---|
| Connection pool (`connection-factory`) | idle vector, `in_use_`, `waiters_`, mutex, condition variable | `connect`, `release`, `database`, destructor | waits that are woken late or for nothing, `create()` throwing, connections failing, destruction while in use | one owner per connection, counters exact, never above `max_`, no failed connection comes back, nobody waits in vain |
| Connection (`connection`) | `state_failed`, direct statement, long data buffer | `mark_failed`, `execute`, destructor (disconnect, which rolls back) | errors in any call decide its fate | a suspect connection is never reused |
| Transaction (`transaction-impl`) | the connection of the thread | `start`, `commit`, `rollback` | each step of `commit` can fail; the server opens transactions by itself | what the caller is told is what happened; nothing carries over to the next user |
| Error translation (`error`) | none (reads diagnostics) | `translate_error` | several records, several rows, two loops that share a decision | special errors are told apart, a broken link is noted |
| Result image (`*-result`, `statement.fetch`) | the one image of a class, the change callback | `next`, `load`, `load_id`, `invalidate` | several results and statements overwrite the image | a dereferenced result reads its own row |
| Bulk statement (`statement`) | status array, diagnostics, output array | `execute`, `result`, `affected` | some sets of a batch fail | each set reported once; ids in their place; counts exact |
| Single statement (`statement`, `statement-processing`) | text, bindings, cursor | processing, binding, fetching, streaming | columns numbered three times independently | each member gets its column; only useless JOINs are dropped |
| Object statements (`simple-object-statements`, `polymorphic-object-statements`) | a lock and delayed loads per class | `find`, a result's `load`, `load_delayed_`, callbacks | re-entrance, cyclic graphs over several classes, exceptions half way | one object at a time uses an image; locks, delayed loads and session agree |
| Query (`query`, `query-dynamic`) | clause parts, parameters, bindings | constructors, operators of queries and columns, `optimize`, `clause`, translation of common queries | parallel lists; a text that the server parses again; operands found by position; parameters shared by copies | the server selects the rows that the expression means, with the values of construction or of now |
| Value traits (`traits`, `query`) | images and parameter buffers; chunk position and buffers of long data | `set_image`, `set_value`, `bind`, `bind_param`; `execute` and `param` callbacks, `stream_result` and `result` callbacks | chunk boundaries, unknown totals, terminators; precision and scale in one number; units of money | a value survives the way to the server and back; a parameter looks like its column |
| Statement cache (`statement-cache`) | the sets of statements by class, the schema version sequence it has seen | `find_object`, `find_view` | results that are open while it is emptied | nothing stale is handed out, nothing in use is deleted |
| Container, section, view and no-id statements | bindings and statements made when first asked for | called by generated code | - | freed with their set; not modelled otherwise |
| Database, prepared queries, tracer, handles, options | configuration | forwarding | - | pure I/O or libodb's, not modelled |

How they interact. A thread begins a **transaction**, which takes a connection
from the **pool** through `database::connection_()`. Generated code takes the
**object statements** of that connection, locks them, and executes **statements**
whose bindings point into the shared **image**. ODBC errors go through
**error translation**, which throws and may mark the connection failed. The
**results** of a query register themselves with the image to be called before it
changes; image and statements belong to the class's set in the **statement cache**,
which is emptied when the schema version changes. `commit()` and `rollback()` close the open results, end the transaction
and drop the connection; dropping the last reference calls `release()`, which
looks at the failed mark. All threads share only the pool; a connection and
everything that hangs on it is used by one thread at a time.

## 2. Modules

| Module | Models | State corresponds to |
|---|---|---|
| `Leasing` | the abstract service: connections leased to one thread each, broken ones never again | - |
| `ConnectionPool` | `connection_pool_factory` | `connections_`, `in_use_`, `waiters_` as in the code; `pc` and `conn` are the threads' positions and local variables |
| `ErrorTranslation` | `translate_error()` as operators on sequences of records | - |
| `Transactions` | `transaction_impl` over `Leasing`, and the server's session | `lease`, `broken` stand for the pool; `open`, `committed`, `undone` are the server's |
| `ResultImage` | object, no-id and view results on one image | `image`, `context` (the callback), and `use_copy_`, the copy, `end_`, `can_load_` per result |
| `BulkStatement` | one batch through `bulk_statement` and its three users | `n_`, `i_`, `mex`, `cursor` as in the code; `outcome`, `affected` are the server's |
| `SelectStatement` | `process_select()`, `bind_result()`, `fetch()`, `stream_result()` | the text as a column list and a JOIN list; bind entries and their column numbers |
| `DelayedLoading` | `find()`, a result's `load()`, `load_delayed_()`, the guards and `post_load`, over classes that point to each other | `locked_`, `delayed_` of each class; the C++ stack as a sequence of frames; the session |
| `StatementCache` | `find_object()`, `find_view()` and the results that use what they return; extends `ResultImage` | `version_seq_`, `map_`; which emptying a result's set was made after |
| `LongData` | `set_image()` and `set_value()` of strings, arrays and vectors; the `param` and `result` callbacks of all long types, with the loops of `execute()` and `stream_result()` | `position`, `chunk`, `size` and the buffer as in the code; the member and the temporary buffer as sequences of characters |
| `Parameters` | the `bind()` of query parameters of each of the 22 types, and `bind_param()`, as operators | type, capacity and indicator of the bind structure; type, size and digits declared to the driver |
| `Values` | data, money, row versions and parameters on their way; extends `LongData` and `Parameters` | what is on its way and what became of it |
| `SqlCondition` | the server's side: how a search condition is read, from each place of the text, and which rows it selects | - |
| `QueryClause` | `query_base` and `query_column` as operators | `clause_`, `parameters_`, `bind_`, `binding_.count` |
| `QueryDynamic` | common queries (libodb's, as the code here reads them) and `translate()` | the parts of `odb::query_base` |
| `Queries` | an application that combines, prepares and executes queries while its variables change | the query in both forms beside what it means |
| `ConnectionPoolProofs`, `TransactionsProofs`, `StatementCacheProofs`, `DelayedLoadingProofs`, `BulkStatementProofs`, `SelectStatementProofs`, `ValuesProofs`, `QueriesProofs` | theorems about the module that each extends (section 5); that of the cache covers `ResultImage`, that of values `LongData` and `Parameters`, that of queries `QueryDynamic`, `QueryClause` and `SqlCondition` | - |

`Transactions` and `BulkStatement` extend `ErrorTranslation`; `Transactions`
instantiates `Leasing` as its pool, and `ConnectionPool` implements `Leasing`,
so what is checked of transactions holds over the real pool. `Queries` extends
`QueryDynamic`, `QueryClause` and `SqlCondition`. The `MC*` modules only give
constants their values.

**ConnectionPool.** A function body under the mutex is one action. The mutex is
given up only in `cond_.wait()`, so `connect()` is `Connect` (up to the wait) and
`Reacquire` (a turn of the loop after it); `release()` is one action, and the
connection that is not kept is deleted by `Delete` after the mutex is released.
`Signal` moves one blocked process, any of them, to "woken"; `SpuriousWakeup`
does so for no reason, as condition variables may. `create()` may throw
(`MaxCreateFailures` bounds it). The owner builds the pool (`Fill`), runs, and
destroys it (`Destroy`, `OwnerReacquire`).

**Transactions.** `Execute`, `StatementFails`, `InvalidateFails`, `EndTranFails`
and `LinkLost` are the ways a call ends, with the driver's records chosen from a
set that tells the cases of `translate_error()` apart: records that settle the
matter, others, unreadable ones, and none; or a return code that has no records
(`Answers`). A failed `SQLEndTran()` may have been carried out or not; if it said
nothing that can be read, the connection is not marked failed and goes back to the
pool as it is (`unheard`). The server opens a transaction at the first statement
and ends it at `SQLEndTran()` or the disconnect. No statement asks for a
transaction object (`MayRun`): the thread of an application that took a connection
itself (`Keepers`) runs statements on it before, between and after its
transactions, and drops it with what the server has begun for them (`Outside`).
Queries leave results open in a transaction only, as libodb's `database::query()`
asks for one. A transaction in which a statement failed is never committed by the
application: it is told of an exception and rolls back. `connection::execute()`
works on a statement of its own (`ExecuteDirect`): a failed fetch leaves its cursor
open (`FetchFails`), and until the server's transaction ends the next call is
refused (`DirectRefused`).

**ErrorTranslation.** The two loops are kept apart as in the code: the pre-scan,
which stops at the first record that settles the matter, decides on the special
exceptions; the second loop, filtered by row for batches, decides on the failed
mark. Wording is left out.

**ResultImage.** Images are known by the result and row they came from, or are
"another object" or "junk" (the remains of a truncated or failed fetch). A
result that is dereferenced loads from the image or from its copy, depending on
`use_copy_`.

**BulkStatement.** The environment's part (which sets fail, what records the
driver keeps for them, what `SQLRowCount` says) is marked external. Positions are
numbered from 1.

**SelectStatement.** A text is a list of column numbers and a set of JOINs; the
scanning of characters is left out. Everything the three numberings do is kept:
the re-ordering of long columns, the skipping of unbound ones, the fast path.
JOINs are dropped from the last to the first, also without `optimize`, whenever
the fast path is not taken.

**DelayedLoading.** Each call is a frame; `Throw` may happen at any ODBC call or
callback and then `UnwindFind` and `UnwindLoadDelayed` run the destructors frame
by frame until the application's `Catch`. A pointer to an object whose statements
are locked is delayed; any other is loaded at once by a frame on top of the one
that is being initialised (`InitPointer`). A polymorphic hierarchy is one class,
since a derived class's `delayed_loader()` runs the body of the loop with the
root's lock and delayed loads.

**StatementCache.** The sequence of the database moves at any time
(`ChangeVersion`), and the cache looks at it in `find_object()` only. A result
refers to the set that was in the map when it was made; `clears` counts the times
the map was emptied, so a result knows whether its set is still there. A result
whose set is gone does nothing more in the model: that it may still be used is
what `InUseIsAlive` and `ViewInUseIsAlive` are about.

**LongData.** Each callback is an operator with a disjunct per kind of chunk. The
sender's and the receiver's types are independent within a character set, so
that an array reads what a string wrote. The driver tells the total of national
and binary data, as the code's comments and assertions say; for narrow strings
it may or may not. A wrapper (nullable, smart pointer) handles NULL and passes on
the rest. `stream_result()` takes one byte for the terminator of two-byte
characters too, which the callbacks' divisions by two round away. In two cases the
code does not send or keep what it should, and the property leaves them out by
name. `AddsToOld`: `std::wstring` with a 4-byte `wchar_t` is not emptied before the
first chunk, so one that held something has the new value behind the old one.
`ReadsOn`: a full array of such characters, as long as the temporary buffer or
longer, is read beyond its end.

**Parameters and Values.** A short string goes through an image of the column's
size, a long one through the callbacks, and what is read into the other member is
compared with what was sent. Money is counted in units. A program that keeps it
as a `float` or a `double` has a number of so many binary digits (`FloatBits`), here
a whole number of quanta, and every operation rounds to the nearest of these
(`Nearest`): the amount, its product with the scale, the two parts on the way back
and their sum. The quanta have to be small enough for the smallest amount to have
all its digits; what does not fit the integer it is converted to is left out, since
that is undefined. `bind()` codes
precision and scale as 100 * precision + scale in the capacity, which
`bind_param()` takes apart; `ColumnOf` says what the server makes of the column's
own declaration.

**QueryClause, QueryDynamic, Queries.** A native part is a sequence of words;
spacing is layout and left out. A parameter is a token that says whether it is by
value and what of; conversion expressions (`CAST` and the like around a column or
a parameter) are part of the token. `Clause` gives the text as words, and
`SqlCondition` reads it as a server does: precedence of OR, AND, NOT and the
predicates, three-valued logic. A condition is a function from rows to truth
values. Each operation of `Queries` keeps beside the query what it means, a
condition for each value of the variables, and what the text selects is compared
with that for every row. `optimize()` is a step that may be taken or not,
since generated code calls it for some statements only. Every condition is made
as a common query too, and prepared from either; `translate()` is a function of
the place in the common query, and what it appends for one part goes on in the
native part before it (`Glued`). Parameters are filled when the statement is
executed; long ones by reference are read by the callback then. Reading and
translating are recursive functions, each defined at a place by what it gives at
later or earlier ones, and not RECURSIVE operators, so that they can be proved about.

## 3. Runs

| Run | Bounds | Shows |
|---|---|---|
| `pool` | 4 threads and the owner, `max` 2, `min` 1, 1 refused connection, 6 identities | `TypeOK`, `OneOwner`, `Capacity`, `NoStrandedWaiter`, `ShrinksToMin`, `WaitersProgress`, `DestructorReturns`, and `ConnectionPool` implements `Leasing` |
| `pool_lost_wakeup` | 3 threads, `max` 1, 1 refused connection | violation of `WaitsForARelease` |
| `transactions` | 2 threads, of which one takes connections itself, 2 connections, 3 transactions, 2 failures; diagnostics of each kind, unreadable ones, none, and return codes without any | `ToldTheTruth`, `CleanWhenPooled`, `AllOrNothing`, `SuspectsStayOut` |
| `transactions_carry_over` | 2 threads that work in transactions only, 1 connection, 2 transactions, 1 failure, `SQLEndTran()` failing only where the transaction is rolled back | violation of `FirstStatementStartsTransaction` |
| `result_image` | 3 results with 2, 1 and 0 rows, long data, 1 view's result, 2 changes of the schema version | `ReadsOwnRow`, `CallbackIsLive`, `NotStale`, `InUseIsAlive` |
| `result_image_no_id` | the same, for objects without an id | violation of `ReadsOwnRow` |
| `statement_cache_view` | the same as `result_image` | violation of `ViewInUseIsAlive` |
| `bulk` | batches of up to 3 sets, at most 2 rows affected by each | `EverySetAccountedFor`, `IdsInPlace`, `CountsAreExact` |
| `select_statement` | 4 columns of 3 tables, 3 JOINs, every binding and every use of aliases | `MembersGetTheirColumns`, `LongDataLast`, `JoinsAreTheNeeded` |
| `delayed_loading` | 4 objects of one class and 1 of another in 4 graphs, one missing, 2 exceptions, 3 calls | `LockGuardsTheImage`, `SessionIsSound`, `CallbackSeesPointees`, `CallsEnd` |
| `values` | values of 0 to 14 characters, columns of 1, 4 and 6, a temporary buffer of 8 bytes, strings that grow from 4 over 6, arrays of 1, 4, 5 and 9, strings that held 0, 2 or 15 characters; money with a seventh, words of 7 bits, floats of 5 and 9 bits and quanta of 1/2048, versions of four 2-bit bytes; every type of parameter with its usual precisions and scales and without | `ChunksAreExpected`, `ValuesRoundTrip`, `FloatMoney`, `DeclaredAsTheColumn` |
| `queries` | up to 3 conditions of 3 columns (a short one, also as bool; one whose name begins like a keyword, also in native text; a long one), 2 values, lists of up to 2, 1 variable, `ORDER BY`; 233562 states | `PlaceholdersMatchParameters`, `TextMeansTheQuery`, `TranslationMeansTheQuery` |

Every passing run also checks its module's type invariant. That of `BulkStatement`
says too that a statement is never executed again with its cursor open.

Why the bounds are enough. *Pool:* with two connections and four threads two can
hold while two wait, so that a wake-up can be lost, stolen or given to the wrong
process; `min` below `max` lets release() choose both ways; and there are enough
identities for `new` to find one always (`EnoughConns`). *Transactions:* a third
transaction uses a connection after two others had a failure each on it. One
thread takes connections itself and the other does not, so that either finds what
the other left; the connections are interchangeable, and TLC is told so (`Symmetry`).
*Results:* three results are one more than the pair that save each other's rows.
*Batches:* three sets give a first, a last and one in between, and any may fail.
*SELECT:* three JOINs make chains, and one table has two columns. *Loading:* the graphs
have a cycle, a self reference, cycles through both classes, an object that is
reached twice and one that is missing. *Cache:* two changes, of which one happens
between a view's query and the next call. *Values:* the sizes are scaled down, and
values of every length around each of them are tried, up to the third growth of a
string; arrays are shorter than, as long as and longer than the temporary buffer;
amounts of money cover both words and both signs, up to the largest, and have more
digits than one of the floats or than both; a seventh is not exact in binary, as a
ten-thousandth is not, so that the last unit is really lost. *Queries:* three conditions
make every pair of operators, in both orders of nesting; the conditions that are
added to a query are few (`Operands`), the first one is any. A NOT is not put before
a NOT. Rows have every combination of values and NULL.

Deadlock. `CHECK_DEADLOCK FALSE` is used where the system really stops: the pool
is destroyed and connections may be refused (`pool*`), the bounded number of
transactions or calls is used up (`transactions*`, `delayed_loading`), the batch
has been reported (`bulk`), the row or the value has been read (`select_statement`,
`values`).

Fairness. `pool`: weak fairness of filling the pool, of a woken thread's turn with
the mutex (`Reacquire`, `OwnerReacquire`), and of `Release` and `Delete` by a thread
that holds a connection. The mutex is available again after every body, since none
blocks with it but in the wait; that applications give back what they hold is
the assumption without which no pool makes progress. There is no fairness of
`Connect`, of failures or of spurious wake-ups. `WaitersProgress` therefore
promises only that someone gets a connection, not each waiter: the condition
variable is not fair, and a newcomer may overtake. `delayed_loading`: weak fairness
of the running call's steps and of the handler that catches an exception, as a
thread that is not blocked goes on.

## 4. Findings

Each is the counterexample of a run; the lines are quoted in `PROJECT.json`.

1. **A wake-up is lost when `create()` throws** (`pool_lost_wakeup`,
   connection-factory.cxx:72). release() signals one waiter. If that one has to
   create a connection (the released one had failed) and cannot, it leaves with
   the exception, and the other waiters stay blocked although nothing is in use.
2. **Work carries over to the next transaction** (`transactions_carry_over`,
   transaction-impl.cxx:61 and 85). If closing a result fails, `commit()` and then
   `rollback()` leave before `SQLEndTran()`, and the connection, not marked failed,
   goes back to the pool with the transaction open.
3. **The no-id callback is not cleared** (`result_image_no_id`,
   no-id-object-result.txx:142): the image is passed by value, so the callback stays
   registered after it has saved the row. It is called again when another statement
   uses the image after that, and copies what the first statement put there over
   the saved row.
4. **The statements of a view are deleted while its result is open**
   (`statement_cache_view`, statement-cache.txx:49). `find_view()` puts the set in
   the map and does not look at the schema version, so after a change the next
   call for an object empties the map; the result, even in its destructor, uses
   the image that was in it.

Seen while modelling and not shown by a run:

- *Pool.* The factory's destructor may return while a thread still deletes a
  connection that was not kept. Connections that are kept because there are
  waiters remain idle above the minimum once the waiters have gone, although
  connection-factory.hxx:51-54 says the pool releases what exceeds it.
- *Connection.* What statements executed outside of any transaction have done stays
  uncommitted, as autocommit is off, and goes to the pool with the connection; the
  next transaction there commits it or undoes it (`Outside` in `CleanWhenPooled`). A
  failed `SQLEndTran()` that returns a code without records (error.cxx:31-53), or has
  no record or none that can be read (error.cxx:234-240), does not mark the connection failed, although "the connection [...] should be
  disconnected unless we know the transaction was rolled back" (error.cxx:124-127);
  `unheard` in the model is the set of them. When setting an attribute of `direct_stmt_` fails
  (connection.cxx:194-210), it stays allocated and is used without the attribute.
- *Loading.* A `post_load` callback may see a pointee that an outer call has put off
  and not loaded yet, and an object may be left pointing to one that was never
  loaded after an exception (`CallbackSeesPointees` says which pointees are
  promised). The callback of an object of another class, loaded while this class's
  statements are locked, gets an object from `find()` that is not loaded yet; and
  when it dereferences a query's result of this class, the assertion of
  simple-object-result.txx:70-72 fails ("This is a top-level call so the
  statements cannot be locked").
- *Batches.* The pre-scan of `translate_error()` reads the records of all rows. An
  insert or update that throws in the middle of a batch leaves its cursor open
  until the transaction ends.
- *Queries.* The text of an EXECUTE gets a WHERE, since EXEC is compared first and
  the character after it is a U (query.cxx:182-195). `q += q` inserts a vector
  into itself. `translate()` makes parameters of its own, and a LIKE pattern has
  the default precision in any case.
- *Parameters.* A decimal by value without a scale keeps 0xFFFF as its scale, so
  that 18 * 100 + 65535 is taken apart as a precision of 673 (query.hxx:1684-1735,
  statement.cxx:297). An empty long value has no buffer: `bind_param()` skips it,
  the parameters after it move up, and the statement is refused. A short value
  longer than its column is cut without an error.
- *Values.* A wide string that is read again is appended to (traits.cxx:391-407),
  and a full wide array is read beyond its end when it is sent (traits.txx:256-261);
  the properties name both and leave them out (`AddsToOld`, `ReadsOn`). Money as a
  float loses its last unit where the product with 10000 is rounded or was never
  exact (traits.hxx:448-449, 516-517), and drifts when it is written again and again.
  The whole part is cut off before the product is rounded, so that a `float` with
  too few digits is stored wrong by most of a whole: 26845.0f as 26845.9984.

## 5. Proofs

Every safety property that a passing run checks, but for `FloatMoney`, is proved for
all values of the constants, and so are two parts of the pool's invariant that no run
checks alone (`WaitersCounted`, `FailedNeverPooled`). Each module of proofs has an inductive
invariant `IInv` at its beginning, one lemma per action that it is kept, with one
step per conjunct the action can disturb, and the theorems at its end. TLC has
checked each `IInv` on the instance of the run, but for that of `Queries`, which says
"there are pieces" of sequences of any length: there TLC checks the four properties
that it implies.

| Theorem | States | For all |
|---|---|---|
| *ConnectionPoolProofs* | | threads, `max_` and `min_` that the constructor allows, refused connections |
| `TypeCorrect` | `[]TypeOK` | |
| `ConnectionsHaveOneOwner` | `[]OneOwner` | |
| `WaitersAreCounted` | `[]WaitersCounted` | |
| `CapacityIsKept` | `[]Capacity` | |
| `FailedStaysOut` | `[]FailedNeverPooled` | |
| `NoWaiterIsStranded` | `[]NoStrandedWaiter` | |
| `SoundConnectionsAreKept` | `ShrinksToMin`, an action property | |
| `PoolImplementsLeasing` | `Spec => ImplementsLeasing`, the refinement | |
| *TransactionsProofs* | | threads, connections, diagnostics, transactions and failures |
| `TypeCorrect` | `[]TypeOK` | |
| `ReturnsTellTheTruth` | `[]ToldTheTruth` | |
| `PooledConnectionsAreClean` | `[]CleanWhenPooled` | |
| `NothingByHalves` | `[]AllOrNothing` | |
| `SuspectsAreNotLeased` | `SuspectsStayOut`, an action property | |
| *StatementCacheProofs* | | results, views, rows and changes of the version |
| `QueriesGetCurrentStatements` | `[]NotStale` | |
| `StatementsInUseAreAlive` | `[]InUseIsAlive` | |
| `CacheTypeCorrect` | `[]CacheTypeOK` | classes with an id, and views |
| `RowsAreTheirOwn` | `[]ReadsOwnRow` | classes with an id, and views |
| `CallbacksAreLive` | `[]CallbackIsLive` | classes with an id, and views |
| *DelayedLoadingProofs* | | graphs, classes, missing objects, calls and exceptions |
| `TypeCorrect` | `[]TypeOK` | |
| `TheLockGuardsTheImage` | `[]LockGuardsTheImage` | |
| `TheSessionIsSound` | `[]SessionIsSound` | |
| `CallbacksSeePointees` | `[]CallbackSeesPointees` | |
| *BulkStatementProofs* | | sizes of batches, diagnostics and numbers of rows |
| `TypeCorrect` | `[]TypeOK` | |
| `SetsAreAccountedFor` | `[]EverySetAccountedFor` | |
| `IdsStayInPlace` | `[]IdsInPlace` | |
| `GivenCountsAreExact` | `[]CountsAreExact` | |
| *SelectStatementProofs* | | columns, JOINs and uses of aliases |
| `TypeCorrect` | `[]TypeOK` | |
| `LongDataComesLast` | `[]LongDataLast` | |
| `OnlyNeededJoins` | `[]JoinsAreTheNeeded` | |
| `ColumnsReachTheirMembers` | `[]MembersGetTheirColumns` | |
| *ValuesProofs* | | values, members, buffers, amounts, words and parameters |
| `TypeCorrect` | `[]TypeOK` | |
| `NoChunkIsUnexpected` | `[]ChunksAreExpected` | |
| `ParametersLookLikeColumns` | `[]DeclaredAsTheColumn` | |
| `ValuesSurvive` | `[]ValuesRoundTrip` | |
| *QueriesProofs* | | columns, values, variables, operands, lists, depths of nesting |
| `TypeCorrect` | `[]TypeOK` | |
| `EachMarkHasItsParameter` | `[]PlaceholdersMatchParameters` | |
| `TextMeans` | `[]TextMeansTheQuery` | |
| `TranslationMeans` | `[]TranslationMeansTheQuery` | |

**The pool.** No safety property is inductive alone. `IInv` adds to the types that
the counters equal the sets they count (`OneOwner` for `in_use_`, `WaitersCounted`
for `waiters_`), that a failed connection is only ever held or being deleted
(`FailedHeld`), and that the owner's phase fits what the pool holds (`Phases`):
while it is being filled nobody has a connection, and once it is destroyed
nobody is in it. Cardinalities of the changing sets are handled by lemmas that add
or remove one element; the vector's `push_back` and `pop_back` by lemmas about
injective sequences. `NoStrandedWaiter` needs an argument of its own: the free
slots are counted against the woken threads, each action moves at most one, and
`release()` signals when it frees one. The refinement maps `lease[t]` to the
connection held and `broken` to the failed ones; `Release` maps to `GiveBack`,
`Delete` and waiting to stuttering or to `Discard`.

**Transactions.** What the caller is told is a fact about the server only because
uncommitted work is in one session (`OneSession`), nothing of a running
transaction is committed and nothing undone without notice (`NotEndedYet`),
numbers are not used again (`Numbers`), and what is left on a connection that is
not marked failed belongs to the transaction that runs there, to one whose
end was never asked for or was refused, or to no transaction (`Leftovers`, which
leaves out the connections of `unheard`). `SuspectsStayOut` needs what
`translate_error()` does with diagnostics of any length, empty ones and unreadable
records among them: a readable record of a lost link, or of a failed `SQLEndTran()`
that does not say that the transaction is settled, marks the connection whatever
comes before or after it.

**Results and the cache.** The pair behind `ReadsOwnRow` is `CallbackIsLive` and
`Registered`: a result at a row that it has not saved is the one the image calls
back. The three theorems about the image have the hypothesis that the class is not
one without an id, for which `result_image_no_id` shows that `ReadsOwnRow` fails.
`SetsInv` relates the version a set was made for to the times the map was emptied.

**Loading.** This is the largest invariant. On the stack, a frame on top of one that
initialises an object is of another class (`Nesting`), which fits the locks
(`Locks`) and says where something may be delayed (`Delays`). Each object of the
session that is not loaded is in one place: being read by one frame, among the
delayed loads of one class, or in the list of one `load_delayed_()` (`OnePlace`,
`Pending`). So nothing is lost when an exception unwinds the stack, and nothing is
loaded twice. `Reached` adds what an object points to.

**Batches.** `Progress` says that nothing is known of the sets that `result()` has not
come to; `Counted` that the count of an UPDATE is right from the start or unknown.
The reading of diagnostics is a recursive function over the records.

**SELECT.** `TextAndBuffers` and `Filled` give the three numberings as one: the text is
the plain columns followed by the long ones, bound columns are its beginning, and
`stream_result()` is at the column that follows. `JoinsSoFar` says that the JOINs which
pass 2 has been through are kept when something that is kept needs them.

**Values.** `IInv` is about the sizes and places of chunks, `Contents` about what is in
them: the server has what was read so far (`SentSoFar`), and the member, or the
member and the temporary buffer, have what the driver has returned (`Read`,
`Returned`), for each type of member but in the two cases that the property leaves
out, of which it says what does arrive. Numbers need the arithmetic of division:
two words and four bytes. Floats are rounded, and are left to TLC.

**Queries.** That the server reads what the application meant is not a fact about a
state alone: it has to hold wherever the text of a part ends up in a larger one, and
whatever the variables are by then. So a query stands for *pieces*, words, columns and
open places for parameters:

- `Built(q, W)`: q has the text of the pieces W, and its parameters and bindings are
  those of the open places, in order, all of them counted. Every operator of
  `query_base` and `query_column` puts pieces together (`BuiltPlus`, `BuiltJoined` and
  the like), and none loses a parameter; `EachMarkHasItsParameter` is that.
- `Reads(W, f)`: in any text that has W somewhere, followed by OR, a closing parenthesis,
  ORDER BY or nothing, the server reads f there and goes on with what follows.
  `ReadsNot` is the same before an AND, too; what is in parentheses or behind a NOT has it
  (`Enclosed`, `Negation`), which is why `&&` and `!` need their parentheses and an OR in
  native text does without. `Means` adds that no word is a keyword, so that
  `clause_prefix()` writes its WHERE.
- `Sound(x)`: the query and the common query of a condition both have pieces that mean
  what is noted beside it. The conditions of a single column are sound
  (`ConditionsSound`), the operators keep that, and ORDER BY puts a `Phrase` behind it.
- `Makes(s, q)`: wherever the common query s is placed within a larger one, `translate()`
  makes q for its last part. The places of operands are right because the parts of an
  operand are moved together (`Shifted`, `Placed`). A common query and the database's
  own need not have the same parts, and are not compared with each other; each is shown
  to mean the same.
- Optimisation removes a TRUE whose absence means the same: alone, or before ORDER BY.
- `Buffers` and `Filled`: as long as every parameter has a buffer, each question mark gets
  the value of its own parameter; else there are fewer values than marks, and the
  server refuses the statement.

`IInv` says that the query so far is `Composed` in this sense, that the prepared
statement came from one that was (`PreparedFrom`), and that what was answered is what
that means with the variables as they are (`Answers`). None of the four properties is
inductive without it: they say nothing of the text of a query that is not prepared yet.

**Recursion.** The induction theorems of the library are beyond the provers used, so
what holds along a recursive function (the records of `Diagnostics`, the columns in
order of `InOrder`, the places of a text that is read) is proved by the least number
for which it fails (`Least`), and that there is such a function at all in the same way.

**Assumptions.** They are those of the modules, which TLC evaluates on each run:

- `PoolAssumption`: finitely many threads, and the constructor's assertion on `max_`
  and `min_`; and the guard that an unused identity exists where one is created, as
  `new` never returns an object that is alive.
- `BulkAssumption`: a batch has a set, and a set may affect a row; there are records
  for every failure.
- `SelectStatementAssumption`: aliases of JOINs are unique and are not that of FROM.
- `LongDataAssumption`: the temporary buffer holds at least four bytes, an even number
  of them (4096 in the code; in one of an odd size, the terminator of two-byte
  characters would not be rounded away), and the string that is tried first; arrays
  have at least one element.
- `TransactionsAssumption`: the null connection is none of the connections, and
  diagnostics are sequences of codes, the empty one and unreadable records among them.
- `ValuesAssumption`: parameters have a scale that a decimal may have, or none;
  amounts are whole numbers of units. That they fit the words of the column is a
  condition of `Numbers` and `Floats` (`InWords`).
- `QueriesAssumption`: the columns that are named in native text are not words of SQL
  or keywords; no keyword is a longer word that begins with ORDER BY; values are numbers
  (0 is the empty one, and NULL is none of them). `OperandsAssumption`: what is combined
  with a query is a condition of `Conditions`.
- The theorems of `DelayedLoadingProofs` and of the pool are about `Spec`, of which
  `FairSpec` is a restriction.

Only model-checked: liveness (`WaitersProgress`, `DestructorReturns`, `CallsEnd`),
which is out of the prover's reach, and `FloatMoney`, which is arithmetic of
rounding, products with powers of two that none of the provers decides.

## 6. What is left, in order

1. Errors in the middle of a transfer of long data, and the state of the statement
   after an application's callback throws in `statement::execute()`.
2. `load_schema_version()` outside of a transaction, which takes a second connection.

Not modelled, with the reason: the version counters of bindings (images of this
database do not grow, so each binding is made once; generated code keeps the
counters) and with them container, section, view and no-id statements; the
discriminator of polymorphic results (generated code).
Not planned, because there is no state to speak of: connection strings and
options, the tracer, handle wrappers, fixed-size conversions. Not here, because it
is not in this repository: generated code, libodb (sessions, prepared query
caches, the thread's current transaction) and the driver, which are modelled as
the code here uses them.
