---------------------------- MODULE BulkStatement ----------------------------
(****************************************************************************)
(* One execution of an insert, update or delete statement for a batch of    *)
(* parameter sets: what each set did on the server, what the driver says of *)
(* it (return code, status array, diagnostic records, row count), and what  *)
(* result() and multiple_exceptions tell the caller.  Parameter sets are    *)
(* numbered from 1; position i of the code is set i + 1.                    *)
(****************************************************************************)
EXTENDS ErrorTranslation, FiniteSets

CONSTANTS Batch,          \* parameter sets that the bindings have room for
          RowErrors,      \* diagnostics of one failed set (tuples of codes)
          WholeErrors,    \* diagnostics of a statement that failed as a whole
          MaxAffected     \* bound: rows that one UPDATE or DELETE set affects

ASSUME BulkAssumption ==
  /\ Batch \in Nat \ {0} /\ MaxAffected \in Nat \ {0}
  /\ RowErrors \cup WholeErrors \subseteq Seq(Codes) \ {<<>>}

Unknown == Batch * MaxAffected + 1    \* result_unknown
NotTaken == Unknown + 1               \* result() has not been called
Sets == 1..Batch
True == 1
False == 0

\* How a statement was built: an INSERT, or an UPDATE or DELETE; returning a
\* database-assigned id or version (`output`); with a key that makes a set affect
\* at most one row.
Kinds ==
  {k \in [op : {"insert", "change"}, output : BOOLEAN, returningId : BOOLEAN,
           unique : BOOLEAN] :
     /\ k.returningId => k.op = "insert" /\ k.output
     /\ k.unique => k.op = "change"}

VARIABLES
  kind,        \* the statement
  batch,       \* is there a status array and a multiple_exceptions?
  n_, i_,      \* sets to go through, and the current one
  pc,          \* "ready", "open" (results to be taken), "done" or "thrown"
  outcome,     \* server: the diagnostics of each set, <<>> if it succeeded
  affected,    \* server: rows that each set affected
  ids,         \* bound element -> the set whose id it holds, 0 = none
  cursor,      \* is the statement's cursor open?
  taken,       \* what result() said of each set
  mex, fatal   \* sets with an entry in multiple_exceptions, and its fatal flag

vars == <<kind, batch, n_, i_, pc, outcome, affected, ids, cursor, taken, mex, fatal>>

TypeOK ==
  /\ kind \in Kinds /\ batch \in BOOLEAN
  /\ n_ \in 0..Batch /\ i_ \in 0..Batch /\ i_ <= n_
  /\ pc \in {"ready", "open", "done", "thrown"}
  /\ outcome \in [Sets -> RowErrors \cup WholeErrors \cup {<<>>}]
  /\ affected \in [Sets -> 0..MaxAffected]
  /\ ids \in [Sets -> 0..Batch]
  /\ cursor \in BOOLEAN /\ (cursor => pc \in {"open", "thrown"})
  /\ taken \in [Sets -> 0..NotTaken]
  /\ fatal \in BOOLEAN /\ mex \subseteq IF fatal THEN {1} ELSE 1..n_

Init ==
  /\ kind \in Kinds
  /\ batch \in IF kind.op = "change" /\ kind.output THEN {FALSE} ELSE BOOLEAN
  /\ n_ = 0 /\ i_ = 0 /\ pc = "ready"
  /\ outcome = [s \in Sets |-> <<>>] /\ affected = [s \in Sets |-> 0]
  /\ ids = [s \in Sets |-> 0] /\ cursor = FALSE
  /\ taken = [s \in Sets |-> NotTaken]
  /\ mex = {} /\ fatal = FALSE

------------------------------------------------------------------------------
\* The driver.

\* Records of sets `from` in the order the sets were processed.
RowRecords(out, s) == [k \in 1..Len(out[s]) |-> [code |-> out[s][k], row |-> s]]
Diagnostics(out, from) ==
  LET upTo[s \in 0..Batch] ==
        IF s = 0 THEN <<>>
        ELSE upTo[s - 1] \o (IF s \in from THEN RowRecords(out, s) ELSE <<>>)
  IN  upTo[Batch]

\* With OUTPUT the sets are processed one at a time, as the results are taken;
\* without, all of them inside SQLExecute().
Processed(out, n, i) == Diagnostics(out, IF kind.output THEN {i} ELSE 1..n)

Has(e, code) == \E k \in 1..Len(e) : e[k] = code

------------------------------------------------------------------------------
\* The library.

\* Mutant of Duplicate: the records are not filtered by row.
DuplicateAnywhere(recs, i) ==
  /\ ~kind.returningId
  /\ \E k \in 1..Len(recs) : recs[k].code = "23000"
  /\ \A k \in 1..Len(recs) : recs[k].code \in {"23000", "01000"}

\* insert_statement::fetch(): does the failure of set i mean a duplicate?  Its
\* records say an integrity violation and, but for warnings, nothing else.
Duplicate(recs, i) ==
  LET own == {recs[k].code : k \in {m \in 1..Len(recs) : ~batch \/ recs[m].row = i}}
  IN  ~kind.returningId /\ "23000" \in own /\ own \subseteq {"23000", "01000"}

\* translate_error() for set i.
Entry(recs, i) == Translate("ERROR", recs, FALSE, IF batch THEN i ELSE NoRow)

\* Mutant of Place: the row stays in the last element.
PlaceLast(i) == [ids EXCEPT ![Batch] = i]

\* Every result set is fetched into the last element of the array and copied
\* from there into element i.
Place(i) == [ids EXCEPT ![Batch] = i, ![i] = i]

\* fetch(): the result of set i, whose records are recs.
Fetch(i, out, recs) ==
  IF out[i] = <<>>
  THEN /\ taken' = [taken EXCEPT ![i] = True]
       /\ ids' = IF kind.output THEN Place(i) ELSE ids
       /\ pc' = "open"
       /\ UNCHANGED mex
  ELSE /\ UNCHANGED ids
       /\ IF Duplicate(recs, i)
          THEN /\ taken' = [taken EXCEPT ![i] = False]
               /\ pc' = "open"
               /\ UNCHANGED mex
          ELSE IF Entry(recs, i).throws = "insert"
          THEN /\ taken' = [taken EXCEPT ![i] = False]
               /\ mex' = mex \cup {i}
               /\ pc' = "open"
          ELSE /\ pc' = "thrown"
               /\ UNCHANGED <<taken, mex>>

\* Mutant of AffectedEach: the unique hint is forgotten.
AffectedEachByCount(rows, n, errors) ==
  IF n > 1 /\ rows # 0 /\ n - errors > 1
  THEN IF n - errors = rows THEN 1 ELSE Unknown
  ELSE rows

\* bulk_statement::affected(): the count for one set, from the total.
AffectedEach(rows, n, errors) ==
  IF n > 1 /\ rows # 0 /\ n - errors > 1
  THEN IF kind.unique /\ n - errors = rows THEN 1 ELSE Unknown
  ELSE rows

\* The row count that the driver reports: each set with each row it affected.
Rows(aff, n) == {p \in (1..n) \X (1..MaxAffected) : p[2] <= aff[p[1]]}
Total(aff, n) == Cardinality(Rows(aff, n))

\* extract_errors() goes through the failed sets and stops when translate_error()
\* throws; here it throws for the first of them or for none.
Change(out, aff, n) ==
  LET recs == Diagnostics(out, 1..n)
      bad == {s \in 1..n : out[s] # <<>>}
      rows == AffectedEach(Total(aff, n), n, Cardinality(bad))
  IN  IF \E s \in bad : Entry(recs, s).throws # "insert"
      THEN pc' = "thrown" /\ UNCHANGED <<mex, taken, ids>>
      ELSE /\ pc' = "open"
           /\ ids' = IF kind.output /\ rows # 0 THEN [ids EXCEPT ![1] = 1] ELSE ids
           /\ mex' = mex \cup bad
           /\ taken' = [s \in Sets |-> IF s \in 1..n THEN rows ELSE NotTaken]

\* execute(n): every set gets its outcome.  A set that fails affects no rows, and
\* a statement without a batch has one set.
Execute(n) ==
  /\ pc = "ready" /\ (batch \/ n = 1)
  /\ n_' = n /\ i_' = 1
  /\ \E out \in [1..n -> RowErrors \cup {<<>>}] :
     \E aff \in [1..n -> 0..IF kind.op = "insert" \/ kind.unique \/ kind.output
                             THEN 1 ELSE MaxAffected] :
       /\ \A s \in 1..n : out[s] # <<>> => aff[s] = 0
       /\ kind.op = "insert" => \A s \in 1..n : out[s] = <<>> => aff[s] = 1
       /\ outcome' = [s \in Sets |-> IF s <= n THEN out[s] ELSE <<>>]
       /\ affected' = [s \in Sets |-> IF s <= n THEN aff[s] ELSE 0]
       /\ cursor' = (kind.op = "insert" /\ kind.output /\ (n > 1 \/ out[1] = <<>>))
       /\ IF kind.op = "insert"
          THEN Fetch(1, outcome', Processed(outcome', n, 1))
          ELSE Change(outcome', affected', n)
  /\ UNCHANGED <<kind, batch, fatal>>

\* SQLExecute() fails as a whole: no set was attempted, and the error becomes the
\* entry of the first set of a fatal multiple_exceptions.  That a statement without a
\* batch fails with a duplicate is not such an error, but the result of its one set.
ExecuteFails(n) ==
  /\ pc = "ready" /\ (batch \/ n = 1)
  /\ fatal' = batch
  /\ \E e \in WholeErrors :
       LET recs == [k \in 1..Len(e) |-> [code |-> e[k], row |-> NoRow]]
       IN  /\ ~(kind.op = "insert" /\ Duplicate(recs, 1))
           /\ IF Entry(recs, 1).throws = "insert"
              THEN mex' = mex \cup {1} /\ pc' = "done"
              ELSE pc' = "thrown" /\ UNCHANGED mex
  /\ UNCHANGED <<kind, batch, n_, i_, outcome, affected, ids, cursor, taken>>

\* result(i) for the next set of an INSERT; that of an UPDATE or DELETE has been
\* set by execute() and only moves the current position.
NextResult ==
  /\ pc = "open" /\ i_ < n_
  /\ i_' = i_ + 1
  /\ IF kind.op = "insert"
     THEN Fetch(i_ + 1, outcome, Processed(outcome, n_, i_ + 1))
     ELSE UNCHANGED <<pc, taken, mex, ids>>
  /\ UNCHANGED <<kind, batch, n_, outcome, affected, cursor, fatal>>

\* Mutant of LastResult: the cursor is closed when it reads n_ sets in all.
LastResultKeepsCursor ==
  /\ pc = "open" /\ i_ = n_
  /\ pc' = "done"
  /\ cursor' = (cursor /\ i_ # Batch)
  /\ UNCHANGED <<kind, batch, n_, i_, outcome, affected, ids, taken, mex, fatal>>

\* The last result() closes the cursor of a returning INSERT.
LastResult ==
  /\ pc = "open" /\ i_ = n_
  /\ pc' = "done"
  /\ cursor' = FALSE
  /\ UNCHANGED <<kind, batch, n_, i_, outcome, affected, ids, taken, mex, fatal>>

\* The caller executes the same statement for its next batch.
Again ==
  /\ pc = "done"
  /\ pc' = "ready" /\ n_' = 0 /\ i_' = 0
  /\ taken' = [s \in Sets |-> NotTaken]
  /\ mex' = {} /\ fatal' = FALSE
  /\ UNCHANGED <<kind, batch, outcome, affected, ids, cursor>>

Next ==
  \/ \E n \in Sets : Execute(n) \/ ExecuteFails(n)
  \/ NextResult \/ LastResult \/ Again

Spec == Init /\ [][Next]_vars

------------------------------------------------------------------------------
\* Properties

Seen == {s \in 1..i_ : taken[s] # NotTaken}
DuplicateKey(s) ==
  ~kind.returningId /\ outcome[s] \in Seq({"23000", "01000"}) /\ Has(outcome[s], "23000")

\* An INSERT's result() is true exactly for the sets that inserted their row, and
\* there is an exception for each of the others but the duplicates, whatever the
\* diagnostics of the sets around it say.
EverySetAccountedFor ==
  kind.op = "insert" => \A s \in Seen :
    /\ taken[s] = True <=> outcome[s] = <<>>
    /\ s \in mex <=> outcome[s] # <<>> /\ ~DuplicateKey(s)

\* Each element of the batch array holds the id of its own row from the moment
\* result() says the row was inserted until the batch is done.
IdsInPlace ==
  (kind.op = "insert" /\ kind.output) => \A s \in Seen : taken[s] = True => ids[s] = s

\* Where result() gives a number of affected rows, it is the number of that set.
CountsAreExact ==
  kind.op = "change" => \A s \in Seen \ mex : taken[s] \in {affected[s], Unknown}
==============================================================================
