-------------------------- MODULE BulkStatementProofs --------------------------
(****************************************************************************)
(* The safety of bulk statements, for batches of any size, any diagnostics  *)
(* and any numbers of affected rows.  What the diagnostic records of a      *)
(* batch say of one set is proved from the recursive function that puts     *)
(* them together, by the least set for which it would be wrong; what the    *)
(* row count says of one set, by counting pairs of a set and a row.         *)
(****************************************************************************)
EXTENDS BulkStatement, Integers, SequenceTheorems, FiniteSetTheorems,
        WellFoundedInduction, TLAPS

------------------------------------------------------------------------------
\* That something holds of every number is proved by the least for which it does not.

\* A set of natural numbers has a least one.
LEMMA Least ==
  ASSUME NEW T \in SUBSET Nat, T # {}
  PROVE  \E x \in T : \A y \in T : x <= y
<1>1. PICK x \in T : \A y \in T : ~(<<y, x>> \in OpToRel(<, Nat))
  BY NatLessThanWellFounded, WFMin
<1>2. \A y \in T : ~(y < x)
  BY <1>1 DEF OpToRel
<1>3. QED BY <1>2

------------------------------------------------------------------------------
\* The inductive invariant.

\* How far the batch has got.  Nothing is known of the sets that an INSERT's
\* result() has not come to.
Progress ==
  /\ ~batch => n_ <= 1
  /\ pc = "ready" =>
       /\ i_ = 0 /\ n_ = 0 /\ mex = {} /\ ~fatal
       /\ \A s \in Sets : taken[s] = NotTaken
  /\ pc = "open" => i_ > 0 /\ ~fatal
  /\ fatal => i_ = 0
  /\ kind.op = "insert" =>
       \A s \in Sets : s > i_ => taken[s] = NotTaken /\ (s \notin mex \/ fatal)

\* The count of an UPDATE or DELETE is there for every set from the start.
Counted ==
  kind.op = "change" =>
    \A s \in (1..n_) \ mex : taken[s] \in {affected[s], Unknown, NotTaken}

IInv == TypeOK /\ Progress /\ EverySetAccountedFor /\ IdsInPlace /\ Counted

------------------------------------------------------------------------------
\* The diagnostic records.

Outcomes == [Sets -> Seq(Codes)]
Record == [code : Codes, row : Nat]
Own(out, from, s) == IF s \in from THEN RowRecords(out, s) ELSE <<>>

\* f has the records of the sets up to m, put together one set after the other.
UpTo(out, from, m, f) ==
  f = [s \in 0..m |-> IF s = 0 THEN <<>> ELSE f[s - 1] \o Own(out, from, s)]

Contains(q, r) == \E k \in 1..Len(q) : q[k] = r

\* r is a record of set s.
OwnRecord(out, s, r) == \E k \in 1..Len(out[s]) : r = [code |-> out[s][k], row |-> s]

\* r is a record of a set up to m.
RecordOf(out, from, m, r) ==
  \E s \in from : s <= m /\ OwnRecord(out, s, r)

\* The records of one set.
LEMMA OwnRecords ==
  ASSUME NEW out \in Outcomes, NEW from \in SUBSET Sets, NEW s \in Sets
  PROVE  /\ Own(out, from, s) \in Seq(Record)
         /\ \A r : Contains(Own(out, from, s), r) <=> s \in from /\ OwnRecord(out, s, r)
<1> DEFINE e == out[s]
<1>1. e \in Seq(Codes) /\ Len(e) \in Nat /\ \A k \in 1..Len(e) : e[k] \in Codes
  BY DEF Outcomes
<1>2. s \in Nat
  BY BulkAssumption DEF Sets
<1>3. RowRecords(out, s) = [k \in 1..Len(e) |-> [code |-> e[k], row |-> s]]
  BY DEF RowRecords
<1> HIDE DEF e
<1>4. \A k \in 1..Len(e) : [code |-> e[k], row |-> s] \in Record
  BY <1>1, <1>2 DEF Record
<1>5. RowRecords(out, s) \in Seq(Record) /\ Len(RowRecords(out, s)) = Len(e)
  BY <1>1, <1>3, <1>4
<1>6. CASE s \in from
  <2>1. Own(out, from, s) = RowRecords(out, s)
    BY <1>6 DEF Own
  <2>2. \A r : Contains(RowRecords(out, s), r)
                 <=> \E k \in 1..Len(e) : r = [code |-> e[k], row |-> s]
    BY <1>3, <1>5 DEF Contains
  <2>3. QED BY <1>5, <1>6, <2>1, <2>2 DEF e, OwnRecord
<1>7. CASE s \notin from
  <2>1. Own(out, from, s) = <<>>
    BY <1>7 DEF Own
  <2>2. QED BY <1>7, <2>1, EmptySeq DEF Contains
<1>8. QED BY <1>6, <1>7

\* The recursive function exists, whatever is put together.
LEMMA RecordsExist ==
  ASSUME NEW out, NEW from, NEW m \in Nat
  PROVE  \E f : UpTo(out, from, m, f)
<1> DEFINE T == {n \in Nat : ~(\E f : UpTo(out, from, n, f))}
<1>1. SUFFICES ASSUME T # {} PROVE FALSE
  OBVIOUS
<1>2. PICK n \in T : \A y \in T : n <= y
  BY <1>1, Least
<1>3. n # 0
  <2> DEFINE f == [s \in 0..0 |-> <<>>]
  <2>1. UpTo(out, from, 0, f)
    BY DEF UpTo
  <2>2. QED BY <2>1
<1>4. n - 1 \in Nat /\ n - 1 \notin T
  BY <1>2, <1>3
<1>5. PICK g : UpTo(out, from, n - 1, g)
  BY <1>4
<1> DEFINE f == [s \in 0..n |-> IF s = n THEN g[n - 1] \o Own(out, from, n) ELSE g[s]]
<1>6. UpTo(out, from, n, f)
  <2>1. f[n] = g[n - 1] \o Own(out, from, n) /\ \A s \in 0..(n - 1) : f[s] = g[s]
    BY <1>2
  <2>2. DOMAIN f = 0..n /\ f = [s \in 0..n |-> f[s]]
    OBVIOUS
  <2> HIDE DEF f
  <2>3. ASSUME NEW s \in 0..n
        PROVE  f[s] = IF s = 0 THEN <<>> ELSE f[s - 1] \o Own(out, from, s)
    <3>1. CASE s = n
      <4>1. n - 1 \in 0..(n - 1)
        BY <1>4
      <4>2. QED BY <1>3, <2>1, <3>1, <4>1
    <3>2. CASE s # n
      <4>1. s \in 0..(n - 1) /\ (s # 0 => s - 1 \in 0..(n - 1))
        BY <3>2
      <4>2. g[s] = IF s = 0 THEN <<>> ELSE g[s - 1] \o Own(out, from, s)
        BY <1>5, <4>1 DEF UpTo
      <4>3. f[s] = g[s] /\ (s # 0 => f[s - 1] = g[s - 1])
        BY <2>1, <4>1
      <4>4. QED BY <4>2, <4>3
    <3>3. QED BY <3>1, <3>2
  <2>4. QED BY <2>2, <2>3 DEF UpTo
<1>7. QED BY <1>6

\* A record is in a concatenation if it is in one of the parts.
LEMMA ConcatContains ==
  ASSUME NEW a \in Seq(Record), NEW b \in Seq(Record), NEW r
  PROVE  Contains(a \o b, r) <=> Contains(a, r) \/ Contains(b, r)
<1>1. /\ a \o b \in Seq(Record) /\ Len(a) \in Nat /\ Len(b) \in Nat
      /\ Len(a \o b) = Len(a) + Len(b)
      /\ \A k \in 1..Len(a) : (a \o b)[k] = a[k]
      /\ \A k \in 1..Len(b) : (a \o b)[Len(a) + k] = b[k]
  OBVIOUS
<1>2. \A k \in 1..(Len(a) + Len(b)) :
        k \in 1..Len(a) \/ (k - Len(a) \in 1..Len(b) /\ k = Len(a) + (k - Len(a)))
  BY <1>1
<1>3. /\ \A k \in 1..Len(b) : Len(a) + k \in 1..(Len(a) + Len(b))
      /\ \A k \in 1..Len(a) : k \in 1..(Len(a) + Len(b))
  BY <1>1
<1>4. ASSUME NEW k \in 1..Len(a \o b), (a \o b)[k] = r
      PROVE  Contains(a, r) \/ Contains(b, r)
  BY <1>1, <1>2, <1>4 DEF Contains
<1>5. Contains(a, r) \/ Contains(b, r) => Contains(a \o b, r)
  BY <1>1, <1>3 DEF Contains
<1>6. QED BY <1>4, <1>5 DEF Contains

\* What has been put together up to a set are the records of the sets so far.
LEMMA RecordsUpTo ==
  ASSUME NEW out \in Outcomes, NEW from \in SUBSET Sets,
         NEW f, UpTo(out, from, Batch, f), NEW m \in 0..Batch
  PROVE  /\ f[m] \in Seq(Record)
         /\ \A r : Contains(f[m], r) <=> RecordOf(out, from, m, r)
<1> DEFINE Holds(n) == /\ f[n] \in Seq(Record)
                       /\ \A r : Contains(f[n], r) <=> RecordOf(out, from, n, r)
           T == {n \in 0..Batch : ~Holds(n)}
<1>1. SUFFICES ASSUME T # {} PROVE FALSE
  OBVIOUS
<1>2. T \in SUBSET Nat
  OBVIOUS
<1>3. PICK n \in T : \A y \in T : n <= y
  BY <1>1, <1>2, Least
<1>4. n \in 0..Batch /\ ~Holds(n)
  OBVIOUS
<1>5. n # 0
  <2>1. SUFFICES Holds(0)
    BY <1>4
  <2>2. f[0] = <<>>
    BY BulkAssumption DEF UpTo
  <2>3. \A s \in from : s \in Nat /\ s > 0
    BY BulkAssumption DEF Sets
  <2>4. QED BY <2>2, <2>3, EmptySeq DEF RecordOf, Contains
<1>6. n - 1 \in 0..Batch /\ n \in Sets /\ n - 1 \notin T
  BY <1>3, <1>4, <1>5, BulkAssumption DEF Sets
<1>7. Holds(n - 1)
  BY <1>6
<1>8. f[n] = f[n - 1] \o Own(out, from, n)
  BY <1>4, <1>5, BulkAssumption DEF UpTo
<1>9. f[n - 1] \in Seq(Record) /\ Own(out, from, n) \in Seq(Record)
  BY <1>6, <1>7, OwnRecords
<1>10. ASSUME NEW r
       PROVE  Contains(f[n], r) <=> RecordOf(out, from, n, r)
  <2>1. Contains(f[n], r) <=> Contains(f[n - 1], r) \/ Contains(Own(out, from, n), r)
    BY <1>8, <1>9, ConcatContains
  <2>2. Contains(f[n - 1], r) <=> RecordOf(out, from, n - 1, r)
    BY <1>7
  <2>3. Contains(Own(out, from, n), r) <=> n \in from /\ OwnRecord(out, n, r)
    BY <1>6, OwnRecords
  <2>4. \A s \in from : s <= n <=> s <= n - 1 \/ s = n
    BY <1>4, BulkAssumption DEF Sets
  <2>5. RecordOf(out, from, n, r)
          <=> RecordOf(out, from, n - 1, r) \/ (n \in from /\ OwnRecord(out, n, r))
    BY <1>4, <2>4 DEF RecordOf
  <2>6. QED BY <2>1, <2>2, <2>3, <2>5
<1>11. f[n] \in Seq(Record)
  BY <1>8, <1>9
<1>12. QED BY <1>4, <1>10, <1>11

\* The records that an execution leaves are those of the sets processed.
LEMMA DiagnosticsAre ==
  ASSUME NEW out \in Outcomes, NEW from \in SUBSET Sets
  PROVE  /\ Diagnostics(out, from) \in Seq(Record)
         /\ \A r : Contains(Diagnostics(out, from), r)
                     <=> \E s \in from : OwnRecord(out, s, r)
<1> DEFINE f == CHOOSE f : f = [s \in 0..Batch |->
                  IF s = 0 THEN <<>>
                  ELSE f[s - 1] \o (IF s \in from THEN RowRecords(out, s) ELSE <<>>)]
<1>1. Diagnostics(out, from) = f[Batch]
  BY DEF Diagnostics
<1>2. \E g : UpTo(out, from, Batch, g)
  BY RecordsExist, BulkAssumption
<1>3. f = [s \in 0..Batch |->
            IF s = 0 THEN <<>>
            ELSE f[s - 1] \o (IF s \in from THEN RowRecords(out, s) ELSE <<>>)]
  BY <1>2, Zenon DEF UpTo, Own
<1> HIDE DEF f
<1>4. UpTo(out, from, Batch, f)
  BY <1>3 DEF UpTo, Own
<1>5. Batch \in 0..Batch
  BY BulkAssumption
<1>6. /\ f[Batch] \in Seq(Record)
      /\ \A r : Contains(f[Batch], r) <=> RecordOf(out, from, Batch, r)
  BY <1>4, <1>5, RecordsUpTo
<1>7. \A s \in from : s <= Batch
  BY BulkAssumption DEF Sets
<1>8. \A r : RecordOf(out, from, Batch, r) <=> \E s \in from : OwnRecord(out, s, r)
  BY <1>7 DEF RecordOf
<1>9. QED BY <1>1, <1>6, <1>8

\* An execution's records say of a set that it is a duplicate if, and only if, the
\* set's own diagnostics do.
LEMMA DuplicatesAre ==
  ASSUME NEW out \in Outcomes, NEW from \in SUBSET Sets, NEW i \in from,
         batch \/ from = {i}
  PROVE  Duplicate(Diagnostics(out, from), i) <=>
           ~kind.returningId /\ out[i] \in Seq({"23000", "01000"}) /\ Has(out[i], "23000")
<1> DEFINE recs == Diagnostics(out, from)
           own == {recs[k].code : k \in {m \in 1..Len(recs) : ~batch \/ recs[m].row = i}}
<1>1. /\ recs \in Seq(Record)
      /\ \A r : Contains(recs, r) <=> \E s \in from : OwnRecord(out, s, r)
  BY DiagnosticsAre
<1>2. Duplicate(recs, i) <=> ~kind.returningId /\ "23000" \in own /\ own \subseteq {"23000", "01000"}
  BY DEF Duplicate
<1> HIDE DEF recs
<1>3. out[i] \in Seq(Codes) /\ Len(out[i]) \in Nat /\ \A k \in 1..Len(out[i]) : out[i][k] \in Codes
  BY DEF Outcomes
<1>4. ASSUME NEW k \in 1..Len(recs), ~batch \/ recs[k].row = i
      PROVE  \E j \in 1..Len(out[i]) : recs[k].code = out[i][j]
  <2>1. PICK s \in from : OwnRecord(out, s, recs[k])
    BY <1>1 DEF Contains
  <2>2. PICK j \in 1..Len(out[s]) : recs[k] = [code |-> out[s][j], row |-> s]
    BY <2>1 DEF OwnRecord
  <2>3. s = i
    BY <1>4, <2>2
  <2>4. QED BY <2>2, <2>3
<1>5. ASSUME NEW j \in 1..Len(out[i])
      PROVE  \E k \in 1..Len(recs) : recs[k].row = i /\ recs[k].code = out[i][j]
  <2> DEFINE r == [code |-> out[i][j], row |-> i]
  <2>1. OwnRecord(out, i, r)
    BY DEF OwnRecord
  <2>2. Contains(recs, r)
    BY <1>1, <2>1
  <2>3. QED BY <2>2 DEF Contains
<1>6. \A c : c \in own <=> \E j \in 1..Len(out[i]) : out[i][j] = c
  BY <1>4, <1>5
<1> HIDE DEF own
<1>7. "23000" \in own <=> Has(out[i], "23000")
  BY <1>6 DEF Has
<1>8. own \subseteq {"23000", "01000"} <=> out[i] \in Seq({"23000", "01000"})
  <2>1. own \subseteq {"23000", "01000"} <=>
          \A j \in 1..Len(out[i]) : out[i][j] \in {"23000", "01000"}
    BY <1>6
  <2>2. ASSUME \A j \in 1..Len(out[i]) : out[i][j] \in {"23000", "01000"}
        PROVE  out[i] \in Seq({"23000", "01000"})
    BY <1>3, <2>2
  <2>3. ASSUME out[i] \in Seq({"23000", "01000"})
        PROVE  \A j \in 1..Len(out[i]) : out[i][j] \in {"23000", "01000"}
    BY <2>3
  <2>4. QED BY <2>1, <2>2, <2>3
<1>9. QED BY <1>2, <1>7, <1>8 DEF recs

------------------------------------------------------------------------------
\* The row count.

Counts(aff, n) == \A t \in 1..n : aff[t] \in 0..MaxAffected

\* Pairs of a member of a set and a number up to m.
LEMMA PairsWithNumbers ==
  ASSUME NEW S, IsFiniteSet(S), NEW m \in Nat
  PROVE  IsFiniteSet(S \X (1..m)) /\ Cardinality(S \X (1..m)) = Cardinality(S) * m
<1> DEFINE B == 1..m
<1>1. IsFiniteSet(1..m) /\ Cardinality(1..m) = IF 1 > m THEN 0 ELSE m - 1 + 1
  BY FS_Interval
<1>2. IsFiniteSet(B) /\ Cardinality(B) = m
  BY <1>1
<1> HIDE DEF B
<1>3. IsFiniteSet(S \X B) /\ Cardinality(S \X B) = Cardinality(S) * Cardinality(B)
  BY <1>2, FS_Product
<1>4. QED BY <1>2, <1>3 DEF B

\* The unknown counts are beyond any that a batch can have.
LEMMA Numbers ==
  /\ Batch * MaxAffected \in Nat /\ Unknown \in Nat /\ NotTaken \in Nat
  /\ Unknown = Batch * MaxAffected + 1 /\ NotTaken = Unknown + 1
  /\ Batch \in Nat /\ Batch > 0 /\ MaxAffected \in Nat /\ MaxAffected > 0
<1>1. Batch \in Nat /\ Batch > 0 /\ MaxAffected \in Nat /\ MaxAffected > 0
  BY BulkAssumption
<1>2. \A a, b \in Nat : a * b \in Nat
  OBVIOUS
<1>3. Batch * MaxAffected \in Nat
  BY <1>1, <1>2
<1>4. QED BY <1>1, <1>3 DEF Unknown, NotTaken

LEMMA RowsAreFinite ==
  ASSUME NEW n \in Sets, NEW aff
  PROVE  /\ IsFiniteSet(Rows(aff, n)) /\ Total(aff, n) \in 0..(Batch * MaxAffected)
<1>1. n \in 1..Batch /\ Batch \in Nat /\ MaxAffected \in Nat
  BY Numbers DEF Sets
<1> DEFINE P == (1..Batch) \X (1..MaxAffected)
<1>2. IsFiniteSet(1..Batch) /\ Cardinality(1..Batch) = Batch
  BY Numbers, FS_Interval
<1>3. IsFiniteSet(P) /\ Cardinality(P) = Batch * MaxAffected
  BY <1>1, <1>2, PairsWithNumbers
<1>4. Rows(aff, n) \in SUBSET P
  BY <1>1 DEF Rows
<1> HIDE DEF P
<1>5. IsFiniteSet(Rows(aff, n)) /\ Cardinality(Rows(aff, n)) <= Batch * MaxAffected
  BY <1>3, <1>4, FS_Subset
<1>6. Cardinality(Rows(aff, n)) \in Nat
  BY <1>5, FS_CardinalityType
<1>7. QED BY <1>5, <1>6, Numbers DEF Total

\* No rows: no set affected any.
LEMMA NoRows ==
  ASSUME NEW n \in Sets, NEW aff, Counts(aff, n), Total(aff, n) = 0
  PROVE  \A s \in 1..n : aff[s] = 0
<1>1. Rows(aff, n) = {}
  BY RowsAreFinite, FS_EmptySet DEF Total
<1>2. ASSUME NEW s \in 1..n, aff[s] # 0 PROVE FALSE
  <2>1. aff[s] \in 0..MaxAffected /\ MaxAffected \in Nat
    BY Numbers DEF Counts
  <2>2. <<s, 1>> \in Rows(aff, n)
    BY <1>2, <2>1 DEF Rows
  <2>3. QED BY <1>1, <2>2
<1>3. QED BY <1>2

\* Only one set affected any: the rows are its rows.
LEMMA RowsOfOne ==
  ASSUME NEW n \in Sets, NEW aff, Counts(aff, n), NEW s \in 1..n,
         \A t \in 1..n : t # s => aff[t] = 0
  PROVE  Total(aff, n) = aff[s]
<1>1. aff[s] \in 0..MaxAffected /\ MaxAffected \in Nat
  BY Numbers DEF Counts
<1>2. Rows(aff, n) = {s} \X (1..aff[s])
  <2>1. ASSUME NEW p \in Rows(aff, n) PROVE p \in {s} \X (1..aff[s])
    <3>1. p \in (1..n) \X (1..MaxAffected) /\ p[2] <= aff[p[1]]
      BY <2>1 DEF Rows
    <3>2. p[1] \in 1..n /\ p[2] \in 1..MaxAffected /\ p = <<p[1], p[2]>>
      BY <3>1
    <3>3. p[1] = s
      BY <3>1, <3>2
    <3>4. QED BY <1>1, <3>1, <3>2, <3>3
  <2>2. ASSUME NEW p \in {s} \X (1..aff[s]) PROVE p \in Rows(aff, n)
    BY <1>1, <2>2 DEF Rows
  <2>3. QED BY <2>1, <2>2
<1>3. IsFiniteSet({s}) /\ Cardinality({s}) = 1
  BY FS_Singleton
<1>4. aff[s] \in Nat
  BY <1>1
<1>5. Cardinality({s} \X (1..aff[s])) = Cardinality({s}) * aff[s]
  BY <1>3, <1>4, PairsWithNumbers
<1>6. QED BY <1>2, <1>3, <1>4, <1>5 DEF Total

\* As many rows as sets that can have affected at most one each: each of them did.
LEMMA OneRowEach ==
  ASSUME NEW n \in Sets, NEW aff, Counts(aff, n), NEW good \in SUBSET (1..n),
         \A t \in 1..n : aff[t] <= 1 /\ (t \notin good => aff[t] = 0),
         Total(aff, n) = Cardinality(good)
  PROVE  \A s \in good : aff[s] = 1
<1>1. \A t \in 1..n : aff[t] \in 0..MaxAffected /\ MaxAffected \in Nat /\ n \in Nat
  BY Numbers DEF Counts, Sets
<1>2. IsFiniteSet(1..n)
  BY FS_Interval, Numbers DEF Sets
<1>3. IsFiniteSet(good)
  BY <1>2, FS_Subset
<1>4. IsFiniteSet({1}) /\ Cardinality({1}) = 1
  BY FS_Singleton
<1>5. IsFiniteSet(good \X {1}) /\ Cardinality(good \X {1}) = Cardinality(good) * 1
  BY <1>3, <1>4, FS_Product
<1>6. Cardinality(good) \in Nat
  BY <1>3, FS_CardinalityType
<1>7. Rows(aff, n) \in SUBSET (good \X {1})
  <2>1. ASSUME NEW p \in Rows(aff, n) PROVE p \in good \X {1}
    <3>1. p \in (1..n) \X (1..MaxAffected) /\ p[2] <= aff[p[1]]
      BY <2>1 DEF Rows
    <3>2. p[1] \in 1..n /\ p[2] \in 1..MaxAffected /\ p = <<p[1], p[2]>>
      BY <3>1
    <3>3. p[1] \in good /\ p[2] = 1
      BY <1>1, <3>1, <3>2
    <3>4. QED BY <3>2, <3>3
  <2>2. QED BY <2>1
<1>8. Rows(aff, n) = good \X {1}
  BY <1>5, <1>6, <1>7, FS_Subset DEF Total
<1>9. ASSUME NEW s \in good PROVE aff[s] = 1
  <2>1. <<s, 1>> \in Rows(aff, n)
    BY <1>8
  <2>2. QED BY <1>1, <2>1 DEF Rows
<1>10. QED BY <1>9

\* bulk_statement::affected() is right of every set that did not fail, or does not
\* know.
LEMMA CountIsExact ==
  ASSUME NEW n \in Sets, NEW aff, Counts(aff, n), NEW bad \in SUBSET (1..n),
         \A t \in bad : aff[t] = 0,
         kind.unique => \A t \in 1..n : aff[t] <= 1
  PROVE  /\ AffectedEach(Total(aff, n), n, Cardinality(bad)) \in 0..Unknown
         /\ \A s \in (1..n) \ bad :
              AffectedEach(Total(aff, n), n, Cardinality(bad)) \in {aff[s], Unknown}
<1> DEFINE rows == Total(aff, n)
           good == (1..n) \ bad
           each == AffectedEach(rows, n, Cardinality(bad))
<1>1. /\ n \in Nat /\ n >= 1 /\ rows \in 0..(Batch * MaxAffected) /\ rows \in Nat /\ rows < Unknown
      /\ Unknown \in Nat /\ Unknown > 0
  BY RowsAreFinite, Numbers DEF Sets
<1>2. IsFiniteSet(1..n) /\ Cardinality(1..n) = n
  <2>1. n >= 1
    BY Numbers DEF Sets
  <2>2. QED BY <1>1, <2>1, FS_Interval
<1>3. IsFiniteSet(bad) /\ Cardinality(bad) \in Nat
  BY <1>2, FS_Subset, FS_CardinalityType
<1>4. IsFiniteSet(good) /\ Cardinality(good) = n - Cardinality(bad)
  <2> DEFINE N == 1..n
  <2>1. N \cap bad = bad /\ good = N \ bad
    OBVIOUS
  <2>2. IsFiniteSet(N) /\ Cardinality(N) = n
    BY <1>2
  <2> HIDE DEF N, good
  <2>3. IsFiniteSet(N \ bad) /\ Cardinality(N \ bad) = Cardinality(N) - Cardinality(N \cap bad)
    BY <2>2, FS_Difference
  <2>4. QED BY <2>1, <2>2, <2>3
<1> HIDE DEF rows, good
<1>5. each = IF n > 1 /\ rows # 0 /\ Cardinality(good) > 1
             THEN IF kind.unique /\ Cardinality(good) = rows THEN 1 ELSE Unknown
             ELSE rows
  BY <1>4 DEF AffectedEach
<1> HIDE DEF each
<1>6. each \in 0..Unknown
  BY <1>1, <1>5
<1>7. ASSUME NEW s \in good PROVE each \in {aff[s], Unknown}
  <2>1. s \in 1..n /\ \A t \in 1..n : t \notin good => aff[t] = 0
    BY DEF good
  <2>2. Cardinality(good) \in Nat /\ Cardinality(good) > 0
    BY <1>4, FS_CardinalityType, FS_EmptySet
  <2>3. CASE rows = 0
    <3>1. aff[s] = 0
      BY <2>1, <2>3, NoRows DEF rows
    <3>2. QED BY <1>5, <2>3, <3>1
  <2>4. CASE n = 1 \/ Cardinality(good) <= 1
    <3>1. \A t \in 1..n : t # s => aff[t] = 0
      <4>1. CASE n = 1
        BY <2>1, <4>1
      <4>2. CASE Cardinality(good) <= 1
        <5>1. Cardinality(good) = 1
          BY <2>2, <4>2
        <5>2. good = {s}
          BY <1>4, <5>1, FS_Singleton
        <5>3. QED BY <2>1, <5>2
      <4>3. QED BY <2>4, <4>1, <4>2
    <3>2. rows = aff[s]
      BY <2>1, <3>1, RowsOfOne DEF rows
    <3>3. QED BY <1>1, <1>5, <2>2, <2>4, <3>2
  <2>5. CASE kind.unique /\ Cardinality(good) = rows /\ rows # 0 /\ n > 1
             /\ Cardinality(good) > 1
    <3>1. good \in SUBSET (1..n)
      BY DEF good
    <3>2. aff[s] = 1
      BY <2>1, <2>5, <3>1, OneRowEach DEF rows
    <3>3. QED BY <1>5, <2>5, <3>2
  <2>6. QED BY <1>1, <1>5, <2>2, <2>3, <2>4, <2>5
<1>8. QED BY <1>6, <1>7 DEF each, rows, good

------------------------------------------------------------------------------
\* The operations.

Failed(o) == ~kind.returningId /\ o \in Seq({"23000", "01000"}) /\ Has(o, "23000")

\* What insert_statement::fetch() makes of set i, which ended with o: inserted, a
\* duplicate, an entry in multiple_exceptions, or an exception.
Fetched(i, o) ==
  /\ \/ /\ pc' = "open" /\ o = <<>> /\ mex' = mex
        /\ taken' = [taken EXCEPT ![i] = True]
        /\ kind.output => ids' = Place(i)
        /\ ~kind.output => ids' = ids
     \/ /\ pc' = "open" /\ o # <<>> /\ ids' = ids
        /\ taken' = [taken EXCEPT ![i] = False]
        /\ Failed(o) => mex' = mex
        /\ ~Failed(o) => mex' = mex \cup {i}
     \/ pc' = "thrown" /\ UNCHANGED <<ids, taken, mex>>

LEMMA FetchDoes ==
  ASSUME NEW out \in Outcomes, NEW n \in Sets, NEW i \in 1..n, batch \/ n = 1,
         Fetch(i, out, Processed(out, n, i))
  PROVE  Fetched(i, out[i])
<1> DEFINE from == IF kind.output THEN {i} ELSE 1..n
           recs == Processed(out, n, i)
<1>1. from \in SUBSET Sets /\ i \in from /\ (batch \/ from = {i})
  BY Numbers DEF Sets
<1>2. recs = Diagnostics(out, from)
  BY DEF Processed
<1> HIDE DEF from
<1>3. Duplicate(recs, i) <=> Failed(out[i])
  BY <1>1, <1>2, DuplicatesAre DEF Failed
<1> HIDE DEF recs
<1>4. Fetch(i, out, recs)
  BY DEF recs
<1>5. QED BY <1>3, <1>4 DEF Fetch, Fetched

\* The invariant that both ways to fetch a result keep: i is the first set that
\* result() has not been asked about.
LEMMA FetchKeeps ==
  ASSUME IInv, kind.op = "insert", UNCHANGED <<kind, batch, fatal>>, ~fatal,
         n_' \in Sets, ~batch => n_' = 1, i_' \in 1..n_', i_' = i_ + 1,
         outcome' \in [Sets -> RowErrors \cup WholeErrors \cup {<<>>}],
         affected' \in [Sets -> 0..MaxAffected],
         cursor' \in BOOLEAN, mex \subseteq 1..n_',
         \A s \in 1..i_ : outcome'[s] = outcome[s],
         Fetched(i_', outcome'[i_'])
  PROVE  IInv'
<1>1. TypeOK /\ Progress /\ EverySetAccountedFor /\ IdsInPlace
  BY DEF IInv
<1> DEFINE i == i_'
<1>2. /\ i \in Nat /\ i_ \in Nat /\ i = i_ + 1 /\ i \in Sets /\ n_' \in 1..Batch /\ i <= n_'
      /\ i > 0 /\ Batch \in Nat
  BY <1>1, Numbers DEF Sets, TypeOK
<1>3. taken \in [Sets -> 0..NotTaken] /\ ids \in [Sets -> 0..Batch] /\ mex \subseteq 1..n_'
  BY <1>1 DEF TypeOK
<1>4. \A s \in Sets : s > i_ => taken[s] = NotTaken /\ s \notin mex
  BY <1>1 DEF Progress
<1>5. True \in 0..NotTaken /\ False \in 0..NotTaken /\ True # NotTaken /\ False # NotTaken
      /\ True # False
  BY Numbers DEF True, False
<1>6. Place(i) \in [Sets -> 0..Batch] /\ Place(i)[i] = i
      /\ \A s \in Sets : s # i /\ s # Batch => Place(i)[s] = ids[s]
  <2> DEFINE e == [ids EXCEPT ![Batch] = i]
  <2>1. Batch \in Sets /\ i \in Sets /\ i \in 0..Batch
    BY <1>2, Numbers DEF Sets
  <2>2. e \in [Sets -> 0..Batch] /\ \A s \in Sets : s # Batch => e[s] = ids[s]
    BY <1>3, <2>1
  <2>3. Place(i) = [e EXCEPT ![i] = i]
    BY DEF Place
  <2> HIDE DEF e, i
  <2>4. QED BY <2>1, <2>2, <2>3
<1> HIDE DEF i
<1>7. /\ pc' \in {"open", "thrown"} /\ taken' \in [Sets -> 0..NotTaken]
      /\ ids' \in [Sets -> 0..Batch] /\ mex' \subseteq 1..n_'
  BY <1>2, <1>3, <1>5, <1>6 DEF Fetched, i
<1>8. /\ \A s \in Sets : s # i => taken'[s] = taken[s] /\ (s \in mex' <=> s \in mex)
      /\ \A s \in Sets : s < i => ids'[s] = ids[s]
  <2>1. \A s \in Sets : s < i => s # i /\ s # Batch /\ s \in Nat
    BY <1>2, Numbers DEF Sets
  <2>2. QED BY <1>2, <1>3, <1>6, <2>1 DEF Fetched, i
<1>9. TypeOK'
  <2>1. n_' \in 0..Batch /\ i_' \in 0..Batch /\ i_' <= n_'
    BY <1>2 DEF i
  <2>2. mex' \subseteq IF fatal' THEN {1} ELSE 1..n_'
    BY <1>7
  <2>3. kind' \in Kinds /\ batch' \in BOOLEAN /\ fatal' \in BOOLEAN
    BY <1>1 DEF TypeOK
  <2>4. QED BY <1>7, <2>1, <2>2, <2>3 DEF TypeOK
<1>10. Progress'
  <2>1. \A s \in Sets : s > i => taken'[s] = NotTaken /\ s \notin mex'
    <3>1. \A s \in Sets : s > i => s # i /\ s > i_
      BY <1>2, Numbers DEF Sets
    <3>2. QED BY <1>4, <1>8, <3>1
  <2>2. QED BY <1>1, <1>2, <1>7, <2>1 DEF Progress, i
<1>11. ASSUME NEW s \in Seen' PROVE s \in Sets /\ (s # i => s \in Seen /\ s < i /\ s \in 1..i_)
  <2>1. s \in 1..i /\ taken'[s] # NotTaken
    BY DEF Seen, i
  <2>2. s \in Sets /\ (s # i => s \in 1..i_ /\ s < i)
    BY <1>2, <2>1 DEF Sets
  <2>3. QED BY <1>8, <2>1, <2>2 DEF Seen
<1>12. EverySetAccountedFor'
  <2>1. ASSUME NEW s \in Seen'
        PROVE  /\ taken'[s] = True <=> outcome'[s] = <<>>
               /\ s \in mex' <=> outcome'[s] # <<>> /\ ~Failed(outcome'[s])
    <3>1. CASE s = i
      <4>1. taken'[s] # NotTaken /\ i \notin mex /\ taken[i] = NotTaken
        BY <1>2, <1>4, <3>1 DEF Seen
      <4>2. Fetched(i, outcome'[s])
        BY <3>1 DEF i
      <4>3. QED BY <1>2, <1>3, <1>5, <3>1, <4>1, <4>2 DEF Fetched
    <3>2. CASE s # i
      <4>1. s \in Seen /\ outcome'[s] = outcome[s]
        BY <1>11, <3>2
      <4>2. /\ taken[s] = True <=> outcome[s] = <<>>
            /\ s \in mex <=> outcome[s] # <<>> /\ ~Failed(outcome[s])
        BY <1>1, <4>1 DEF EverySetAccountedFor, Failed, DuplicateKey
      <4>3. QED BY <1>8, <1>11, <3>2, <4>1, <4>2
    <3>3. QED BY <3>1, <3>2
  <2>2. QED BY <2>1 DEF EverySetAccountedFor, Failed, DuplicateKey
<1>13. IdsInPlace'
  <2>1. ASSUME NEW s \in Seen', taken'[s] = True, kind.output
        PROVE  ids'[s] = s
    <3>1. CASE s = i
      <4>1. taken[i] = NotTaken
        BY <1>2, <1>4
      <4>2. QED BY <1>2, <1>3, <1>5, <1>6, <2>1, <3>1, <4>1 DEF Fetched, i
    <3>2. CASE s # i
      BY <1>1, <1>8, <1>11, <2>1, <3>2 DEF IdsInPlace
    <3>3. QED BY <3>1, <3>2
  <2>2. QED BY <2>1 DEF IdsInPlace
<1>14. Counted'
  BY DEF Counted
<1>15. QED BY <1>9, <1>10, <1>12, <1>13, <1>14 DEF IInv

LEMMA OutcomesAreRecords ==
  ASSUME NEW out \in [Sets -> RowErrors \cup WholeErrors \cup {<<>>}]
  PROVE  out \in Outcomes
BY BulkAssumption, EmptySeq DEF Outcomes

\* The server's part of execute(), and what every kind of statement does.
LEMMA Executed ==
  ASSUME IInv, NEW n \in Sets, Execute(n)
  PROVE  /\ pc = "ready" /\ (batch \/ n = 1) /\ n_' = n /\ i_' = 1
         /\ i_ = 0 /\ mex = {} /\ ~fatal /\ \A s \in Sets : taken[s] = NotTaken
         /\ UNCHANGED <<kind, batch, fatal>>
         /\ outcome' \in [Sets -> RowErrors \cup WholeErrors \cup {<<>>}]
         /\ affected' \in [Sets -> 0..MaxAffected]
         /\ cursor' \in BOOLEAN
         /\ kind.op = "change" => ~cursor'
         /\ \A s \in 1..n : outcome'[s] # <<>> => affected'[s] = 0
         /\ kind.unique => \A s \in 1..n : affected'[s] <= 1
         /\ kind.op = "insert" => Fetch(1, outcome', Processed(outcome', n, 1))
         /\ kind.op = "change" => Change(outcome', affected', n)
<1>1. TypeOK /\ Progress
  BY DEF IInv
<1>2. PICK out \in [1..n -> RowErrors \cup {<<>>}] :
      \E aff \in [1..n -> 0..IF kind.op = "insert" \/ kind.unique \/ kind.output
                              THEN 1 ELSE MaxAffected] :
        /\ \A s \in 1..n : out[s] # <<>> => aff[s] = 0
        /\ kind.op = "insert" => \A s \in 1..n : out[s] = <<>> => aff[s] = 1
        /\ outcome' = [s \in Sets |-> IF s <= n THEN out[s] ELSE <<>>]
        /\ affected' = [s \in Sets |-> IF s <= n THEN aff[s] ELSE 0]
        /\ cursor' = (kind.op = "insert" /\ kind.output /\ (n > 1 \/ out[1] = <<>>))
        /\ IF kind.op = "insert"
           THEN Fetch(1, outcome', Processed(outcome', n, 1))
           ELSE Change(outcome', affected', n)
  BY Zenon DEF Execute
<1>3. PICK aff \in [1..n -> 0..IF kind.op = "insert" \/ kind.unique \/ kind.output
                              THEN 1 ELSE MaxAffected] :
        /\ \A s \in 1..n : out[s] # <<>> => aff[s] = 0
        /\ outcome' = [s \in Sets |-> IF s <= n THEN out[s] ELSE <<>>]
        /\ affected' = [s \in Sets |-> IF s <= n THEN aff[s] ELSE 0]
        /\ cursor' = (kind.op = "insert" /\ kind.output /\ (n > 1 \/ out[1] = <<>>))
        /\ IF kind.op = "insert"
           THEN Fetch(1, outcome', Processed(outcome', n, 1))
           ELSE Change(outcome', affected', n)
  BY <1>2
<1>4. n \in Nat /\ n >= 1 /\ n <= Batch /\ \A s \in Sets : s <= n <=> s \in 1..n
  BY Numbers DEF Sets
<1>5. \A s \in 1..n : s \in Sets /\ s <= n
  BY <1>4, Numbers DEF Sets
<1>6. outcome' \in [Sets -> RowErrors \cup WholeErrors \cup {<<>>}]
  <2>1. \A s \in Sets : (IF s <= n THEN out[s] ELSE <<>>) \in RowErrors \cup WholeErrors \cup {<<>>}
    BY <1>4
  <2>2. QED BY <1>3, <2>1
<1>7. affected' \in [Sets -> 0..MaxAffected]
  <2>1. \A s \in 1..n : aff[s] \in 0..MaxAffected
    BY Numbers
  <2>2. QED BY <1>3, <1>4, <2>1, Numbers
<1>8. \A s \in 1..n : outcome'[s] = out[s] /\ affected'[s] = aff[s]
  BY <1>3, <1>5
<1>9. kind.unique => \A s \in 1..n : affected'[s] <= 1
  BY <1>8
<1>10. /\ pc = "ready" /\ (batch \/ n = 1) /\ n_' = n /\ i_' = 1
      /\ UNCHANGED <<kind, batch, fatal>>
  BY DEF Execute
<1>11. i_ = 0 /\ mex = {} /\ ~fatal /\ \A s \in Sets : taken[s] = NotTaken
  BY <1>1, <1>10 DEF Progress
<1>12. QED BY <1>3, <1>6, <1>7, <1>8, <1>9, <1>10, <1>11

\* insert_statement::execute() fetches the result of the first set.
LEMMA ExecuteInsert ==
  ASSUME IInv, NEW n \in Sets, Execute(n), kind.op = "insert"
  PROVE  IInv'
<1>1. /\ pc = "ready" /\ (batch \/ n = 1) /\ n_' = n /\ i_' = 1
      /\ i_ = 0 /\ mex = {} /\ ~fatal
      /\ UNCHANGED <<kind, batch, fatal>>
      /\ outcome' \in [Sets -> RowErrors \cup WholeErrors \cup {<<>>}]
      /\ affected' \in [Sets -> 0..MaxAffected]
      /\ cursor' \in BOOLEAN
      /\ Fetch(1, outcome', Processed(outcome', n, 1))
  BY Executed
<1>2. 1 \in 1..n /\ n \in Nat
  BY Numbers DEF Sets
<1>3. Fetched(1, outcome'[1])
  BY <1>1, <1>2, FetchDoes, OutcomesAreRecords
<1>4. QED BY <1>1, <1>2, <1>3, FetchKeeps

\* update_statement::execute() and delete_statement::execute().
LEMMA ExecuteChange ==
  ASSUME IInv, NEW n \in Sets, Execute(n), kind.op = "change"
  PROVE  IInv'
<1>1. TypeOK /\ Progress
  BY DEF IInv
<1>2. /\ pc = "ready" /\ (batch \/ n = 1) /\ n_' = n /\ i_' = 1
      /\ mex = {} /\ ~fatal /\ \A s \in Sets : taken[s] = NotTaken
      /\ UNCHANGED <<kind, batch, fatal>>
      /\ outcome' \in [Sets -> RowErrors \cup WholeErrors \cup {<<>>}]
      /\ affected' \in [Sets -> 0..MaxAffected]
      /\ ~cursor' /\ cursor' \in BOOLEAN
      /\ \A s \in 1..n : outcome'[s] # <<>> => affected'[s] = 0
      /\ kind.unique => \A s \in 1..n : affected'[s] <= 1
      /\ Change(outcome', affected', n)
  BY Executed
<1> DEFINE bad == {s \in 1..n : outcome'[s] # <<>>}
           rows == AffectedEach(Total(affected', n), n, Cardinality(bad))
<1>3. \/ pc' = "thrown" /\ UNCHANGED <<mex, taken, ids>>
      \/ /\ pc' = "open"
         /\ ids' = IF kind.output /\ rows # 0 THEN [ids EXCEPT ![1] = 1] ELSE ids
         /\ mex' = mex \cup bad
         /\ taken' = [s \in Sets |-> IF s \in 1..n THEN rows ELSE NotTaken]
  BY <1>2 DEF Change
<1>4. /\ n \in 1..Batch /\ 1 \in Sets /\ Batch \in Nat /\ Batch > 0 /\ 1..n \subseteq Sets
      /\ NotTaken \in Nat /\ Unknown \in Nat /\ NotTaken = Unknown + 1
  BY Numbers DEF Sets
<1>5. rows \in 0..Unknown /\ \A s \in (1..n) \ bad : rows \in {affected'[s], Unknown}
  <2>1. \A a : a = affected' => Counts(a, n)
    BY <1>2, <1>4 DEF Counts
  <2>2. bad \in SUBSET (1..n) /\ \A t \in bad : affected'[t] = 0
    BY <1>2
  <2> HIDE DEF bad
  <2>3. QED BY <1>2, <2>1, <2>2, CountIsExact
<1> HIDE DEF rows
<1>6. /\ taken' \in [Sets -> 0..NotTaken] /\ ids' \in [Sets -> 0..Batch]
      /\ mex' \subseteq 1..n /\ pc' \in {"open", "thrown"}
  <2>1. taken' \in [Sets -> 0..NotTaken]
    <3>1. rows \in 0..NotTaken /\ NotTaken \in 0..NotTaken
      BY <1>4, <1>5
    <3>2. QED BY <1>1, <1>3, <3>1 DEF TypeOK
  <2>2. ids' \in [Sets -> 0..Batch]
    BY <1>1, <1>3, <1>4 DEF TypeOK
  <2>3. mex' \subseteq 1..n /\ pc' \in {"open", "thrown"}
    BY <1>2, <1>3
  <2>4. QED BY <2>1, <2>2, <2>3
<1>7. TypeOK'
  <2>1. n_' \in 0..Batch /\ i_' \in 0..Batch /\ i_' <= n_'
    BY <1>2, <1>4
  <2>2. kind' \in Kinds /\ batch' \in BOOLEAN /\ fatal' \in BOOLEAN
    BY <1>1, <1>2 DEF TypeOK
  <2>3. QED BY <1>2, <1>6, <2>1, <2>2 DEF TypeOK
<1>8. Progress'
  BY <1>2, <1>4, <1>6 DEF Progress
<1>9. Counted'
  <2>1. ASSUME NEW s \in (1..n) \ mex' PROVE taken'[s] \in {affected'[s], Unknown, NotTaken}
    BY <1>2, <1>3, <1>4, <1>5
  <2>2. QED BY <1>2, <2>1 DEF Counted
<1>10. EverySetAccountedFor' /\ IdsInPlace'
  BY <1>2 DEF EverySetAccountedFor, IdsInPlace
<1>11. QED BY <1>7, <1>8, <1>9, <1>10 DEF IInv

\* Without a batch no error becomes an entry of multiple_exceptions.
LEMMA EntriesNeedABatch ==
  ASSUME ~batch, NEW recs, NEW i, Entry(recs, i).throws = "insert"
  PROVE  FALSE
<1>1. Entry(recs, i) = Translate("ERROR", recs, FALSE, NoRow)
  BY DEF Entry
<1>2. Entry(recs, i).throws = IF SpecialKind(recs) # "none" THEN SpecialKind(recs)
                              ELSE "database_exception"
  BY <1>1 DEF Translate, BareReturns
<1>3. \A c : Kind(c) # "insert"
  BY DEF Kind
<1>4. SpecialKind(recs) # "insert"
  BY <1>3 DEF SpecialKind
<1>5. QED BY <1>2, <1>4

\* SQLExecute() fails as a whole.
LEMMA ExecuteFailsInv ==
  ASSUME IInv, NEW n \in Sets, ExecuteFails(n)
  PROVE  IInv'
<1>1. TypeOK /\ Progress
  BY DEF IInv
<1>2. /\ pc = "ready" /\ fatal' = batch
      /\ UNCHANGED <<kind, batch, n_, i_, outcome, affected, ids, cursor, taken>>
      /\ \/ mex' = mex \cup {1} /\ pc' = "done" /\ batch
         \/ pc' = "thrown" /\ UNCHANGED mex
  BY EntriesNeedABatch DEF ExecuteFails
<1>3. /\ i_ = 0 /\ n_ = 0 /\ mex = {} /\ ~cursor
      /\ \A s \in Sets : taken[s] = NotTaken
  BY <1>1, <1>2 DEF Progress, TypeOK
<1>4. TypeOK'
  <2>1. mex' \subseteq IF fatal' THEN {1} ELSE 1..n_'
    BY <1>2, <1>3
  <2>2. QED BY <1>1, <1>2, <1>3, <2>1 DEF TypeOK
<1>5. Progress'
  BY <1>1, <1>2, <1>3 DEF Progress
<1>6. Seen' = {} /\ (1..n_') = {}
  BY <1>2, <1>3 DEF Seen
<1>7. EverySetAccountedFor' /\ IdsInPlace' /\ Counted'
  BY <1>6 DEF EverySetAccountedFor, IdsInPlace, Counted
<1>8. QED BY <1>4, <1>5, <1>7 DEF IInv

\* result() for the next set.
LEMMA NextResultInv ==
  ASSUME IInv, NextResult
  PROVE  IInv'
<1>1. TypeOK /\ Progress /\ Counted
  BY DEF IInv
<1>2. /\ pc = "open" /\ i_ < n_ /\ i_' = i_ + 1
      /\ UNCHANGED <<kind, batch, n_, outcome, affected, cursor, fatal>>
  BY DEF NextResult
<1>3. /\ n_ \in 1..Batch /\ i_ \in Nat /\ i_ > 0 /\ n_ \in Nat /\ n_ > 1 /\ Batch \in Nat
      /\ i_ + 1 \in 1..n_ /\ batch /\ ~fatal
  BY <1>1, <1>2, Numbers DEF TypeOK, Progress
<1>4. CASE kind.op = "insert"
  <2>1. Fetch(i_ + 1, outcome, Processed(outcome, n_, i_ + 1))
    BY <1>4 DEF NextResult
  <2>2. outcome \in [Sets -> RowErrors \cup WholeErrors \cup {<<>>}] /\ n_ \in Sets
    BY <1>1, <1>3 DEF TypeOK, Sets
  <2>3. Fetched(i_ + 1, outcome[i_ + 1])
    BY <1>3, <2>1, <2>2, FetchDoes, OutcomesAreRecords
  <2>4. mex \subseteq 1..n_
    BY <1>1, <1>3 DEF TypeOK
  <2>5. QED BY <1>1, <1>2, <1>3, <1>4, <2>2, <2>3, <2>4, FetchKeeps DEF TypeOK
<1>5. CASE kind.op = "change"
  <2>1. UNCHANGED <<pc, taken, mex, ids>>
    BY <1>5 DEF NextResult
  <2>2. TypeOK'
    BY <1>1, <1>2, <1>3, <2>1 DEF TypeOK
  <2>3. Progress'
    BY <1>1, <1>2, <1>3, <1>5, <2>1 DEF Progress
  <2>4. EverySetAccountedFor' /\ IdsInPlace' /\ Counted'
    BY <1>1, <1>2, <1>5, <2>1 DEF EverySetAccountedFor, IdsInPlace, Counted
  <2>5. QED BY <2>2, <2>3, <2>4 DEF IInv
<1>6. kind.op \in {"insert", "change"}
  BY <1>1 DEF TypeOK, Kinds
<1>7. QED BY <1>4, <1>5, <1>6

\* The last result() has closed the cursor.
LEMMA LastResultInv ==
  ASSUME IInv, LastResult
  PROVE  IInv'
<1>1. /\ TypeOK /\ Progress /\ EverySetAccountedFor /\ IdsInPlace /\ Counted
      /\ pc' = "done" /\ cursor' = FALSE /\ pc = "open"
      /\ UNCHANGED <<kind, batch, n_, i_, outcome, affected, ids, taken, mex, fatal>>
  BY DEF IInv, LastResult
<1>2. TypeOK'
  BY <1>1 DEF TypeOK
<1>3. Progress'
  BY <1>1 DEF Progress
<1>4. EverySetAccountedFor' /\ IdsInPlace' /\ Counted'
  BY <1>1 DEF EverySetAccountedFor, DuplicateKey, IdsInPlace, Counted, Seen
<1>5. QED BY <1>2, <1>3, <1>4 DEF IInv

\* The next batch.
LEMMA AgainInv ==
  ASSUME IInv, Again
  PROVE  IInv'
<1>1. /\ TypeOK
      /\ pc = "done" /\ pc' = "ready" /\ n_' = 0 /\ i_' = 0
      /\ taken' = [s \in Sets |-> NotTaken] /\ mex' = {} /\ fatal' = FALSE
      /\ UNCHANGED <<kind, batch, outcome, affected, ids, cursor>>
  BY DEF IInv, Again
<1>2. TypeOK'
  <2>1. 0 \in 0..Batch /\ 0 <= 0 /\ NotTaken \in 0..NotTaken
    BY Numbers
  <2>2. taken' \in [Sets -> 0..NotTaken]
    BY <1>1, <2>1
  <2>3. cursor = FALSE
    BY <1>1 DEF TypeOK
  <2>4. QED BY <1>1, <2>1, <2>2, <2>3 DEF TypeOK
<1>3. Progress'
  BY <1>1 DEF Progress
<1>4. Seen' = {} /\ (1..n_') = {}
  BY <1>1 DEF Seen
<1>5. EverySetAccountedFor' /\ IdsInPlace' /\ Counted'
  BY <1>4 DEF EverySetAccountedFor, IdsInPlace, Counted
<1>6. QED BY <1>2, <1>3, <1>5 DEF IInv

LEMMA InitInv ==
  ASSUME Init
  PROVE  IInv
<1>1. TypeOK
  <2>1. 0 \in 0..Batch /\ 0 <= 0 /\ NotTaken \in 0..NotTaken /\ 0 \in 0..MaxAffected
    BY Numbers
  <2>2. /\ taken \in [Sets -> 0..NotTaken] /\ ids \in [Sets -> 0..Batch]
        /\ affected \in [Sets -> 0..MaxAffected]
        /\ outcome \in [Sets -> RowErrors \cup WholeErrors \cup {<<>>}]
    BY <2>1 DEF Init
  <2>3. kind \in Kinds /\ batch \in BOOLEAN /\ cursor = FALSE /\ fatal = FALSE /\ mex = {}
        /\ n_ = 0 /\ i_ = 0 /\ pc = "ready"
    BY DEF Init
  <2>4. QED BY <2>1, <2>2, <2>3 DEF TypeOK
<1>2. Progress
  BY DEF Init, Progress
<1>3. Seen = {} /\ (1..n_) = {}
  BY DEF Init, Seen
<1>4. EverySetAccountedFor /\ IdsInPlace /\ Counted
  BY <1>3 DEF EverySetAccountedFor, IdsInPlace, Counted
<1>5. QED BY <1>1, <1>2, <1>4 DEF IInv

LEMMA StutterInv ==
  ASSUME IInv, UNCHANGED vars
  PROVE  IInv'
BY DEF IInv, vars, TypeOK, Progress, EverySetAccountedFor, DuplicateKey, IdsInPlace,
   Counted, Seen

\* Every step keeps the invariant.
LEMMA Invariance == Spec => []IInv
<1>1. IInv /\ [Next]_vars => IInv'
  <2> SUFFICES ASSUME IInv, [Next]_vars PROVE IInv'
    OBVIOUS
  <2>1. CASE \E n \in Sets : Execute(n)
    <3>1. kind.op \in {"insert", "change"}
      BY DEF IInv, TypeOK, Kinds
    <3>2. QED BY <2>1, <3>1, ExecuteInsert, ExecuteChange
  <2>2. CASE \E n \in Sets : ExecuteFails(n)
    BY <2>2, ExecuteFailsInv
  <2>3. CASE NextResult
    BY <2>3, NextResultInv
  <2>4. CASE LastResult
    BY <2>4, LastResultInv
  <2>5. CASE Again
    BY <2>5, AgainInv
  <2>6. CASE UNCHANGED vars
    BY <2>6, StutterInv
  <2>7. QED BY <2>1, <2>2, <2>3, <2>4, <2>5, <2>6 DEF Next
<1>2. Init => IInv
  BY InitInv
<1>3. QED BY <1>1, <1>2, PTL DEF Spec

------------------------------------------------------------------------------
\* What follows.

\* Every variable has its type: the cursor is open only while there are results
\* to take, and multiple_exceptions has entries of sets of the batch only, or the
\* one entry of a failure of the statement as a whole.
THEOREM TypeCorrect == Spec => []TypeOK
BY Invariance, PTL DEF IInv

\* An INSERT's result() is true of exactly the sets that inserted their row, and
\* there is an exception for each of the others but the duplicates, whatever the
\* diagnostics of the other sets of the batch (insert_statement::fetch()).
THEOREM SetsAreAccountedFor == Spec => []EverySetAccountedFor
BY Invariance, PTL DEF IInv

\* Each element of the batch array holds the id of its own row from the moment
\* result() says that the row was inserted until the batch is done.
THEOREM IdsStayInPlace == Spec => []IdsInPlace
BY Invariance, PTL DEF IInv

\* Where an UPDATE's or DELETE's result() gives a number of affected rows, it is
\* the number of that set (bulk_statement::affected()).
THEOREM GivenCountsAreExact == Spec => []CountsAreExact
<1>1. IInv => CountsAreExact
  <2> SUFFICES ASSUME IInv, kind.op = "change", NEW s \in Seen \ mex
               PROVE  taken[s] \in {affected[s], Unknown}
    BY DEF CountsAreExact
  <2>1. TypeOK /\ Counted
    BY DEF IInv
  <2>2. s \in (1..n_) \ mex /\ taken[s] # NotTaken
    BY <2>1, Numbers DEF TypeOK, Seen
  <2>3. QED BY <2>1, <2>2 DEF Counted
<1>2. QED BY <1>1, Invariance, PTL
==============================================================================
