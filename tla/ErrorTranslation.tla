--------------------------- MODULE ErrorTranslation ---------------------------
(****************************************************************************)
(* translate_error(): from the diagnostic records of a failed ODBC call to  *)
(* the exception that is thrown (or the entry that is added for one row of  *)
(* a batch) and to the connection's failed mark.  A record is its SQLSTATE  *)
(* and the row of the batch it belongs to; texts and native codes are left  *)
(* out.                                                                     *)
(****************************************************************************)
EXTENDS Naturals, Sequences

\* SQL_NO_ROW_NUMBER and SQL_ROW_NUMBER_UNKNOWN: a record of no row in
\* particular.  Rows are numbered from 1.
NoRow == 0

\* "?????" stands for a record that SQLGetDiagRec() cannot read.
Codes == {"40001", "HYT00", "HYT01", "08S01", "01000", "25S03", "40002", "HYC00",
          "23000", "HY000", "?????"}

\* The special exception that one SQLSTATE asks for.
Kind(code) ==
  CASE code = "40001"            -> "deadlock"
    [] code \in {"HYT00", "HYT01"} -> "timeout"
    [] code = "08S01"            -> "connection_lost"
    [] OTHER                     -> "none"

\* SQLSTATEs that mean the connection is gone, and those after which a failed
\* SQLEndTran() does not leave the connection in the suspended state.
LinkCodes == {"08S01", "HYT01"}
SettledCodes == {"25S03", "40001", "40002", "HYC00"}

\* Mutant of Marks: the end_tran argument ignored.
MarksLinkOnly(code, endTran) == code \in LinkCodes

\* Does reading this record call connection::mark_failed()?
Marks(code, endTran) ==
  code \in LinkCodes \/ (endTran /\ code \notin SettledCodes \cup {"?????"})

\* The pre-scan: general warnings are skipped; it stops at the first record that
\* is not special, or whose kind differs from that of a record before it.
Significant(recs) == {i \in 1..Len(recs) : recs[i].code # "01000"}
Stops(recs) ==
  {i \in Significant(recs) :
     \/ Kind(recs[i].code) = "none"
     \/ \E j \in Significant(recs) : j < i /\ Kind(recs[j].code) # Kind(recs[i].code)}

\* The records whose SQLSTATE the pre-scan compares with the marking codes.
Scanned(recs) ==
  {i \in Significant(recs) :
     Kind(recs[i].code) # "none" /\ \A s \in Stops(recs) : i <= s}

\* "none" unless every record but the warnings asks for the same exception.
SpecialKind(recs) ==
  IF Stops(recs) # {} \/ Significant(recs) = {} THEN "none"
  ELSE Kind(recs[CHOOSE i \in Significant(recs) : TRUE].code)

\* The second loop, for row number `row` of a batch (NoRow = not a batch): only
\* records of another row are left out.
Reported(recs, row) ==
  {i \in 1..Len(recs) : row = NoRow \/ recs[i].row \in {NoRow, row}}

\* Return codes that have no diagnostic records.
BareReturns == {"STILL_EXECUTING", "NEED_DATA", "NO_DATA", "INVALID_HANDLE"}

\* The whole function: what is thrown ("insert" = nothing, the batch's
\* multiple_exceptions got an entry), the records in the entry or exception, and
\* whether the connection is marked failed.  An empty set of records becomes
\* one "no diagnostic record" entry.
Translate(r, recs, endTran, row) ==
  LET special == SpecialKind(recs)
      read == Scanned(recs) \cup IF special = "none" THEN Reported(recs, row) ELSE {}
  IN  IF r \in BareReturns
      THEN [throws |-> "database_exception", records |-> {}, marks |-> FALSE]
      ELSE [throws |-> IF special # "none" THEN special
                       ELSE IF row = NoRow THEN "database_exception" ELSE "insert",
            records |-> IF special = "none" THEN Reported(recs, row) ELSE {},
            marks |-> \E i \in read : Marks(recs[i].code, endTran)]

\* Exceptions after which the library says the transaction may be tried again.
Recoverable == {"deadlock", "timeout", "connection_lost"}
==============================================================================
