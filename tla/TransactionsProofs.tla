--------------------------- MODULE TransactionsProofs ---------------------------
(****************************************************************************)
(* The safety of transactions over pooled connections for every set of      *)
(* threads and connections, every number of transactions and failures, and  *)
(* all diagnostics: the inductive invariant IInv and what follows from it.  *)
(****************************************************************************)
EXTENDS Transactions, SequenceTheorems, TLAPS

------------------------------------------------------------------------------
\* The inductive invariant.

\* The transaction that t runs on c has not been ended yet.
Running(t, c) == phase[t] \in {"active", "doomed"} /\ lease[t] = c

\* A connection is leased to one thread at a time.
Leases ==
  /\ \A t \in Threads : t \in keeps => lease[t] \in Conns
  /\ \A t, u \in Threads : lease[t] = lease[u] /\ lease[t] # NoConn => t = u

\* Transactions have numbers of their own, and those to come have left no trace.
Numbers ==
  /\ \A t \in Threads : work[t] <= begun
  /\ \A t, u \in Threads : phase[t] # "none" /\ phase[u] # "none" /\ work[t] = work[u] => t = u
  /\ \A x \in Tx : x > begun =>
       /\ outcome[x] = "unknown" /\ x \notin committed \cup undone
       /\ \A c \in Conns : x \notin open[c] \cup results[c] /\ x \notin cursor[c]

\* As long as a transaction runs nothing of it was committed, and nothing undone
\* unless the application was told (by an exception, or by the next call).
NotEndedYet ==
  \A t \in Threads : phase[t] \in {"active", "doomed"} =>
    /\ outcome[work[t]] = "unknown" /\ work[t] \notin committed
    /\ phase[t] = "active" /\ lease[t] \notin lost => work[t] \notin undone

\* The uncommitted work of a transaction is in one session, and in no other place.
OneSession ==
  \A c \in Conns : \A x \in open[c] \ {Outside} :
    /\ x \notin committed \cup undone
    /\ \A d \in Conns : x \in open[d] => c = d
    /\ outcome[x] \in {"not_ended", "failed"} \/ \E t \in Threads : Running(t, c) /\ work[t] = x

\* What transactions leave on a connection that is not marked failed, unless
\* SQLEndTran() has failed there with nothing that can be read.
Left(c) == (open[c] \cup results[c] \cup cursor[c]) \ {Outside}
Leftovers ==
  \A c \in Conns \ (broken \cup unheard) : \A x \in Left(c) :
    outcome[x] = "not_ended" \/ \E t \in Threads : Running(t, c) /\ work[t] = x

IInv ==
  /\ TypeOK /\ Leases /\ Numbers /\ NotEndedYet /\ OneSession /\ Leftovers
  /\ ToldTheTruth /\ AllOrNothing
  /\ suspect \subseteq broken

------------------------------------------------------------------------------
\* Diagnostics that mark the connection failed.

LEMMA RecordsOf ==
  ASSUME NEW S, NEW e \in Seq(S)
  PROVE  Len(Records(e)) = Len(e) /\ \A i \in 1..Len(e) : Records(e)[i].code = e[i]
<1>1. Len(e) \in Nat /\ \A i \in 1..Len(e) : e[i] \in S
  BY LenProperties
<1>2. Records(e) \in Seq([code : S, row : {NoRow}])
  BY <1>1, IsASeq DEF Records
<1>3. /\ Len(Records(e)) \in Nat /\ DOMAIN Records(e) = 1..Len(Records(e))
      /\ DOMAIN Records(e) = 1..Len(e)
  <2>1. Len(Records(e)) \in Nat /\ DOMAIN Records(e) = 1..Len(Records(e))
    BY <1>2, LenProperties
  <2>2. DOMAIN Records(e) = 1..Len(e)
    BY DEF Records
  <2>3. QED BY <2>1, <2>2
<1>4. \A m, n \in Nat : 1..m = 1..n => m = n
  <2> SUFFICES ASSUME NEW m \in Nat, NEW n \in Nat, 1..m = 1..n PROVE m = n
    OBVIOUS
  <2>1. (m \in 1..m <=> m \in 1..n) /\ (n \in 1..m <=> n \in 1..n)
    OBVIOUS
  <2>2. QED BY <2>1
<1>5. \A i \in 1..Len(e) : Records(e)[i].code = e[i]
  BY DEF Records
<1>6. QED BY <1>1, <1>3, <1>4, <1>5

LEMMA LinkErrorsMark ==
  ASSUME NEW e \in Seq(Codes), Has(e, LinkCodes), NEW endTran \in BOOLEAN
  PROVE  Translate("ERROR", Records(e), endTran, NoRow).marks
<1> DEFINE recs == Records(e)
<1>1. PICK i \in 1..Len(e) : e[i] \in LinkCodes
  BY DEF Has
<1>2. Len(recs) = Len(e) /\ recs[i].code = e[i] /\ i \in 1..Len(recs)
  BY RecordsOf
<1>3. Marks(recs[i].code, endTran) /\ Kind(recs[i].code) # "none" /\ recs[i].code # "01000"
  BY <1>1, <1>2 DEF Marks, LinkCodes, Kind
<1>4. i \in Significant(recs)
  BY <1>2, <1>3 DEF Significant
<1>5. SpecialKind(recs) = "none" => i \in Reported(recs, NoRow)
  BY <1>2 DEF Reported
<1>6. SpecialKind(recs) # "none" => i \in Scanned(recs)
  BY <1>3, <1>4 DEF SpecialKind, Scanned
<1>7. QED
  <2> HIDE DEF recs
  <2>1. Translate("ERROR", recs, endTran, NoRow).marks
    BY <1>3, <1>5, <1>6 DEF Translate, BareReturns
  <2>2. QED BY <2>1 DEF recs

\* A failed SQLEndTran() with a record that can be read marks the connection, unless
\* the records say what became of the transaction.
LEMMA SuspendedMarks ==
  ASSUME NEW e \in Seq(Codes), Has(e, Codes \ {"?????"}), ~Settled(e)
  PROVE  Translate("ERROR", Records(e), TRUE, NoRow).marks
<1> DEFINE recs == Records(e)
<1>1. /\ Len(recs) = Len(e)
      /\ \A i \in 1..Len(e) : e[i] \in Codes /\ recs[i].code = e[i]
  BY RecordsOf, LenProperties
<1>2. PICK i \in 1..Len(e) :
        /\ e[i] \in Codes \ (SettledCodes \cup {"?????"})
        /\ e[i] = "01000" => \A j \in 1..Len(e) : e[j] \in {"01000", "?????"}
  <2>1. CASE Has(e, Codes \ (SettledCodes \cup {"01000", "?????"}))
    BY <2>1 DEF Has
  <2>2. CASE ~Has(e, Codes \ (SettledCodes \cup {"01000", "?????"})) /\ ~Has(e, SettledCodes)
    <3>1. \A j \in 1..Len(e) : e[j] \in {"01000", "?????"}
      BY <1>1, <2>2 DEF Has
    <3>2. PICK j \in 1..Len(e) : e[j] \in Codes \ {"?????"}
      BY DEF Has
    <3>3. e[j] = "01000" /\ "01000" \notin SettledCodes
      BY <3>1, <3>2 DEF SettledCodes
    <3>4. QED BY <3>1, <3>2, <3>3
  <2>3. QED BY <2>1, <2>2 DEF Settled
<1>3. Marks(recs[i].code, TRUE) /\ i \in 1..Len(recs)
  BY <1>1, <1>2 DEF Marks
<1>4. SpecialKind(recs) = "none" => i \in Reported(recs, NoRow)
  BY <1>3 DEF Reported
<1>5. SpecialKind(recs) # "none" => i \in Scanned(recs)
  <2>1. SUFFICES ASSUME Stops(recs) = {}, Significant(recs) # {} PROVE i \in Scanned(recs)
    BY DEF SpecialKind
  <2>2. recs[i].code # "01000"
    <3>1. PICK j \in Significant(recs) : TRUE
      BY <2>1
    <3>2. j \in 1..Len(e) /\ e[j] # "01000" /\ Kind(recs[j].code) # "none"
      BY <1>1, <2>1, <3>1 DEF Significant, Stops
    <3>3. e[j] # "?????"
      BY <1>1, <3>2 DEF Kind
    <3>4. QED BY <1>1, <1>2, <3>2, <3>3
  <2>3. i \in Significant(recs)
    BY <1>3, <2>2 DEF Significant
  <2>4. QED BY <2>1, <2>3 DEF Scanned, Stops
<1>6. QED
  <2> HIDE DEF recs
  <2>1. Translate("ERROR", recs, TRUE, NoRow).marks
    BY <1>3, <1>4, <1>5 DEF Translate, BareReturns
  <2>2. QED BY <2>1 DEF recs

\* The answers that the calls may give.
LEMMA Answered ==
  ASSUME NEW c, NEW a \in StatementAnswers(c) \cup EndTranAnswers(c)
  PROVE  /\ a.diag \in Seq(Codes)
         /\ a.code = "ERROR" \/ (\A codes : ~Has(a.diag, codes))
<1>1. CASE a.code = "ERROR" /\ a.diag \in StatementErrors \cup LinkErrors \cup EndTranErrors
  BY <1>1, TransactionsAssumption
<1>2. CASE a.diag = <<>>
  <2>1. a.diag \in Seq(Codes) /\ Len(a.diag) = 0
    BY <1>2, EmptySeq
  <2>2. \A codes : ~Has(a.diag, codes)
    BY <2>1 DEF Has
  <2>3. QED BY <2>1, <2>2
<1>3. QED BY <1>1, <1>2 DEF StatementAnswers, EndTranAnswers, Answers

\* What a failed call does to the pool.
LEMMA FailedStep ==
  ASSUME TypeOK, NEW t \in Threads, lease[t] \in Conns,
         NEW a \in StatementAnswers(lease[t]) \cup EndTranAnswers(lease[t]),
         NEW endTran \in BOOLEAN, Failed(t, a, endTran)
  PROVE  /\ lease' = lease /\ broken \subseteq broken' /\ broken' \subseteq Conns
         /\ failures' \in 0..MaxFailures
         /\ Has(a.diag, LinkCodes) => lease[t] \in broken'
         /\ endTran /\ Has(a.diag, Codes \ {"?????"}) /\ ~Settled(a.diag)
              => lease[t] \in broken'
<1>1. /\ lease' = lease /\ broken' \in {broken, broken \cup {lease[t]}}
      /\ Translate(a.code, Records(a.diag), endTran, NoRow).marks => lease[t] \in broken'
  BY DEF Failed, Pool!Break, poolVars
<1>2. failures' \in 0..MaxFailures
  BY TransactionsAssumption DEF Failed, TypeOK
<1>3. broken \subseteq broken' /\ broken' \subseteq Conns
  BY <1>1 DEF TypeOK
<1>4. a.diag \in Seq(Codes) /\ (a.code = "ERROR" \/ (\A codes : ~Has(a.diag, codes)))
  BY Answered
<1>5. Has(a.diag, LinkCodes) => lease[t] \in broken'
  BY <1>1, <1>4, LinkErrorsMark
<1>6. endTran /\ Has(a.diag, Codes \ {"?????"}) /\ ~Settled(a.diag) => lease[t] \in broken'
  BY <1>1, <1>4, SuspendedMarks
<1>7. QED BY <1>1, <1>2, <1>3, <1>5, <1>6

\* A failed statement, or part of one, and the connections that are suspect.
LEMMA ReportedStep ==
  ASSUME IInv, NEW t \in Threads, lease[t] \in Conns,
         NEW a \in StatementAnswers(lease[t]), Failed(t, a, FALSE), Reports(t, a.diag)
  PROVE  /\ lease' = lease /\ broken \subseteq broken' /\ broken' \subseteq Conns
         /\ failures' \in 0..MaxFailures /\ suspect' \subseteq broken'
<1>1. /\ lease' = lease /\ broken \subseteq broken' /\ broken' \subseteq Conns
      /\ failures' \in 0..MaxFailures /\ (Has(a.diag, LinkCodes) => lease[t] \in broken')
  BY FailedStep DEF IInv
<1>2. QED BY <1>1 DEF IInv, Reports

------------------------------------------------------------------------------
\* Sessions and the transactions that use them.

\* The work of a transaction that runs is on the connection it has.
LEMMA OwnSession ==
  ASSUME IInv, NEW t \in Threads, phase[t] \in {"active", "doomed"},
         NEW d \in Conns, work[t] \in open[d]
  PROVE  d = lease[t]
<1>1. outcome[work[t]] = "unknown" /\ work[t] # Outside
  BY DEF IInv, NotEndedYet, TypeOK, Tx, Outside
<1>2. PICK u \in Threads : Running(u, d) /\ work[u] = work[t]
  BY <1>1 DEF IInv, OneSession
<1>3. u = t
  BY <1>2 DEF IInv, Numbers, Running
<1>4. QED BY <1>2, <1>3 DEF Running

\* What else is open there belongs to transactions that have failed to end.
LEMMA OthersFailed ==
  ASSUME IInv, NEW t \in Threads, phase[t] # "none",
         NEW x \in open[lease[t]] \ {Outside}, x # work[t]
  PROVE  outcome[x] \in {"not_ended", "failed"}
<1>1. lease[t] \in Conns /\ lease[t] # NoConn
  BY TransactionsAssumption DEF IInv, TypeOK
<1>2. \A u \in Threads : Running(u, lease[t]) => u = t
  BY <1>1 DEF IInv, Leases, Running
<1>3. QED BY <1>1, <1>2 DEF IInv, OneSession

\* The end of a session's transaction, whoever asked for it.
LEMMA SettleStep ==
  ASSUME IInv, NEW c \in Conns, NEW how, Settle(c, how)
  PROVE  /\ open' \in [Conns -> SUBSET Work] /\ open'[c] = {}
         /\ \A d \in Conns \ {c} : open'[d] = open[d]
         /\ committed' = IF how = "commit" THEN committed \cup (open[c] \ {Outside}) ELSE committed
         /\ undone' = IF how = "commit" THEN undone ELSE undone \cup (open[c] \ {Outside})
         /\ open[c] \subseteq Work /\ committed' \subseteq Tx /\ undone' \subseteq Tx
         /\ AllOrNothing'
         /\ \A d \in Conns : open'[d] \subseteq open[d] /\ open'[d] \cap (committed' \cup undone') = {}
         /\ \A d, e \in Conns : \A x \in open'[d] \ {Outside} : x \in open'[e] => d = e
<1>1. /\ open' \in [Conns -> SUBSET Work] /\ open'[c] = {}
      /\ \A d \in Conns \ {c} : open'[d] = open[d]
      /\ committed' = IF how = "commit" THEN committed \cup (open[c] \ {Outside}) ELSE committed
      /\ undone' = IF how = "commit" THEN undone ELSE undone \cup (open[c] \ {Outside})
      /\ open[c] \subseteq Work /\ committed' \subseteq Tx /\ undone' \subseteq Tx
  BY DEF IInv, TypeOK, Settle, Work
<1>2. \A d \in Conns \ {c} : open[d] \cap (open[c] \ {Outside}) = {}
  BY DEF IInv, OneSession
<1>3. \A d \in Conns : open[d] \cap (committed \cup undone) = {}
  BY DEF IInv, OneSession, TypeOK, Tx, Outside
<1>4. AllOrNothing'
  BY <1>1, <1>3 DEF IInv, AllOrNothing
<1>5. \A d, e \in Conns : \A x \in open'[d] \ {Outside} : x \in open'[e] => d = e
  BY <1>1 DEF IInv, OneSession
<1>6. \A d \in Conns : open'[d] \subseteq open[d] /\ open'[d] \cap (committed' \cup undone') = {}
  <2>1. ASSUME NEW d \in Conns, d # c PROVE open'[d] \cap (committed' \cup undone') = {}
    BY <1>1, <1>2, <1>3, <2>1
  <2>2. QED BY <1>1, <2>1
<1>7. QED BY <1>1, <1>4, <1>5, <1>6

\* A statement has run, of t's transaction or outside of it.
LEMMA RunStep ==
  ASSUME IInv, NEW t \in Threads, MayRun(t), lease[t] \notin lost,
         open' = [open EXCEPT ![lease[t]] = @ \cup {Whose(t)}]
  PROVE  /\ lease[t] \in Conns /\ open' \in [Conns -> SUBSET Work] /\ Whose(t) \in Work
         /\ Whose(t) # Outside => Whose(t) = work[t] /\ Running(t, lease[t])
         /\ \A c \in Conns : open'[c] \subseteq open[c] \cup {Whose(t)}
         /\ \A c \in Conns \ {lease[t]} : open'[c] = open[c]
         /\ \A c \in Conns : \A x \in open'[c] \ {Outside} :
              /\ x \notin committed \cup undone
              /\ \A d \in Conns : x \in open'[d] => c = d
              /\ \/ outcome[x] \in {"not_ended", "failed"}
                 \/ \E u \in Threads : Running(u, c) /\ work[u] = x
<1>1. /\ TypeOK /\ Leases /\ NotEndedYet /\ OneSession
  BY DEF IInv
<1>2. /\ lease[t] \in Conns /\ Whose(t) \in Work
      /\ Whose(t) # Outside => Whose(t) = work[t] /\ phase[t] = "active"
  BY <1>1 DEF TypeOK, Leases, MayRun, Whose, Work
<1>3. /\ open' \in [Conns -> SUBSET Work]
      /\ \A c \in Conns : open'[c] \subseteq open[c] \cup {Whose(t)}
      /\ \A c \in Conns \ {lease[t]} : open'[c] = open[c]
  BY <1>1, <1>2 DEF TypeOK
<1>4. Whose(t) # Outside => Running(t, lease[t])
  BY <1>2 DEF Running
<1>5. SUFFICES ASSUME NEW c \in Conns, NEW x \in open'[c] \ {Outside}
               PROVE  /\ x \notin committed \cup undone
                      /\ \A d \in Conns : x \in open'[d] => c = d
                      /\ \/ outcome[x] \in {"not_ended", "failed"}
                         \/ \E u \in Threads : Running(u, c) /\ work[u] = x
  BY <1>2, <1>3, <1>4
<1>6. CASE x # Whose(t)
  <2>1. \A d \in Conns : x \in open'[d] => x \in open[d]
    BY <1>3, <1>6
  <2>2. QED BY <1>1, <2>1 DEF OneSession
<1>7. CASE x = Whose(t)
  <2>1. x = work[t] /\ phase[t] = "active"
    BY <1>2, <1>7
  <2>2. x \notin committed \cup undone
    BY <1>1, <2>1 DEF NotEndedYet
  <2>3. \A d \in Conns : x \in open'[d] => d = lease[t]
    BY <1>3, <2>1, OwnSession
  <2>4. QED BY <1>4, <1>7, <2>1, <2>2, <2>3
<1>8. QED BY <1>6, <1>7

\* A statement runs.
LEMMA ExecuteInv ==
  ASSUME IInv, NEW t \in Threads, NEW query \in BOOLEAN, Execute(t, query)
  PROVE  IInv'
<1>1. /\ TypeOK /\ Leases /\ Numbers /\ NotEndedYet /\ OneSession /\ Leftovers
      /\ ToldTheTruth /\ AllOrNothing /\ suspect \subseteq broken
  BY DEF IInv
<1>2. /\ lease[t] \in Conns /\ open' \in [Conns -> SUBSET Work] /\ Whose(t) \in Work
      /\ Whose(t) # Outside => Whose(t) = work[t] /\ Running(t, lease[t])
      /\ \A c \in Conns : open'[c] \subseteq open[c] \cup {Whose(t)}
      /\ \A c \in Conns \ {lease[t]} : open'[c] = open[c]
      /\ \A c \in Conns : \A x \in open'[c] \ {Outside} :
           /\ x \notin committed \cup undone
           /\ \A d \in Conns : x \in open'[d] => c = d
           /\ \/ outcome[x] \in {"not_ended", "failed"}
              \/ \E u \in Threads : Running(u, c) /\ work[u] = x
  BY RunStep DEF Execute
<1>3. /\ UNCHANGED <<lease, broken, keeps, phase, work, begun, outcome, cursor, committed, undone,
                     lost, suspect, unheard, failures>>
      /\ results' \in [Conns -> SUBSET Tx] /\ \A c \in Conns \ {lease[t]} : results'[c] = results[c]
      /\ results'[lease[t]] # results[lease[t]]
           => results'[lease[t]] = results[lease[t]] \cup {work[t]} /\ phase[t] = "active"
  BY <1>1, <1>2 DEF TypeOK, Execute, poolVars, trust
<1>4. \A u \in Threads, c \in Conns : Running(u, c)' = Running(u, c)
  BY <1>3 DEF Running
<1>5. TypeOK'
  BY <1>1, <1>2, <1>3 DEF TypeOK
<1>6. Leases'
  BY <1>1, <1>3 DEF Leases
<1>7. Numbers'
  <2>1. ASSUME NEW x \in Tx, x > begun, NEW c \in Conns PROVE x \notin open'[c] \cup results'[c]
    <3>1. x # work[t] /\ x # Outside
      BY <1>1, <2>1 DEF TypeOK, Numbers, Tx, Outside
    <3>2. x \notin open[c] \cup results[c]
      BY <1>1, <2>1 DEF Numbers
    <3>3. QED BY <1>2, <1>3, <3>1, <3>2
  <2>2. QED BY <1>1, <1>3, <2>1 DEF Numbers
<1>8. NotEndedYet'
  BY <1>1, <1>3 DEF NotEndedYet
<1>9. OneSession'
  BY <1>2, <1>3, <1>4 DEF OneSession
<1>10. Leftovers'
  <2>1. SUFFICES ASSUME NEW c \in Conns \ (broken \cup unheard), NEW x \in Left(c)'
               PROVE  outcome[x] = "not_ended" \/ \E u \in Threads : Running(u, c) /\ work[u] = x
    BY <1>3, <1>4 DEF Leftovers
  <2>2. x \in Left(c) \/ (c = lease[t] /\ x = work[t] /\ Running(t, c))
    BY <1>2, <1>3, <2>1 DEF Left, Running
  <2>3. QED BY <1>1, <2>2 DEF Leftovers
<1>11. ToldTheTruth'
  <2>1. \A c \in Conns : open'[c] \cap (Ended("committed") \cup Ended("rolled_back")) = {}
    <3>1. \A x \in Tx : x = Whose(t) => outcome[x] = "unknown"
      BY <1>1, <1>2 DEF NotEndedYet, Running, Tx, Outside
    <3>2. QED BY <1>1, <1>2, <3>1 DEF ToldTheTruth, Ended
  <2>2. QED BY <1>1, <1>3, <2>1 DEF ToldTheTruth, Ended
<1>12. AllOrNothing' /\ suspect' \subseteq broken'
  BY <1>1, <1>3 DEF AllOrNothing
<1>13. QED BY <1>5, <1>6, <1>7, <1>8, <1>9, <1>10, <1>11, <1>12 DEF IInv

\* A transaction starts.
LEMMA StartInv ==
  ASSUME IInv, NEW t \in Threads, Start(t)
  PROVE  IInv'
<1>1. /\ TypeOK /\ Leases /\ Numbers /\ NotEndedYet /\ OneSession /\ Leftovers
      /\ ToldTheTruth /\ AllOrNothing /\ suspect \subseteq broken
  BY DEF IInv
<1>2. /\ broken' = broken /\ lease' \in [Threads -> Conns \cup {NoConn}]
      /\ lease'[t] \in Conns /\ \A u \in Threads \ {t} : lease'[u] = lease[u] /\ lease'[t] # lease[u]
  <2>1. CASE t \in keeps
    BY <1>1, <2>1, TransactionsAssumption DEF TypeOK, Leases, Start, poolVars
  <2>2. CASE t \notin keeps
    BY <1>1, <2>2 DEF TypeOK, Start, Pool!Lend
  <2>3. QED BY <2>1, <2>2
<1>3. \A u \in Threads, c \in Conns : Running(u, c) => Running(u, c)' /\ work'[u] = work[u]
  BY <1>1, <1>2 DEF TypeOK, Start, Running
<1>4. TypeOK'
  BY <1>1, <1>2, TransactionsAssumption DEF TypeOK, Tx, Start, serverVars, Work, Outside,
     trust
<1>5. Leases'
  BY <1>1, <1>2, <1>3, TransactionsAssumption, SMTT(20) DEF TypeOK, Leases, Start, poolVars,
     clientVars,
       serverVars
<1>6. Numbers'
  BY <1>1 DEF TypeOK, Numbers, Tx, Work, Outside, Start, serverVars
<1>7. NotEndedYet'
  BY <1>1, <1>2, TransactionsAssumption DEF TypeOK, Tx, Numbers, NotEndedYet, Start,
     serverVars
<1>8. OneSession'
  BY <1>1, <1>3 DEF OneSession, Start, serverVars
<1>9. Leftovers'
  BY <1>1, <1>2, <1>3 DEF Leftovers, Left, Start, serverVars, trust
<1>10. ToldTheTruth'
  BY <1>1 DEF ToldTheTruth, Ended, Start, serverVars
<1>11. AllOrNothing'
  BY <1>1 DEF AllOrNothing, Start, serverVars
<1>12. suspect' \subseteq broken'
  BY <1>1, <1>2 DEF Start, trust
<1>13. QED BY <1>4, <1>5, <1>6, <1>7, <1>8, <1>9, <1>10, <1>11, <1>12 DEF IInv

\* A transaction object is destroyed.
LEMMA DestroyInv ==
  ASSUME IInv, NEW t \in Threads, Destroy(t)
  PROVE  IInv'
<1>1. /\ TypeOK /\ Leases /\ Numbers /\ NotEndedYet /\ OneSession /\ Leftovers
      /\ ToldTheTruth /\ AllOrNothing /\ suspect \subseteq broken
  BY DEF IInv
<1>2. TypeOK'
  BY <1>1 DEF TypeOK, Destroy, Reset, Pool!GiveBack, poolVars, serverVars, Work, Outside,
     trust
<1>3. Leases'
  BY <1>1 DEF TypeOK, Leases, Destroy, Reset, Pool!GiveBack, poolVars, serverVars
<1>4. Numbers'
  BY <1>1 DEF TypeOK, Numbers, Tx, Work, Outside, Destroy, serverVars
<1>5. NotEndedYet'
  BY <1>1 DEF TypeOK, NotEndedYet, Destroy, Reset, Pool!GiveBack, poolVars, serverVars
<1>6. OneSession'
  BY <1>1 DEF TypeOK, OneSession, Running, Destroy, Reset, Pool!GiveBack, poolVars,
     serverVars
<1>7. Leftovers'
  BY <1>1 DEF TypeOK, Numbers, NotEndedYet, Leftovers, Left, Running, Destroy, Reset,
       Pool!GiveBack, poolVars, serverVars, trust
<1>8. ToldTheTruth'
  BY <1>1 DEF ToldTheTruth, Ended, Destroy, serverVars
<1>9. AllOrNothing'
  BY <1>1 DEF AllOrNothing, Destroy, serverVars
<1>10. suspect' \subseteq broken'
  BY <1>1 DEF Destroy, Reset, Pool!GiveBack, poolVars, trust
<1>11. QED BY <1>2, <1>3, <1>4, <1>5, <1>6, <1>7, <1>8, <1>9, <1>10 DEF IInv

\* The application takes a connection for itself.
LEMMA TakeInv ==
  ASSUME IInv, NEW t \in Threads, TakeConnection(t)
  PROVE  IInv'
<1>1. /\ TypeOK /\ Leases /\ Numbers /\ NotEndedYet /\ OneSession /\ Leftovers
      /\ ToldTheTruth /\ AllOrNothing /\ suspect \subseteq broken
  BY DEF IInv
<1>2. /\ broken' = broken /\ lease' \in [Threads -> Conns \cup {NoConn}]
      /\ lease'[t] \in Conns /\ \A u \in Threads \ {t} : lease'[u] = lease[u] /\ lease'[t] # lease[u]
  BY <1>1 DEF TypeOK, TakeConnection, Pool!Lend
<1>3. \A u \in Threads, c \in Conns : Running(u, c)' = Running(u, c)
  BY <1>2 DEF TakeConnection, Running
<1>4. TypeOK'
  BY <1>1, <1>2 DEF TypeOK, TakeConnection, serverVars, Work, Outside, trust
<1>5. Leases'
  BY <1>1, <1>2 DEF Leases, TakeConnection
<1>6. Numbers'
  BY <1>1 DEF Numbers, TakeConnection, serverVars
<1>7. NotEndedYet'
  BY <1>1, <1>2 DEF NotEndedYet, TakeConnection, serverVars
<1>8. OneSession'
  BY <1>1, <1>3 DEF OneSession, TakeConnection, serverVars
<1>9. Leftovers'
  BY <1>1, <1>2, <1>3 DEF Leftovers, Left, TakeConnection, serverVars, trust
<1>10. ToldTheTruth'
  BY <1>1 DEF ToldTheTruth, Ended, TakeConnection, serverVars
<1>11. AllOrNothing'
  BY <1>1 DEF AllOrNothing, TakeConnection, serverVars
<1>12. suspect' \subseteq broken'
  BY <1>1, <1>2 DEF TakeConnection, trust
<1>13. QED BY <1>4, <1>5, <1>6, <1>7, <1>8, <1>9, <1>10, <1>11, <1>12 DEF IInv

\* The application drops its connection.
LEMMA DropInv ==
  ASSUME IInv, NEW t \in Threads, DropConnection(t)
  PROVE  IInv'
<1>1. /\ TypeOK /\ Leases /\ Numbers /\ NotEndedYet /\ OneSession /\ Leftovers
      /\ ToldTheTruth /\ AllOrNothing /\ suspect \subseteq broken
  BY DEF IInv
<1>2. /\ broken' = broken /\ lease' \in [Threads -> Conns \cup {NoConn}]
      /\ lease'[t] = NoConn /\ \A u \in Threads \ {t} : lease'[u] = lease[u]
  BY <1>1 DEF TypeOK, DropConnection, Pool!GiveBack
<1>3. \A u \in Threads, c \in Conns : Running(u, c)' = Running(u, c)
  BY <1>2 DEF DropConnection, Running
<1>4. TypeOK'
  BY <1>1, <1>2 DEF TypeOK, DropConnection, serverVars, Work, Outside, trust
<1>5. Leases'
  BY <1>1, <1>2 DEF Leases, DropConnection
<1>6. Numbers'
  BY <1>1 DEF Numbers, DropConnection, serverVars
<1>7. NotEndedYet'
  BY <1>1, <1>2 DEF NotEndedYet, DropConnection, serverVars
<1>8. OneSession'
  BY <1>1, <1>3 DEF OneSession, DropConnection, serverVars
<1>9. Leftovers'
  BY <1>1, <1>2, <1>3 DEF Leftovers, Left, DropConnection, serverVars, trust
<1>10. ToldTheTruth'
  BY <1>1 DEF ToldTheTruth, Ended, DropConnection, serverVars
<1>11. AllOrNothing'
  BY <1>1 DEF AllOrNothing, DropConnection, serverVars
<1>12. suspect' \subseteq broken'
  BY <1>1, <1>2 DEF DropConnection, trust
<1>13. QED BY <1>4, <1>5, <1>6, <1>7, <1>8, <1>9, <1>10, <1>11, <1>12 DEF IInv

\* A query result is closed.
LEMMA CloseResultInv ==
  ASSUME IInv, NEW t \in Threads, CloseResult(t)
  PROVE  IInv'
<1>1. /\ TypeOK /\ Leases /\ Numbers /\ NotEndedYet /\ OneSession /\ Leftovers
      /\ ToldTheTruth /\ AllOrNothing /\ suspect \subseteq broken
  BY DEF IInv
<1>2. \A u \in Threads, c \in Conns : Running(u, c)' = Running(u, c)
  BY DEF CloseResult, poolVars, Running
<1>3. results' \in [Conns -> SUBSET Tx] /\ \A c \in Conns : results'[c] \subseteq results[c]
  BY <1>1 DEF TypeOK, CloseResult
<1>4. TypeOK'
  BY <1>1 DEF TypeOK, CloseResult, poolVars, serverVars, Work, Outside, trust
<1>5. Leases'
  BY <1>1 DEF Leases, CloseResult, poolVars
<1>6. Numbers'
  BY <1>1 DEF Numbers, CloseResult, serverVars
<1>7. NotEndedYet'
  BY <1>1 DEF NotEndedYet, CloseResult, poolVars, serverVars
<1>8. OneSession'
  BY <1>1, <1>2 DEF OneSession, CloseResult, serverVars
<1>9. Leftovers'
  BY <1>1, <1>2 DEF Leftovers, Left, CloseResult, poolVars, serverVars, trust
<1>10. ToldTheTruth'
  BY <1>1 DEF ToldTheTruth, Ended, CloseResult, serverVars
<1>11. AllOrNothing'
  BY <1>1 DEF AllOrNothing, CloseResult, serverVars
<1>12. suspect' \subseteq broken'
  BY <1>1 DEF CloseResult, poolVars, trust
<1>13. QED BY <1>4, <1>5, <1>6, <1>7, <1>8, <1>9, <1>10, <1>11, <1>12 DEF IInv

\* execute() is refused because its cursor is open.
LEMMA DirectRefusedInv ==
  ASSUME IInv, NEW t \in Threads, DirectRefused(t)
  PROVE  IInv'
<1>1. /\ TypeOK /\ Leases /\ Numbers /\ NotEndedYet /\ OneSession /\ Leftovers
      /\ ToldTheTruth /\ AllOrNothing /\ suspect \subseteq broken
  BY DEF IInv
<1>2. /\ UNCHANGED <<lease, broken, keeps, work, begun, outcome, results, cursor, open, committed,
                     undone, lost, suspect, unheard, failures>>
      /\ phase' = [phase EXCEPT ![t] = IF @ = "active" THEN "doomed" ELSE @]
  BY DEF DirectRefused, Doom, poolVars, serverVars, trust
<1>3. \A u \in Threads :
        /\ phase'[u] \in {phase[u], "doomed"} /\ (phase'[u] # phase[u] => phase[u] = "active")
        /\ \A c \in Conns : Running(u, c)' = Running(u, c)
  BY <1>1, <1>2 DEF TypeOK, Running
<1>4. TypeOK'
  BY <1>1, <1>2 DEF TypeOK
<1>5. Leases' /\ Numbers' /\ NotEndedYet'
  BY <1>1, <1>2, <1>3 DEF Leases, Numbers, NotEndedYet
<1>6. OneSession' /\ Leftovers'
  BY <1>1, <1>2, <1>3 DEF OneSession, Leftovers, Left
<1>7. ToldTheTruth' /\ AllOrNothing' /\ suspect' \subseteq broken'
  BY <1>1, <1>2 DEF ToldTheTruth, Ended, AllOrNothing
<1>8. QED BY <1>4, <1>5, <1>6, <1>7 DEF IInv

\* A fetch of execute() fails and leaves its cursor open.
LEMMA FetchFailsInv ==
  ASSUME IInv, NEW t \in Threads, FetchFails(t)
  PROVE  IInv'
<1>1. /\ TypeOK /\ Leases /\ Numbers /\ NotEndedYet /\ OneSession /\ Leftovers
      /\ ToldTheTruth /\ AllOrNothing
  BY DEF IInv
<1>2. /\ lease[t] \in Conns /\ open' \in [Conns -> SUBSET Work] /\ Whose(t) \in Work
      /\ Whose(t) # Outside => Whose(t) = work[t] /\ Running(t, lease[t])
      /\ \A c \in Conns : open'[c] \subseteq open[c] \cup {Whose(t)}
      /\ \A c \in Conns \ {lease[t]} : open'[c] = open[c]
      /\ \A c \in Conns : \A x \in open'[c] \ {Outside} :
           /\ x \notin committed \cup undone
           /\ \A d \in Conns : x \in open'[d] => c = d
           /\ \/ outcome[x] \in {"not_ended", "failed"}
              \/ \E u \in Threads : Running(u, c) /\ work[u] = x
  BY RunStep DEF FetchFails
<1>3. /\ lease' = lease /\ broken \subseteq broken' /\ broken' \subseteq Conns
      /\ failures' \in 0..MaxFailures /\ suspect' \subseteq broken'
  BY <1>2, ReportedStep DEF FetchFails
<1>4. /\ UNCHANGED <<keeps, work, begun, outcome, results, committed, undone, lost, unheard>>
      /\ cursor' = [cursor EXCEPT ![lease[t]] = {Whose(t)}]
      /\ phase' \in {phase, [phase EXCEPT ![t] = IF @ = "active" THEN "doomed" ELSE @]}
  BY DEF FetchFails, Doom
<1>5. \A u \in Threads :
        /\ phase'[u] \in {phase[u], "doomed"} /\ (phase'[u] # phase[u] => phase[u] = "active")
        /\ \A c \in Conns : Running(u, c)' = Running(u, c)
  BY <1>1, <1>3, <1>4 DEF TypeOK, Running
<1>6. TypeOK'
  BY <1>1, <1>2, <1>3, <1>4 DEF TypeOK
<1>7. Leases'
  BY <1>1, <1>3, <1>4 DEF Leases
<1>8. Numbers'
  <2>1. ASSUME NEW x \in Tx, x > begun, NEW c \in Conns PROVE x \notin open'[c] \cup cursor'[c]
    <3>1. x # work[t] /\ x # Outside
      BY <1>1, <2>1 DEF TypeOK, Numbers, Tx, Outside
    <3>2. x \notin open[c] \cup cursor[c]
      BY <1>1, <2>1 DEF Numbers
    <3>3. QED BY <1>1, <1>2, <1>4, <3>1, <3>2 DEF TypeOK
  <2>2. QED BY <1>1, <1>4, <1>5, <2>1 DEF Numbers
<1>9. NotEndedYet'
  BY <1>1, <1>3, <1>4, <1>5 DEF NotEndedYet
<1>10. OneSession'
  BY <1>2, <1>4, <1>5 DEF OneSession
<1>11. Leftovers'
  <2>1. SUFFICES ASSUME NEW c \in Conns \ (broken \cup unheard), NEW x \in Left(c)'
               PROVE  outcome[x] = "not_ended" \/ \E u \in Threads : Running(u, c) /\ work[u] = x
    BY <1>3, <1>4, <1>5 DEF Leftovers
  <2>2. x \in Left(c) \/ (c = lease[t] /\ x = work[t] /\ Running(t, c))
    BY <1>1, <1>2, <1>4, <2>1 DEF TypeOK, Left, Running
  <2>3. QED BY <1>1, <2>2 DEF Leftovers
<1>12. ToldTheTruth'
  <2>1. \A c \in Conns : open'[c] \cap (Ended("committed") \cup Ended("rolled_back")) = {}
    <3>1. \A x \in Tx : x = Whose(t) => outcome[x] = "unknown"
      BY <1>1, <1>2 DEF NotEndedYet, Running, Tx, Outside
    <3>2. QED BY <1>1, <1>2, <3>1 DEF ToldTheTruth, Ended
  <2>2. QED BY <1>1, <1>4, <2>1 DEF ToldTheTruth, Ended
<1>13. AllOrNothing' /\ suspect' \subseteq broken'
  BY <1>1, <1>3, <1>4 DEF AllOrNothing
<1>14. QED BY <1>6, <1>7, <1>8, <1>9, <1>10, <1>11, <1>12, <1>13 DEF IInv

\* A statement fails, perhaps as a deadlock victim.
LEMMA StatementFailsInv ==
  ASSUME IInv, NEW t \in Threads, StatementFails(t)
  PROVE  IInv'
<1>1. /\ TypeOK /\ Leases /\ Numbers /\ NotEndedYet /\ OneSession /\ Leftovers
      /\ ToldTheTruth /\ AllOrNothing
  BY DEF IInv
<1>2. lease[t] \in Conns
  BY <1>1 DEF TypeOK, Leases, StatementFails, MayRun
<1>3. PICK a \in StatementAnswers(lease[t]) :
        /\ Failed(t, a, FALSE) /\ Reports(t, a.diag)
        /\ IF Has(a.diag, {"40001"}) THEN Settle(lease[t], "undo")
                                     ELSE UNCHANGED <<open, committed, undone>>
  BY DEF StatementFails
<1>4. /\ lease' = lease /\ broken \subseteq broken' /\ broken' \subseteq Conns
      /\ suspect' \subseteq broken' /\ failures' \in 0..MaxFailures
  BY <1>2, <1>3, ReportedStep
<1>5. /\ UNCHANGED <<keeps, work, begun, outcome, results, cursor, lost, unheard>>
      /\ phase' = [phase EXCEPT ![t] = IF @ = "active" THEN "doomed" ELSE @]
  BY DEF StatementFails, Doom
<1>6. /\ open' \in [Conns -> SUBSET Work] /\ committed' = committed /\ undone' \subseteq Tx
      /\ undone \subseteq undone' /\ undone' \subseteq undone \cup (open[lease[t]] \ {Outside})
      /\ AllOrNothing'
      /\ \A d \in Conns : open'[d] \subseteq open[d]
      /\ \A d \in Conns : \A x \in open'[d] \ {Outside} : x \notin committed' \cup undone'
      /\ \A d, c \in Conns : \A x \in open'[d] \ {Outside} : x \in open'[c] => d = c
  <2>1. CASE Has(a.diag, {"40001"})
    BY <1>2, <1>3, <2>1, SettleStep
  <2>2. CASE ~Has(a.diag, {"40001"})
    BY <1>1, <1>3, <2>2 DEF TypeOK, OneSession, AllOrNothing
  <2>3. QED BY <2>1, <2>2
<1>7. \A u \in Threads :
        /\ phase'[u] \in {phase[u], "doomed"} /\ (phase'[u] # phase[u] => phase[u] = "active")
        /\ phase[u] = "active" /\ phase'[u] = "active" => u # t
        /\ \A c \in Conns : Running(u, c)' = Running(u, c)
  BY <1>1, <1>4, <1>5 DEF TypeOK, Running
<1>8. TypeOK'
  BY <1>1, <1>4, <1>5, <1>6 DEF TypeOK
<1>9. Leases'
  BY <1>1, <1>4, <1>5 DEF Leases
<1>10. Numbers'
  BY <1>1, <1>2, <1>5, <1>6, <1>7 DEF Numbers, Tx, Outside
<1>11. NotEndedYet'
  <2>1. ASSUME NEW u \in Threads, phase'[u] = "active" PROVE work[u] \notin open[lease[t]]
    BY <1>1, <1>2, <1>7, <2>1, OwnSession, TransactionsAssumption DEF Leases
  <2>2. QED BY <1>1, <1>4, <1>5, <1>6, <1>7, <2>1 DEF NotEndedYet
<1>12. OneSession'
  BY <1>1, <1>5, <1>6, <1>7 DEF OneSession
<1>13. Leftovers'
  <2>1. \A c \in Conns : Left(c)' \subseteq Left(c)
    BY <1>5, <1>6 DEF Left
  <2>2. QED BY <1>1, <1>4, <1>5, <1>7, <2>1 DEF Leftovers
<1>14. ToldTheTruth'
  <2>1. open[lease[t]] \cap Ended("committed") = {}
    BY <1>1, <1>2 DEF ToldTheTruth
  <2>2. QED BY <1>1, <1>5, <1>6, <2>1 DEF ToldTheTruth, Ended
<1>15. QED BY <1>4, <1>6, <1>8, <1>9, <1>10, <1>11, <1>12, <1>13, <1>14 DEF IInv

\* A transaction is committed or rolled back.
LEMMA EndTranInv ==
  ASSUME IInv, NEW t \in Threads, NEW how \in {"commit", "undo"},
         phase[t] \in IF how = "commit" THEN {"active"} ELSE {"active", "doomed"},
         EndTran(t, how)
  PROVE  IInv'
<1>1. /\ TypeOK /\ Leases /\ Numbers /\ NotEndedYet /\ OneSession /\ Leftovers
      /\ ToldTheTruth /\ AllOrNothing /\ suspect \subseteq broken
  BY DEF IInv
<1>2. lease[t] \in Conns \ lost /\ work[t] \in Tx /\ phase[t] \in {"active", "doomed"}
  BY <1>1 DEF TypeOK, EndTran
<1>3. /\ broken' = broken /\ lease' \in [Threads -> Conns \cup {NoConn}]
      /\ t \in keeps => lease'[t] = lease[t]
      /\ lease'[t] \in {lease[t], NoConn} /\ \A u \in Threads \ {t} : lease'[u] = lease[u]
  BY <1>1 DEF TypeOK, EndTran, Reset, Pool!GiveBack, poolVars
<1>4. /\ open' \in [Conns -> SUBSET Work] /\ open'[lease[t]] = {}
      /\ \A d \in Conns \ {lease[t]} : open'[d] = open[d]
      /\ committed' = IF how = "commit" THEN committed \cup (open[lease[t]] \ {Outside}) ELSE committed
      /\ undone' = IF how = "commit" THEN undone ELSE undone \cup (open[lease[t]] \ {Outside})
      /\ committed' \subseteq Tx /\ undone' \subseteq Tx /\ AllOrNothing'
      /\ \A d \in Conns : open'[d] \cap (committed' \cup undone') = {}
  <2>1. Settle(lease[t], how)
    BY DEF EndTran
  <2>2. QED BY <1>2, <2>1, SettleStep
<1>5. /\ outcome' = [outcome EXCEPT ![work[t]] = IF how = "commit" THEN "committed" ELSE "rolled_back"]
      /\ phase' = [phase EXCEPT ![t] = "none"] /\ work' = [work EXCEPT ![t] = Outside]
  BY DEF EndTran, Told
<1>6. \A u \in Threads \ {t}, c \in Conns :
        /\ Running(u, c)' = Running(u, c) /\ phase'[u] = phase[u] /\ work'[u] = work[u]
        /\ phase[u] # "none" => work[u] # work[t]
  BY <1>1, <1>3, <1>5 DEF Numbers, Running
<1>7. \A d \in Conns : work[t] \notin open'[d]
  BY <1>2, <1>4, OwnSession
<1>8. TypeOK'
  BY <1>1, <1>3, <1>4, <1>5 DEF TypeOK, Work, EndTran, CloseCursor, Invalidate, trust
<1>9. Leases'
  <2>1. \A u \in Threads : lease'[u] \in {lease[u], NoConn}
    BY <1>3
  <2>2. \A u, v \in Threads : lease'[u] = lease'[v] /\ lease'[u] # NoConn => u = v
    BY <1>1, <2>1 DEF Leases
  <2>3. \A u \in Threads : u \in keeps => lease'[u] = lease[u]
    BY <1>3
  <2>4. QED BY <1>1, <2>2, <2>3 DEF Leases, EndTran
<1>10. Numbers'
  BY <1>1, <1>4, <1>5 DEF TypeOK, Numbers, Tx, Work, Outside, EndTran, CloseCursor,
     Invalidate
<1>11. NotEndedYet'
  <2>1. ASSUME NEW u \in Threads \ {t}, phase[u] \in {"active", "doomed"}
        PROVE  work[u] \notin open[lease[t]]
    BY <1>1, <1>2, <2>1, OwnSession, TransactionsAssumption DEF Leases
  <2>2. QED BY <1>1, <1>3, <1>4, <1>5, <1>6, <2>1 DEF TypeOK, NotEndedYet, EndTran
<1>12. OneSession'
  <2>1. SUFFICES ASSUME NEW c \in Conns, NEW x \in open'[c] \ {Outside}
               PROVE  /\ \A d \in Conns : x \in open'[d] => c = d
                      /\ \/ outcome'[x] \in {"not_ended", "failed"}
                         \/ \E u \in Threads : Running(u, c)' /\ work'[u] = x
    BY <1>4 DEF OneSession
  <2>2. x \in open[c] /\ x # work[t] /\ outcome'[x] = outcome[x] /\ c # lease[t]
    BY <1>1, <1>4, <1>5, <1>7 DEF TypeOK
  <2>3. QED BY <1>1, <1>4, <1>6, <2>2 DEF OneSession
<1>13. Leftovers'
  <2>1. SUFFICES ASSUME NEW c \in Conns \ (broken \cup unheard), NEW x \in Left(c)'
               PROVE  \/ outcome'[x] = "not_ended"
                      \/ \E u \in Threads : Running(u, c)' /\ work'[u] = x
    BY <1>3 DEF Leftovers, EndTran, trust
  <2>2. c # lease[t] /\ x \in Left(c)
    BY <1>1, <1>4 DEF TypeOK, EndTran, Invalidate, CloseCursor, Left
  <2>3. \A u \in Threads : Running(u, c) => u # t
    BY <2>2 DEF Running
  <2>4. outcome[x] = "not_ended" => outcome'[x] = "not_ended"
    BY <1>1, <1>2, <1>5 DEF TypeOK, NotEndedYet
  <2>5. QED BY <1>1, <1>6, <2>2, <2>3, <2>4 DEF Leftovers
<1>14. ToldTheTruth'
  <2>1. \A x \in open[lease[t]] \ {Outside} : outcome[x] \in {"unknown", "not_ended", "failed"}
    BY <1>1, <1>2, OthersFailed DEF NotEndedYet
  <2>2. work[t] \notin IF how = "commit" THEN undone ELSE committed
    BY <1>1, <1>2 DEF NotEndedYet
  <2>3. work[t] \in IF how = "commit" THEN Ended("committed")' ELSE Ended("rolled_back")'
    BY <1>1, <1>2, <1>5 DEF TypeOK, Ended
  <2>4. \A x \in Tx \ {work[t]} : outcome'[x] = outcome[x]
    BY <1>1, <1>5 DEF TypeOK
  <2>5. \A x \in Ended("committed")' : x \notin undone'
    BY <1>1, <1>4, <1>5, <2>1, <2>2 DEF ToldTheTruth, Ended
  <2>6. \A x \in Ended("rolled_back")' : x \notin committed'
    BY <1>1, <1>4, <1>5, <2>1, <2>2 DEF ToldTheTruth, Ended
  <2>7. \A d \in Conns : open'[d] \cap (Ended("committed")' \cup Ended("rolled_back")') = {}
    BY <1>1, <1>4, <1>7, <2>4 DEF ToldTheTruth, Ended
  <2>8. QED BY <2>5, <2>6, <2>7 DEF ToldTheTruth
<1>15. AllOrNothing'
  BY <1>4
<1>16. suspect' \subseteq broken'
  BY <1>1, <1>3 DEF EndTran, trust
<1>17. QED BY <1>8, <1>9, <1>10, <1>11, <1>12, <1>13, <1>14, <1>15, <1>16 DEF IInv

\* An open result cannot be invalidated, and commit() or rollback() throws.
LEMMA InvalidateFailsInv ==
  ASSUME IInv, NEW t \in Threads, phase[t] \in {"active", "doomed"}, InvalidateFails(t)
  PROVE  IInv'
<1>1. /\ TypeOK /\ Leases /\ Numbers /\ NotEndedYet /\ OneSession /\ Leftovers
      /\ ToldTheTruth /\ AllOrNothing
  BY DEF IInv
<1>2. \E a \in StatementAnswers(lease[t]) : Failed(t, a, FALSE) /\ Reports(t, a.diag)
  BY DEF InvalidateFails
<1>3. /\ lease' = lease /\ broken \subseteq broken' /\ broken' \subseteq Conns
      /\ suspect' \subseteq broken' /\ failures' \in 0..MaxFailures
  <2>1. lease[t] \in Conns
    BY <1>1 DEF TypeOK
  <2>2. QED BY <1>2, <2>1, ReportedStep
<1>4. lease[t] \in Conns /\ work[t] \in Tx
  BY <1>1 DEF TypeOK
<1>5. /\ outcome' = [outcome EXCEPT ![work[t]] = "not_ended"]
      /\ phase' = [phase EXCEPT ![t] = "thrown"] /\ work' = work
  BY DEF InvalidateFails, Told
<1>6. \A u \in Threads \ {t}, c \in Conns :
        /\ Running(u, c)' = Running(u, c) /\ phase'[u] = phase[u]
        /\ phase[u] # "none" => work[u] # work[t]
  BY <1>1, <1>3, <1>5 DEF Numbers, Running
<1>7. \A x \in Tx : outcome[x] # "unknown" => outcome'[x] = outcome[x]
  BY <1>1, <1>4, <1>5 DEF TypeOK, NotEndedYet
<1>8. TypeOK'
  BY <1>1, <1>3, <1>5 DEF TypeOK, InvalidateFails, serverVars
<1>9. Leases'
  BY <1>1, <1>3 DEF Leases, InvalidateFails
<1>10. Numbers'
  BY <1>1, <1>5 DEF TypeOK, Numbers, Tx, InvalidateFails, serverVars
<1>11. NotEndedYet'
  BY <1>1, <1>3, <1>5, <1>6 DEF TypeOK, NotEndedYet, InvalidateFails, serverVars
<1>12. OneSession'
  <2>1. SUFFICES ASSUME NEW c \in Conns, NEW x \in open[c] \ {Outside}
               PROVE  \/ outcome'[x] \in {"not_ended", "failed"}
                      \/ \E u \in Threads : Running(u, c)' /\ work'[u] = x
    BY <1>1 DEF OneSession, InvalidateFails, serverVars
  <2>2. CASE x = work[t]
    BY <1>1, <1>4, <1>5, <2>2 DEF TypeOK
  <2>3. CASE x # work[t]
    BY <1>1, <1>5, <1>6, <2>3 DEF OneSession
  <2>4. QED BY <2>2, <2>3
<1>13. Leftovers'
  <2>1. SUFFICES ASSUME NEW c \in Conns \ (broken \cup unheard), NEW x \in Left(c)
               PROVE  \/ outcome'[x] = "not_ended"
                      \/ \E u \in Threads : Running(u, c)' /\ work'[u] = x
    BY <1>3 DEF Leftovers, Left, InvalidateFails, serverVars
  <2>2. CASE x = work[t]
    BY <1>1, <1>4, <1>5, <2>2 DEF TypeOK
  <2>3. CASE x # work[t]
    BY <1>1, <1>5, <1>6, <2>3 DEF Leftovers
  <2>4. QED BY <2>2, <2>3
<1>14. ToldTheTruth'
  <2>1. Ended("committed")' = Ended("committed") /\ Ended("rolled_back")' = Ended("rolled_back")
    BY <1>1, <1>5 DEF NotEndedYet, Ended
  <2>2. QED BY <1>1, <2>1 DEF ToldTheTruth, InvalidateFails, serverVars
<1>15. AllOrNothing'
  BY <1>1 DEF AllOrNothing, InvalidateFails, serverVars
<1>16. suspect' \subseteq broken'
  BY <1>3
<1>17. QED BY <1>8, <1>9, <1>10, <1>11, <1>12, <1>13, <1>14, <1>15, <1>16 DEF IInv

\* SQLEndTran() fails, and commit() or rollback() throws.
LEMMA EndTranFailsInv ==
  ASSUME IInv, NEW t \in Threads, NEW how \in {"commit", "undo"},
         phase[t] \in {"active", "doomed"}, EndTranFails(t, how)
  PROVE  IInv'
<1>1. /\ TypeOK /\ Leases /\ Numbers /\ NotEndedYet /\ OneSession /\ Leftovers
      /\ ToldTheTruth /\ AllOrNothing /\ suspect \subseteq broken
  BY DEF IInv
<1>2. PICK a \in EndTranAnswers(lease[t]) :
        Failed(t, a, TRUE) /\ AfterFailedEndTran(t, a.diag, how)
  BY DEF EndTranFails
<1>3. /\ lease' = lease /\ broken \subseteq broken' /\ broken' \subseteq Conns
      /\ failures' \in 0..MaxFailures
      /\ Has(a.diag, Codes \ {"?????"}) /\ ~Settled(a.diag) => lease[t] \in broken'
  <2>1. lease[t] \in Conns
    BY <1>1 DEF TypeOK
  <2>2. QED BY <1>1, <1>2, <2>1, FailedStep
<1>4. lease[t] \in Conns /\ work[t] \in Tx
  BY <1>1 DEF TypeOK
<1>5. /\ phase' = [phase EXCEPT ![t] = "thrown"] /\ work' = work
      /\ results' = [results EXCEPT ![lease[t]] = {}]
      /\ UNCHANGED <<keeps, begun, lost>>
  BY DEF EndTranFails, Invalidate
<1>6. /\ \A x \in Tx \ {work[t]} : outcome'[x] = outcome[x]
      /\ outcome'[work[t]] \in {"not_ended", "failed"}
      /\ outcome' \in [Tx -> {"unknown", "committed", "rolled_back", "not_ended", "failed"}]
  BY <1>1, <1>2 DEF TypeOK, AfterFailedEndTran, Told
<1>7. /\ open' \in [Conns -> SUBSET Work] /\ committed' \subseteq Tx /\ undone' \subseteq Tx
      /\ committed' \in {committed, committed \cup (open[lease[t]] \ {Outside})}
      /\ undone' \in {undone, undone \cup (open[lease[t]] \ {Outside})}
      /\ AllOrNothing'
      /\ \A d \in Conns : open'[d] \subseteq open[d]
      /\ \A d \in Conns : \A x \in open'[d] \ {Outside} : x \notin committed' \cup undone'
      /\ \A d, c \in Conns : \A x \in open'[d] \ {Outside} : x \in open'[c] => d = c
  <2>1. CASE \E h \in {"commit", "undo"} : Settle(lease[t], h)
    <3>1. PICK h \in {"commit", "undo"} : Settle(lease[t], h)
      BY <2>1
    <3>2. QED BY <1>4, <3>1, SettleStep
  <2>2. CASE UNCHANGED <<open, committed, undone>>
    BY <1>1, <2>2 DEF TypeOK, OneSession, AllOrNothing
  <2>3. QED BY <1>2, <2>1, <2>2 DEF AfterFailedEndTran
<1>8. \A u \in Threads \ {t}, c \in Conns :
        /\ Running(u, c)' = Running(u, c) /\ phase'[u] = phase[u]
        /\ phase[u] # "none" => work[u] # work[t]
  BY <1>1, <1>3, <1>5 DEF Numbers, Running
<1>9. /\ cursor' \in {cursor, [cursor EXCEPT ![lease[t]] = {}]} /\ suspect' \subseteq broken'
      /\ unheard \subseteq unheard' /\ unheard' \subseteq Conns
  BY <1>1, <1>2, <1>3, <1>4 DEF TypeOK, AfterFailedEndTran, CloseCursor, trust
<1>10. \/ lease[t] \in broken' \cup unheard' \/ outcome'[work[t]] = "not_ended"
       \/ open'[lease[t]] = {} /\ cursor'[lease[t]] = {}
  <2>1. SUFFICES ASSUME Settled(a.diag), ~Has(a.diag, {"HYC00"})
                 PROVE  open'[lease[t]] = {} /\ cursor'[lease[t]] = {}
    BY <1>1, <1>2, <1>3 DEF TypeOK, AfterFailedEndTran, Told
  <2>2. Has(a.diag, SettledCodes \ {"HYC00"})
    BY <2>1 DEF Settled, Has
  <2>3. Settle(lease[t], "undo") /\ CloseCursor(lease[t])
    BY <1>2, <2>1, <2>2 DEF AfterFailedEndTran
  <2>4. QED BY <1>1, <2>3 DEF TypeOK, Settle, CloseCursor
<1>11. \A x \in Tx : outcome[x] # "unknown" => outcome'[x] = outcome[x]
  BY <1>1, <1>4, <1>6 DEF TypeOK, NotEndedYet
<1>12. TypeOK'
  <2>1. results' \in [Conns -> SUBSET Tx] /\ cursor' \in [Conns -> SUBSET Work]
    BY <1>1, <1>5, <1>9 DEF TypeOK
  <2>2. /\ phase' \in [Threads -> {"none", "active", "doomed", "thrown"}]
        /\ \A u \in Threads : phase'[u] # "none" => lease'[u] \in Conns /\ work'[u] \in Tx
    BY <1>1, <1>3, <1>4, <1>5 DEF TypeOK
  <2>3. suspect' \subseteq Conns /\ unheard' \subseteq Conns
    BY <1>3, <1>9
  <2>4. QED BY <1>1, <1>3, <1>5, <1>6, <1>7, <2>1, <2>3 DEF TypeOK
<1>13. Leases'
  BY <1>1, <1>3, <1>5 DEF Leases
<1>14. Numbers'
  <2>1. \A u \in Threads : work'[u] <= begun'
    BY <1>1, <1>5 DEF Numbers
  <2>2. \A u, v \in Threads :
          phase'[u] # "none" /\ phase'[v] # "none" /\ work'[u] = work'[v] => u = v
    BY <1>1, <1>5 DEF TypeOK, Numbers
  <2>3. ASSUME NEW x \in Tx, x > begun
        PROVE  /\ outcome'[x] = "unknown" /\ x \notin committed' \cup undone'
               /\ \A c \in Conns : x \notin open'[c] \cup results'[c] /\ x \notin cursor'[c]
    <3>1. x # work[t] /\ x # Outside
      BY <1>1, <2>3 DEF TypeOK, Numbers, Tx, Work, Outside
    <3>2. \A c \in Conns : results'[c] \subseteq results[c] /\ cursor'[c] \subseteq cursor[c]
      BY <1>1, <1>5, <1>9 DEF TypeOK
    <3>3. QED BY <1>1, <1>4, <1>6, <1>7, <2>3, <3>1, <3>2 DEF Numbers
  <2>4. QED BY <1>5, <2>1, <2>2, <2>3 DEF Numbers
<1>15. NotEndedYet'
  <2>1. ASSUME NEW u \in Threads \ {t}, phase[u] \in {"active", "doomed"}
        PROVE  work[u] \notin open[lease[t]] /\ work[u] \in Tx \ {work[t]}
    BY <1>1, <1>8, <2>1, OwnSession, TransactionsAssumption DEF TypeOK, Leases
  <2>2. QED BY <1>1, <1>3, <1>5, <1>6, <1>7, <2>1 DEF TypeOK, NotEndedYet
<1>16. OneSession'
  <2>1. SUFFICES ASSUME NEW c \in Conns, NEW x \in open'[c] \ {Outside}
               PROVE  \/ outcome'[x] \in {"not_ended", "failed"}
                      \/ \E u \in Threads : Running(u, c)' /\ work'[u] = x
    BY <1>7 DEF OneSession
  <2>2. CASE x # work[t]
    <3>1. x \in open[c] /\ x \in Tx
      BY <1>1, <1>7, <2>1 DEF TypeOK, Work
    <3>2. \/ outcome[x] \in {"not_ended", "failed"}
          \/ \E u \in Threads : Running(u, c) /\ work[u] = x
      BY <1>1, <2>1, <3>1 DEF OneSession
    <3>3. CASE outcome[x] \in {"not_ended", "failed"}
      BY <1>11, <3>1, <3>3
    <3>4. CASE \E u \in Threads : Running(u, c) /\ work[u] = x
      BY <1>5, <1>8, <2>2, <3>4
    <3>5. QED BY <3>2, <3>3, <3>4
  <2>3. QED BY <1>6, <2>2
<1>17. Leftovers'
  <2>1. SUFFICES ASSUME NEW c \in Conns \ (broken' \cup unheard'), NEW x \in Left(c)'
               PROVE  \/ outcome'[x] = "not_ended"
                      \/ \E u \in Threads : Running(u, c)' /\ work'[u] = x
    BY DEF Leftovers
  <2>2. x \in Left(c)
    BY <1>1, <1>5, <1>7, <1>9 DEF TypeOK, Left
  <2>3. CASE x # work[t]
    <3>1. x \in Tx
      BY <1>1, <2>2 DEF TypeOK, Left, Work
    <3>2. outcome[x] = "not_ended" \/ \E u \in Threads : Running(u, c) /\ work[u] = x
      BY <1>1, <1>3, <1>9, <2>2 DEF Leftovers
    <3>3. CASE outcome[x] = "not_ended"
      BY <1>11, <3>1, <3>3
    <3>4. CASE \E u \in Threads : Running(u, c) /\ work[u] = x
      BY <1>5, <1>8, <2>3, <3>4
    <3>5. QED BY <3>2, <3>3, <3>4
  <2>4. CASE x = work[t]
    <3>1. c = lease[t] \/ outcome'[x] = "not_ended"
      <4>1. outcome[x] = "unknown"
        BY <1>1, <2>4 DEF NotEndedYet
      <4>2. PICK u \in Threads : Running(u, c) /\ work[u] = x
        BY <1>1, <1>3, <1>9, <2>2, <4>1 DEF Leftovers
      <4>3. QED BY <1>1, <2>4, <4>2 DEF Numbers, Running
    <3>2. CASE c = lease[t] /\ outcome'[x] # "not_ended"
      BY <1>1, <1>5, <1>10, <2>4, <3>2 DEF TypeOK, Left
    <3>3. QED BY <3>1, <3>2
  <2>5. QED BY <2>3, <2>4
<1>18. ToldTheTruth'
  <2>1. \A x \in open[lease[t]] \ {Outside} : outcome[x] \in {"unknown", "not_ended", "failed"}
    BY <1>1, <1>4, OthersFailed DEF NotEndedYet
  <2>2. Ended("committed")' = Ended("committed") /\ Ended("rolled_back")' = Ended("rolled_back")
    BY <1>1, <1>4, <1>6 DEF NotEndedYet, Ended
  <2>3. QED BY <1>1, <1>7, <2>1, <2>2 DEF ToldTheTruth, Ended
<1>19. AllOrNothing'
  BY <1>7
<1>20. suspect' \subseteq broken'
  BY <1>9
<1>21. QED BY <1>12, <1>13, <1>14, <1>15, <1>16, <1>17, <1>18, <1>19, <1>20 DEF IInv

\* The link to a session is lost.
LEMMA LinkLostInv ==
  ASSUME IInv, NEW c \in Conns, LinkLost(c)
  PROVE  IInv'
<1>1. /\ TypeOK /\ Leases /\ Numbers /\ NotEndedYet /\ OneSession /\ Leftovers
      /\ ToldTheTruth /\ AllOrNothing /\ suspect \subseteq broken
  BY DEF IInv
<1>2. /\ UNCHANGED <<lease, broken, keeps, phase, work, begun, outcome, results, cursor, suspect,
                     unheard>>
      /\ lost' = lost \cup {c} /\ failures' \in 0..MaxFailures /\ Settle(c, "undo")
  BY <1>1, TransactionsAssumption DEF TypeOK, LinkLost, poolVars, clientVars, trust
<1>3. /\ open' \in [Conns -> SUBSET Work] /\ committed' = committed
      /\ undone' = undone \cup (open[c] \ {Outside}) /\ undone' \subseteq Tx /\ AllOrNothing'
      /\ \A d \in Conns : open'[d] \subseteq open[d] /\ open'[d] \cap (committed' \cup undone') = {}
      /\ \A d, b \in Conns : \A x \in open'[d] \ {Outside} : x \in open'[b] => d = b
  BY <1>2, SettleStep
<1>4. \A u \in Threads, d \in Conns : Running(u, d)' = Running(u, d)
  BY <1>2 DEF Running
<1>5. TypeOK'
  BY <1>1, <1>2, <1>3 DEF TypeOK, Tx
<1>6. Leases'
  BY <1>1, <1>2 DEF Leases
<1>7. Numbers'
  BY <1>1, <1>2, <1>3 DEF Numbers, Tx
<1>8. NotEndedYet'
  <2>1. ASSUME NEW u \in Threads, phase[u] = "active", lease[u] \notin lost'
        PROVE  work[u] \notin open[c]
    BY <1>2, <2>1, OwnSession
  <2>2. QED BY <1>1, <1>2, <1>3, <2>1 DEF NotEndedYet
<1>9. OneSession'
  BY <1>1, <1>2, <1>3, <1>4 DEF OneSession
<1>10. Leftovers'
  BY <1>1, <1>2, <1>3, <1>4 DEF Leftovers, Left
<1>11. ToldTheTruth'
  BY <1>1, <1>2, <1>3 DEF ToldTheTruth, Ended
<1>12. AllOrNothing'
  BY <1>3
<1>13. suspect' \subseteq broken'
  BY <1>1, <1>2
<1>14. QED BY <1>5, <1>6, <1>7, <1>8, <1>9, <1>10, <1>11, <1>12, <1>13 DEF IInv

\* A connection that no one has is destroyed.
LEMMA DisconnectInv ==
  ASSUME IInv, NEW c \in Conns, Disconnect(c)
  PROVE  IInv'
<1>1. /\ TypeOK /\ Leases /\ Numbers /\ NotEndedYet /\ OneSession /\ Leftovers
      /\ ToldTheTruth /\ AllOrNothing /\ suspect \subseteq broken
  BY DEF IInv
<1>2. /\ \A t \in Threads : lease[t] # c
      /\ UNCHANGED <<lease, keeps, phase, work, begun, outcome, failures>>
      /\ broken' = broken \ {c} /\ lost' = lost \ {c} /\ suspect' = suspect \ {c}
      /\ unheard' = unheard \ {c}
      /\ results' = [results EXCEPT ![c] = {}] /\ cursor' = [cursor EXCEPT ![c] = {}]
      /\ Settle(c, "undo")
  BY DEF Disconnect, Pool!Discard, poolVars, CloseCursor
<1>3. /\ open' \in [Conns -> SUBSET Work] /\ open'[c] = {} /\ committed' = committed
      /\ undone' = undone \cup (open[c] \ {Outside}) /\ undone' \subseteq Tx /\ AllOrNothing'
      /\ \A d \in Conns : open'[d] \subseteq open[d] /\ open'[d] \cap (committed' \cup undone') = {}
      /\ \A d, b \in Conns : \A x \in open'[d] \ {Outside} : x \in open'[b] => d = b
  BY <1>2, SettleStep
<1>4. \A u \in Threads, d \in Conns : Running(u, d)' = Running(u, d)
  BY <1>2 DEF Running
<1>5. TypeOK'
  BY <1>1, <1>2, <1>3 DEF TypeOK, Tx
<1>6. Leases'
  BY <1>1, <1>2 DEF Leases
<1>7. Numbers'
  <2>1. \A d \in Conns : results'[d] \subseteq results[d] /\ cursor'[d] \subseteq cursor[d]
    BY <1>1, <1>2 DEF TypeOK
  <2>2. QED BY <1>1, <1>2, <1>3 DEF Numbers, Tx
<1>8. NotEndedYet'
  <2>1. ASSUME NEW u \in Threads, phase[u] = "active", lease[u] \notin lost'
        PROVE  work[u] \notin open[c] /\ lease[u] \notin lost
    BY <1>2, <2>1, OwnSession
  <2>2. QED BY <1>1, <1>2, <1>3, <2>1 DEF NotEndedYet
<1>9. OneSession'
  BY <1>1, <1>2, <1>3, <1>4 DEF OneSession
<1>10. Leftovers'
  <2>1. Left(c)' = {} /\ \A d \in Conns \ {c} : Left(d)' \subseteq Left(d)
    BY <1>1, <1>2, <1>3 DEF TypeOK, Left
  <2>2. QED BY <1>1, <1>2, <1>4, <2>1 DEF Leftovers
<1>11. ToldTheTruth'
  <2>1. open[c] \cap (Ended("committed") \cup Ended("rolled_back")) = {}
    BY <1>1 DEF ToldTheTruth
  <2>2. QED BY <1>1, <1>2, <1>3 DEF ToldTheTruth, Ended
<1>12. AllOrNothing'
  BY <1>3
<1>13. suspect' \subseteq broken'
  BY <1>1, <1>2
<1>14. QED BY <1>5, <1>6, <1>7, <1>8, <1>9, <1>10, <1>11, <1>12, <1>13 DEF IInv

------------------------------------------------------------------------------
LEMMA InitInv == Init => IInv
<1> SUFFICES ASSUME Init PROVE IInv
  OBVIOUS
<1>1. TypeOK
  BY TransactionsAssumption DEF Init, Pool!Init, TypeOK, Tx, Work
<1>2. Leases /\ Numbers /\ NotEndedYet
  BY DEF Init, Pool!Init, Leases, Numbers, NotEndedYet, Tx, Outside
<1>3. OneSession /\ Leftovers
  BY DEF Init, OneSession, Leftovers, Left
<1>4. ToldTheTruth /\ AllOrNothing
  BY DEF Init, ToldTheTruth, Ended, AllOrNothing
<1>5. suspect \subseteq broken
  BY DEF Init, Pool!Init
<1>6. QED BY <1>1, <1>2, <1>3, <1>4, <1>5 DEF IInv

LEMMA StepInv == IInv /\ [Next]_vars => IInv'
<1> SUFFICES ASSUME IInv, [Next]_vars PROVE IInv'
  OBVIOUS
<1>1. ASSUME NEW t \in Threads, Execute(t, TRUE) \/ Execute(t, FALSE) \/ ExecuteDirect(t)
      PROVE  IInv'
  BY <1>1, ExecuteInv DEF ExecuteDirect
<1>2. ASSUME NEW t \in Threads, Commit(t) PROVE IInv'
  BY <1>2, EndTranInv, InvalidateFailsInv, EndTranFailsInv DEF Commit
<1>3. ASSUME NEW t \in Threads, Rollback(t) PROVE IInv'
  BY <1>3, EndTranInv, InvalidateFailsInv, EndTranFailsInv DEF Rollback
<1>4. CASE UNCHANGED vars
  BY <1>4 DEF vars, poolVars, clientVars, serverVars, trust, IInv, TypeOK, Leases, Numbers,
       NotEndedYet, OneSession, Leftovers, Left, Running, ToldTheTruth, Ended, AllOrNothing
<1>5. QED
  BY <1>1, <1>2, <1>3, <1>4, TakeInv, DropInv, StartInv, StatementFailsInv, CloseResultInv,
       FetchFailsInv, DirectRefusedInv, DestroyInv, LinkLostInv, DisconnectInv DEF Next

LEMMA Invariance == Spec => []IInv
BY InitInv, StepInv, PTL DEF Spec

------------------------------------------------------------------------------
\* The variables of the pool, the transactions and the server's sessions keep their
\* types, and a transaction that has not been released always has its connection.
THEOREM TypeCorrect == Spec => []TypeOK
<1>1. IInv => TypeOK
  BY DEF IInv
<1>2. QED BY <1>1, Invariance, PTL

\* What commit() and rollback() tell the application when they return is what the
\* server did, and stays so: no later transaction on the connection, no failure and
\* no disconnect changes it.
THEOREM ReturnsTellTheTruth == Spec => []ToldTheTruth
<1>1. IInv => ToldTheTruth
  BY DEF IInv
<1>2. QED BY <1>1, Invariance, PTL

\* Whatever statements, calls and links fail, a connection that is not marked failed
\* goes back to the pool without work, results or a cursor of any transaction but
\* those whose end was never asked for or was refused; what it may keep besides is the
\* work of statements that the application ran outside of a transaction.  Nothing is
\* said of a connection on which SQLEndTran() failed and no record could be read.
THEOREM PooledConnectionsAreClean == Spec => []CleanWhenPooled
<1>1. IInv => CleanWhenPooled
  <2> SUFFICES ASSUME IInv, NEW c \in Conns \ (broken \cup unheard),
                      \A t \in Threads : lease[t] # c, NEW x \in Left(c)
               PROVE  x \in Ended("not_ended")
    BY DEF CleanWhenPooled, Left
  <2>1. outcome[x] = "not_ended"
    BY DEF IInv, Leftovers, Running
  <2>2. x \in Tx
    BY DEF IInv, TypeOK, Left, Work
  <2>3. QED BY <2>1, <2>2 DEF Ended
<1>2. QED BY <1>1, Invariance, PTL

\* No failure at any point makes one part of a transaction's work be committed and
\* another undone.
THEOREM NothingByHalves == Spec => []AllOrNothing
<1>1. IInv => AllOrNothing
  BY DEF IInv
<1>2. QED BY <1>1, Invariance, PTL

\* A connection is leased to no one again once a call has failed with a record of a
\* lost link, wherever it stands among the others, or SQLEndTran() with a record that
\* can be read and none that settles what became of the transaction (or one that
\* contradicts it).  Where no record can be read nothing marks the connection, and
\* nothing is promised.
THEOREM SuspectsAreNotLeased == Spec => SuspectsStayOut
<1>1. IInv /\ [Next]_vars =>
        \A t \in Threads :
          (lease'[t] # lease[t] /\ lease'[t] # NoConn) => lease'[t] \notin suspect
  <2> SUFFICES ASSUME IInv, [Next]_vars, NEW t \in Threads,
                      lease'[t] # lease[t], lease'[t] # NoConn
               PROVE  lease'[t] \notin broken
    BY DEF IInv
  <2>1. lease \in [Threads -> Conns \cup {NoConn}]
    BY DEF IInv, TypeOK
  <2>2. ASSUME NEW u \in Threads, NEW c \in Conns, Pool!Lend(u, c)
        PROVE  lease'[t] \notin broken
    BY <2>1, <2>2 DEF Pool!Lend
  <2>3. ASSUME NEW u \in Threads, Pool!GiveBack(u) \/ Pool!Break(u) \/ Reset(u)
        PROVE  FALSE
    BY <2>1, <2>3 DEF Pool!GiveBack, Pool!Break, Reset, poolVars
  <2>4. lease' # lease
    OBVIOUS
  <2>5. ASSUME NEW u \in Threads,
               StatementFails(u) \/ FetchFails(u) \/ Commit(u) \/ Rollback(u) \/ Destroy(u)
        PROVE  FALSE
    BY <2>3, <2>5 DEF StatementFails, FetchFails, Commit, Rollback, Destroy, EndTran,
         InvalidateFails, EndTranFails, Failed, poolVars
  <2>6. ASSUME NEW u \in Threads, TakeConnection(u) \/ Start(u)
        PROVE  lease'[t] \notin broken
    BY <2>2, <2>6 DEF TakeConnection, Start, poolVars
  <2>7. ASSUME NEW u \in Threads,
               \/ Execute(u, TRUE) \/ Execute(u, FALSE) \/ ExecuteDirect(u)
               \/ DropConnection(u) \/ CloseResult(u) \/ DirectRefused(u)
        PROVE  FALSE
    BY <2>3, <2>7 DEF Execute, ExecuteDirect, DropConnection, CloseResult, DirectRefused,
         poolVars
  <2>8. ASSUME NEW c \in Conns, LinkLost(c) \/ Disconnect(c) PROVE FALSE
    BY <2>8 DEF LinkLost, Disconnect, Pool!Discard, poolVars
  <2>9. CASE UNCHANGED vars
    BY <2>4, <2>9 DEF vars, poolVars
  <2>10. QED BY <2>5, <2>6, <2>7, <2>8, <2>9 DEF Next
<1>2. QED BY <1>1, Invariance, PTL DEF Spec, SuspectsStayOut
==============================================================================
