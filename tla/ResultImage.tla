----------------------------- MODULE ResultImage -----------------------------
(****************************************************************************)
(* Query results that share one image.  All statements for a class on a     *)
(* connection bind the same image, so a row that one result has fetched is  *)
(* overwritten by whatever fetches or binds next.  change_callback lets the *)
(* result that fetched last save its row first.  Rows and images are known  *)
(* by the result and the row number they came from.                         *)
(****************************************************************************)
EXTENDS Naturals

CONSTANTS Results,      \* query results over the statements of one class
          NoResult,     \* "no callback"
          Rows,         \* bound: rows that a result can have
          LongData,     \* does the class have long data columns?
          ClassKind     \* "object", "no_id" or "view": which *-result.txx

ASSUME ResultImageAssumption ==
  /\ NoResult \notin Results
  /\ Rows \in [Results -> Nat]
  /\ LongData \in BOOLEAN
  /\ ClassKind \in {"object", "no_id", "view"}

VARIABLES
  image,        \* what the shared image holds
  context,      \* change_callback_.context: the result to be called, or NoResult
  row,          \* the number of the row a result is at; 0 = none
  ended,        \* end_, and whether the result can still be used
  useCopy,      \* use_copy_
  copy,         \* *image_copy_
  canLoad       \* can_load_

vars == <<image, context, row, ended, useCopy, copy, canLoad>>

\* An image: the row of a result, another object, or remains of a failed fetch.
Row(r) == [of |-> r, row |-> row[r]]
Other == [of |-> NoResult, row |-> 0]
Junk == [of |-> NoResult, row |-> 1]
Images == [of : Results, row : Nat] \cup {Other, Junk}

TypeOK ==
  /\ image \in Images
  /\ context \in Results \cup {NoResult}
  /\ row \in [Results -> Nat] /\ \A r \in Results : row[r] <= Rows[r]
  /\ ended \in [Results -> BOOLEAN]
  /\ useCopy \in [Results -> BOOLEAN] /\ copy \in [Results -> Images]
  /\ \A r \in Results : copy[r] # Other => copy[r].of = r    \* its own rows
  /\ canLoad \in [Results -> BOOLEAN]

Init ==
  /\ image = Other /\ context = NoResult
  /\ row = [r \in Results |-> 0]
  /\ ended = [r \in Results |-> FALSE]
  /\ useCopy = [r \in Results |-> FALSE]
  /\ copy = [r \in Results |-> Other]
  /\ canLoad = [r \in Results |-> TRUE]

------------------------------------------------------------------------------
\* Mutant of ClearsCallback: every callback works on a copy of the image.
ClearsNothing == FALSE

\* The callback of the object and view results clears change_callback_ in the
\* shared image.  That of the results for objects without an id copies the image
\* into a variable, and clears the callback there.
ClearsCallback == ClassKind # "no_id"

\* What a call of the registered callback leaves: the called result's use_copy_
\* and image_copy_, given their values u and k before, and the context after.
Called(u, k) ==
  IF context = NoResult
  THEN [use |-> u, copy |-> k, context |-> NoResult]
  ELSE [use |-> [u EXCEPT ![context] = TRUE],
        copy |-> [k EXCEPT ![context] = image],
        context |-> IF ClearsCallback THEN NoResult ELSE context]

\* Mutant of Detached: the callback stays registered.
NeverDetached(r) == context
\* next() and invalidate() start by taking back their own callback.
Detached(r) == IF context = r THEN NoResult ELSE context

\* next(), with the fetch() of select_statement: the callback that is registered,
\* if it is not r's own, is called before SQLFetch() overwrites the image.
Advance(r) ==
  LET cc == Detached(r)
      before == [useCopy EXCEPT ![r] = FALSE]
      saved == IF cc = NoResult THEN [use |-> before, copy |-> copy, context |-> cc]
               ELSE Called(before, copy)
  IN  /\ ~ended[r]
      /\ canLoad' = [canLoad EXCEPT ![r] = TRUE]
      /\ useCopy' = saved.use /\ copy' = saved.copy
      /\ \/ /\ row[r] < Rows[r]
            /\ row' = [row EXCEPT ![r] = @ + 1]
            /\ image' = [of |-> r, row |-> row[r] + 1]
            /\ context' = r
            /\ UNCHANGED ended
         \/ /\ row[r] = Rows[r]
            /\ ended' = [ended EXCEPT ![r] = TRUE]
            /\ context' = saved.context
            /\ UNCHANGED <<image, row>>
         \/ /\ row[r] < Rows[r]             \* SQLFetch() fails: the exception
            /\ ended' = [ended EXCEPT ![r] = TRUE]       \* ends the iteration
            /\ image' = Junk
            /\ context' = saved.context
            /\ UNCHANGED row

\* Mutant of Source: use_copy_ ignored.
SourceIsImage(r) == image
\* Where load() and load_id() read the current row.
Source(r) == IF useCopy[r] THEN copy[r] ELSE image

\* Other statements of the class fetch into the image, or bind it: they call the
\* callback first.
Overwrite ==
  LET saved == Called(useCopy, copy)
  IN  /\ useCopy' = saved.use /\ copy' = saved.copy /\ context' = saved.context
      /\ image' = Other

\* load() of the current row from Source(r), which may then load further objects of the class
\* (delayed loads) through the same statements.  Streaming the long data can be
\* done once per row: a second load() throws long_data_reload.
Load(r, nested) ==
  /\ ~ended[r] /\ row[r] # 0 /\ canLoad[r]
  /\ canLoad' = [canLoad EXCEPT ![r] = ~LongData]
  /\ IF nested THEN ClassKind = "object" /\ Overwrite
               ELSE UNCHANGED <<image, context, useCopy, copy>>
  /\ UNCHANGED <<row, ended>>

\* find(), persist() or update() of an object of the class between the two.
Execute ==
  /\ Overwrite
  /\ UNCHANGED <<row, ended, canLoad>>

\* commit(), rollback() and the result's destructor.
Invalidate(r) ==
  /\ ~ended[r]
  /\ context' = Detached(r)
  /\ copy' = [copy EXCEPT ![r] = Other]
  /\ ended' = [ended EXCEPT ![r] = TRUE]
  /\ UNCHANGED <<image, row, useCopy, canLoad>>

Next ==
  \/ Execute
  \/ \E r \in Results :
       Advance(r) \/ Load(r, TRUE) \/ Load(r, FALSE) \/ Invalidate(r)

Spec == Init /\ [][Next]_vars

------------------------------------------------------------------------------
\* Properties

\* "Save the image between result iteration and dereferencing": whatever ran
\* since, a result that is dereferenced reads the row it is at.
ReadsOwnRow == \A r \in Results : (~ended[r] /\ row[r] # 0) => Source(r) = Row(r)

\* The callback is never left pointing at a result that has ended or been
\* destroyed, and the result it points at has its row in the image.
CallbackIsLive ==
  context # NoResult =>
    ~ended[context] /\ ~useCopy[context] /\ image = Row(context)
==============================================================================
