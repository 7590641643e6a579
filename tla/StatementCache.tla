--------------------------- MODULE StatementCache ---------------------------
(****************************************************************************)
(* The statements that a connection keeps for each class, and the query     *)
(* results that refer to them.  find_object() empties the whole cache when  *)
(* the schema version has changed since it last looked; find_view() never   *)
(* does.  Emptying it deletes the sets with their images, bindings,         *)
(* prepared statements and those of containers and sections, whoever still  *)
(* refers to them.                                                          *)
(*                                                                          *)
(* Results are over one object class (ResultImage), Views over a view.      *)
(****************************************************************************)
EXTENDS ResultImage

CONSTANTS Views,        \* results of a view
          MaxChanges    \* bound: changes of the schema version

ASSUME StatementCacheAssumption ==
  /\ MaxChanges \in Nat
  /\ Views \cap (Results \cup {NoResult}) = {}

VARIABLES
  schemaSeq,    \* the database's schema_version_sequence()
  cacheSeq,     \* version_seq_
  map,          \* map_: for which schema a class has its set, or NoSet
  clears,       \* how often map_ has been emptied
  use           \* the set a result refers to, until it is destroyed

cacheVars == <<schemaSeq, cacheSeq, map, clears, use>>
cachedVars == <<vars, cacheVars>>

Classes == {"object", "view"}
NoSet == MaxChanges + 1
Unused == [clears |-> 0, made |-> 0, at |-> MaxChanges + 1]

CacheTypeOK ==
  /\ TypeOK
  /\ schemaSeq \in 0..MaxChanges /\ cacheSeq \in 0..schemaSeq /\ clears \in 0..MaxChanges
  /\ map \in [Classes -> 0..NoSet]
  /\ use \in [Results \cup Views -> [clears : 0..MaxChanges, made : 0..MaxChanges, at : 0..NoSet]]

CacheInit ==
  /\ Init
  /\ schemaSeq = 0 /\ cacheSeq = 0 /\ clears = 0
  /\ map = [c \in Classes |-> NoSet]
  /\ use = [r \in Results \cup Views |-> Unused]

------------------------------------------------------------------------------
Expired == cacheSeq # schemaSeq

\* The class's set in m, made now if there is none.
WithSet(m, c) == IF m[c] = NoSet THEN [m EXCEPT ![c] = schemaSeq] ELSE m

\* Mutant of FindObject: the sequence is not remembered.
FindObjectForgets ==
  /\ map' = WithSet(IF Expired THEN [c \in Classes |-> NoSet] ELSE map, "object")
  /\ clears' = (IF Expired THEN clears + 1 ELSE clears)
  /\ cacheSeq' = cacheSeq
\* Mutant of FindObject: a set that is there is handed out without a check.
FindObjectFirst ==
  IF map["object"] # NoSet THEN UNCHANGED <<map, clears, cacheSeq>>
  ELSE /\ map' = WithSet(IF Expired THEN [c \in Classes |-> NoSet] ELSE map, "object")
       /\ clears' = (IF Expired THEN clears + 1 ELSE clears)
       /\ cacheSeq' = schemaSeq
FindObject ==
  /\ map' = WithSet(IF Expired THEN [c \in Classes |-> NoSet] ELSE map, "object")
  /\ clears' = (IF Expired THEN clears + 1 ELSE clears)
  /\ cacheSeq' = schemaSeq

FindView ==
  /\ map' = WithSet(map, "view")
  /\ UNCHANGED <<clears, cacheSeq>>

\* A new image comes with a new set.  Results that refer to the deleted one cannot
\* be used any more, nor destroyed.
ImageOf(emptied) ==
  IF emptied
  THEN /\ image' = Other /\ context' = NoResult
       /\ ended' = [r \in Results |-> ended[r] \/ use[r] # Unused]
       /\ UNCHANGED <<row, useCopy, copy, canLoad>>
  ELSE UNCHANGED vars

Refers(r, c) == use' = [use EXCEPT ![r] = [clears |-> clears', made |-> map'[c], at |-> schemaSeq]]
Alive(r) == use[r].clears = clears

\* query() hands out a result.
Query(r) ==
  /\ use[r] = Unused /\ ~ended[r]
  /\ FindObject /\ ImageOf(Expired)
  /\ Refers(r, "object")
  /\ UNCHANGED schemaSeq

QueryView(v) ==
  /\ use[v] = Unused
  /\ FindView
  /\ Refers(v, "view")
  /\ UNCHANGED <<vars, schemaSeq>>

\* What an application does with its results.
Step(r) ==
  /\ use[r] # Unused /\ Alive(r)
  /\ Advance(r) \/ Load(r, TRUE) \/ Load(r, FALSE) \/ Invalidate(r)
  /\ UNCHANGED cacheVars

\* find(), persist() and the like.
Call ==
  /\ FindObject
  /\ IF Expired THEN ImageOf(TRUE) ELSE Execute \/ UNCHANGED vars
  /\ UNCHANGED <<schemaSeq, use>>

\* The destructor looks at the image as well.
Destroy(r) ==
  /\ use[r] # Unused /\ Alive(r) /\ (r \in Results => ended[r])
  /\ use' = [use EXCEPT ![r] = Unused]
  /\ UNCHANGED <<vars, schemaSeq, cacheSeq, map, clears>>

\* schema_version_migration(), called by the application or a migration.
ChangeVersion ==
  /\ schemaSeq < MaxChanges
  /\ schemaSeq' = schemaSeq + 1
  /\ UNCHANGED <<vars, cacheSeq, map, clears, use>>

CacheNext ==
  \/ \E r \in Results : Query(r) \/ Step(r)
  \/ \E v \in Views : QueryView(v)
  \/ \E r \in Results \cup Views : Destroy(r)
  \/ Call \/ ChangeVersion

CacheSpec == CacheInit /\ [][CacheNext]_cachedVars

------------------------------------------------------------------------------
\* Properties

Current(r) == use[r] # Unused /\ use[r].at = schemaSeq

\* "This makes sure we don't re-use statements that correspond to the old schema":
\* a query gets a set that was made since the schema version last changed.
NotStale == \A r \in Results : use[r] # Unused => use[r].made = use[r].at

\* No call deletes the set that a result of objects refers to, unless the schema
\* version has changed since the query.
InUseIsAlive == \A r \in Results : Current(r) => Alive(r)

\* And the same of views.
ViewInUseIsAlive == \A v \in Views : Current(v) => Alive(v)
==============================================================================
