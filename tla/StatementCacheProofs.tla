-------------------------- MODULE StatementCacheProofs --------------------------
(****************************************************************************)
(* The safety of query results over shared images and a statement cache,    *)
(* for any number of results, rows, views and changes of the schema         *)
(* version: SetsInv about the cache, and ImageInv about the image.          *)
(*                                                                          *)
(* What is said of the image holds of the results for objects and views;    *)
(* that of the results for objects without an id keeps a callback that was  *)
(* called, which a run shows.                                               *)
(****************************************************************************)
EXTENDS StatementCache, TLAPS

------------------------------------------------------------------------------
\* The inductive invariants.

\* A result refers to a set that was made for the schema it was queried under, and
\* none of the present schema was deleted.
SetsTyped ==
  /\ schemaSeq \in 0..MaxChanges /\ cacheSeq \in 0..schemaSeq
  /\ map \in [Classes -> 0..NoSet]
  /\ use \in [Results \cup Views ->
             [clears : 0..MaxChanges, made : 0..MaxChanges, at : 0..NoSet]]
SetsInv ==
  /\ SetsTyped
  /\ clears \in 0..cacheSeq
  /\ map["object"] \in {NoSet, cacheSeq}
  /\ map["view"] # NoSet => map["view"] <= schemaSeq
  /\ \A r \in Results : use[r] # Unused =>
       /\ use[r].at <= cacheSeq /\ use[r].made = use[r].at
       /\ use[r].at = cacheSeq => use[r].clears = clears

\* A result at a row that it has not saved is the one to be called.
Registered == \A r \in Results : (~ended[r] /\ row[r] # 0 /\ ~useCopy[r]) => context = r

ImageInv == TypeOK /\ ReadsOwnRow /\ CallbackIsLive /\ Registered

\* A result is at a row only after query() has handed it out.
QueriedFirst == \A r \in Results : (use[r] = Unused /\ ~ended[r]) => row[r] = 0

IInv == SetsInv /\ ImageInv /\ QueriedFirst

------------------------------------------------------------------------------
\* The cache, whatever the class.

\* find_object() leaves a set of the present schema, and empties the cache only
\* when the one that was there is older.
LEMMA FindObjectStep ==
  ASSUME SetsInv, FindObject, UNCHANGED schemaSeq
  PROVE  /\ map' \in [Classes -> 0..NoSet] /\ map'["object"] = schemaSeq
         /\ map'["view"] \in {map["view"], NoSet}
         /\ cacheSeq' = schemaSeq
         /\ clears' \in 0..schemaSeq
         /\ cacheSeq = schemaSeq => clears' = clears
<1>1. /\ MaxChanges \in Nat /\ schemaSeq \in 0..MaxChanges /\ cacheSeq \in 0..schemaSeq
      /\ clears \in 0..cacheSeq /\ map \in [Classes -> 0..NoSet]
      /\ map["object"] \in {NoSet, cacheSeq}
  BY StatementCacheAssumption DEF SetsInv, SetsTyped
<1>2. cacheSeq' = schemaSeq /\ (cacheSeq = schemaSeq => clears' = clears)
  BY DEF FindObject, Expired
<1>3. clears' \in 0..schemaSeq
  BY <1>1 DEF FindObject, Expired
<1>4. CASE cacheSeq = schemaSeq
  BY <1>1, <1>2, <1>3, <1>4 DEF FindObject, Expired, WithSet, Classes, NoSet
<1>5. CASE cacheSeq # schemaSeq
  BY <1>1, <1>2, <1>3, <1>5 DEF FindObject, Expired, WithSet, Classes, NoSet
<1>6. QED BY <1>4, <1>5

LEMMA SetsInit == CacheInit => SetsInv
<1> SUFFICES ASSUME CacheInit PROVE SetsInv
  OBVIOUS
<1>1. MaxChanges \in Nat
  BY StatementCacheAssumption
<1>2. \A r \in Results \cup Views : use[r] = Unused
  BY DEF CacheInit
<1>3. Unused \in [clears : 0..MaxChanges, made : 0..MaxChanges, at : 0..NoSet]
  BY <1>1 DEF Unused, NoSet
<1>4. SetsTyped
  BY <1>1, <1>3 DEF CacheInit, SetsTyped, NoSet
<1>5. QED BY <1>1, <1>2, <1>4 DEF CacheInit, SetsInv, Classes, NoSet

LEMMA SetsStep == SetsInv /\ [CacheNext]_cachedVars => SetsInv'
<1> SUFFICES ASSUME SetsInv, [CacheNext]_cachedVars PROVE SetsInv'
  OBVIOUS
<1>1. /\ MaxChanges \in Nat /\ schemaSeq \in 0..MaxChanges /\ cacheSeq \in 0..schemaSeq
      /\ clears \in 0..cacheSeq
  BY StatementCacheAssumption DEF SetsInv, SetsTyped
<1>2. ASSUME NEW r \in Results, Query(r) PROVE SetsInv'
  <2>1. /\ map' \in [Classes -> 0..NoSet] /\ map'["object"] = schemaSeq
        /\ map'["view"] \in {map["view"], NoSet} /\ cacheSeq' = schemaSeq
        /\ clears' \in 0..schemaSeq /\ (cacheSeq = schemaSeq => clears' = clears)
        /\ schemaSeq' = schemaSeq
    BY <1>2, FindObjectStep DEF Query
  <2>2. use' = [use EXCEPT ![r] = [clears |-> clears', made |-> schemaSeq, at |-> schemaSeq]]
    BY <1>2, <2>1 DEF Query, Refers
  <2>3. SetsTyped'
    BY <1>1, <2>1, <2>2 DEF SetsInv, SetsTyped, NoSet
  <2>4. \A q \in Results : use'[q] # Unused =>
          /\ use'[q].at <= cacheSeq' /\ use'[q].made = use'[q].at
          /\ use'[q].at = cacheSeq' => use'[q].clears = clears'
    <3> SUFFICES ASSUME NEW q \in Results, use'[q] # Unused
                 PROVE  /\ use'[q].at <= cacheSeq' /\ use'[q].made = use'[q].at
                        /\ use'[q].at = cacheSeq' => use'[q].clears = clears'
      OBVIOUS
    <3>1. CASE q = r
      BY <1>1, <2>1, <2>2, <3>1 DEF SetsInv, SetsTyped
    <3>2. CASE q # r
      BY <1>1, <2>1, <2>2, <3>2 DEF SetsInv, SetsTyped
    <3>3. QED BY <3>1, <3>2
  <2>5. QED BY <1>1, <2>1, <2>3, <2>4 DEF SetsInv
<1>3. ASSUME NEW v \in Views, QueryView(v) PROVE SetsInv'
  <2>1. /\ UNCHANGED <<schemaSeq, cacheSeq, clears>>
        /\ map' \in [Classes -> 0..NoSet] /\ map'["object"] = map["object"]
        /\ map'["view"] \in 0..schemaSeq
    BY <1>1, <1>3 DEF QueryView, FindView, WithSet, SetsInv, SetsTyped, Classes, NoSet
  <2>2. use' = [use EXCEPT ![v] = [clears |-> clears, made |-> map'["view"], at |-> schemaSeq]]
    BY <1>3, <2>1 DEF QueryView, Refers
  <2>3. SetsTyped'
    BY <1>1, <2>1, <2>2 DEF SetsInv, SetsTyped, NoSet
  <2>4. \A q \in Results : use'[q] = use[q]
    BY <2>2, StatementCacheAssumption DEF SetsInv, SetsTyped
  <2>5. QED BY <1>1, <2>1, <2>3, <2>4 DEF SetsInv
<1>4. CASE Call
  <2>1. /\ map' \in [Classes -> 0..NoSet] /\ map'["object"] = schemaSeq
        /\ map'["view"] \in {map["view"], NoSet} /\ cacheSeq' = schemaSeq
        /\ clears' \in 0..schemaSeq /\ (cacheSeq = schemaSeq => clears' = clears)
        /\ UNCHANGED <<schemaSeq, use>>
    BY <1>4, FindObjectStep DEF Call
  <2>2. \A q \in Results : use[q] # Unused =>
          /\ use[q].at <= cacheSeq'
          /\ use[q].at = cacheSeq' => use[q].clears = clears'
    BY <1>1, <2>1 DEF SetsInv, SetsTyped
  <2>3. QED BY <1>1, <2>1, <2>2 DEF SetsInv, SetsTyped
<1>5. ASSUME NEW r \in Results \cup Views, Destroy(r) PROVE SetsInv'
  <2>1. Unused \in [clears : 0..MaxChanges, made : 0..MaxChanges, at : 0..NoSet]
    BY <1>1 DEF Unused, NoSet
  <2>2. /\ UNCHANGED <<schemaSeq, cacheSeq, map, clears>>
        /\ use' = [use EXCEPT ![r] = Unused]
    BY <1>5 DEF Destroy
  <2>3. QED BY <2>1, <2>2 DEF SetsInv, SetsTyped
<1>6. CASE ChangeVersion
  <2>1. /\ schemaSeq' = schemaSeq + 1 /\ schemaSeq' \in 0..MaxChanges
        /\ UNCHANGED <<cacheSeq, map, clears, use>>
    BY <1>1, <1>6 DEF ChangeVersion
  <2>2. cacheSeq \in 0..schemaSeq'
    BY <1>1, <2>1
  <2>3. SetsTyped'
    BY <2>1, <2>2 DEF SetsInv, SetsTyped, NoSet
  <2>4. map["view"] # NoSet => map["view"] <= schemaSeq'
    BY <1>1, <2>1 DEF SetsInv, SetsTyped, Classes, NoSet
  <2>5. QED BY <2>1, <2>2, <2>3, <2>4 DEF SetsInv, NoSet
<1>7. CASE UNCHANGED cacheVars
  BY <1>7 DEF cacheVars, SetsInv, SetsTyped
<1>8. QED
  BY <1>2, <1>3, <1>4, <1>5, <1>6, <1>7 DEF CacheNext, Step, cachedVars

\* "This makes sure we don't re-use statements that correspond to the old schema".
THEOREM QueriesGetCurrentStatements == CacheSpec => []NotStale
<1>1. SetsInv => NotStale
  BY DEF SetsInv, NotStale
<1>2. QED BY <1>1, SetsInit, SetsStep, PTL DEF CacheSpec

\* Emptying the cache never deletes the statements of a result of objects that was
\* queried since the schema version last changed.
THEOREM StatementsInUseAreAlive == CacheSpec => []InUseIsAlive
<1>1. SetsInv => InUseIsAlive
  <2> SUFFICES ASSUME SetsInv, NEW r \in Results, Current(r) PROVE Alive(r)
    BY DEF InUseIsAlive
  <2>1. use[r].at = cacheSeq
    BY StatementCacheAssumption DEF SetsInv, SetsTyped, Current
  <2>2. QED BY <2>1 DEF SetsInv, Current, Alive
<1>2. QED BY <1>1, SetsInit, SetsStep, PTL DEF CacheSpec

------------------------------------------------------------------------------
\* The image, for the results that clear their callback.

\* A live result at a row keeps it in its copy, or is about to be called and has it
\* in the image.
LEMMA WhereRowsAre ==
  ASSUME ImageInv, NEW q \in Results, ~ended[q], row[q] # 0
  PROVE  IF useCopy[q] THEN copy[q] = Row(q) /\ q # context
                       ELSE image = Row(q) /\ q = context
BY ResultImageAssumption DEF ImageInv, ReadsOwnRow, CallbackIsLive, Registered, Source

LEMMA RowIsImage ==
  ASSUME TypeOK, NEW q \in Results
  PROVE  Row(q) \in Images /\ Row(q).of = q
BY DEF TypeOK, Row, Images

\* When the registered callback is called, its result's row moves to its copy; the
\* other results' rows stay where they are.
LEMMA CalledStep ==
  ASSUME ClassKind # "no_id", ImageInv, NEW u \in [Results -> BOOLEAN]
  PROVE  /\ Called(u, copy).context = NoResult
         /\ Called(u, copy).use \in [Results -> BOOLEAN]
         /\ Called(u, copy).copy \in [Results -> Images]
         /\ \A q \in Results :
              /\ Called(u, copy).copy[q] # Other => Called(u, copy).copy[q].of = q
              /\ q # context => /\ Called(u, copy).use[q] = u[q]
                                /\ Called(u, copy).copy[q] = copy[q]
              /\ q = context => Called(u, copy).use[q] /\ Called(u, copy).copy[q] = Row(q)
<1>1. CASE context = NoResult
  BY <1>1, ResultImageAssumption DEF ImageInv, TypeOK, Called
<1>2. CASE context # NoResult
  <2>1. context \in Results /\ image = Row(context)
    BY <1>2 DEF ImageInv, TypeOK, CallbackIsLive
  <2>2. Row(context) \in Images /\ Row(context).of = context
    BY <2>1, RowIsImage DEF ImageInv
  <2>3. /\ Called(u, copy).context = NoResult
        /\ Called(u, copy).use = [u EXCEPT ![context] = TRUE]
        /\ Called(u, copy).copy = [copy EXCEPT ![context] = Row(context)]
    BY <1>2, <2>1 DEF Called, ClearsCallback
  <2>4. copy \in [Results -> Images] /\ \A q \in Results : copy[q] # Other => copy[q].of = q
    BY DEF ImageInv, TypeOK
  <2>5. QED BY <2>1, <2>2, <2>3, <2>4
<1>3. QED BY <1>1, <1>2

\* Whatever overwrites the image leaves every live result with a copy of its row.
LEMMA OverwriteStep ==
  ASSUME ClassKind # "no_id", ImageInv, Overwrite
  PROVE  /\ image' = Other /\ context' = NoResult
         /\ useCopy' \in [Results -> BOOLEAN] /\ copy' \in [Results -> Images]
         /\ \A q \in Results :
              /\ copy'[q] # Other => copy'[q].of = q
              /\ ~ended[q] /\ row[q] # 0 => useCopy'[q] /\ copy'[q] = Row(q)
<1>1. useCopy \in [Results -> BOOLEAN]
  BY DEF ImageInv, TypeOK
<1>2. /\ image' = Other /\ context' = NoResult
      /\ useCopy' = Called(useCopy, copy).use /\ copy' = Called(useCopy, copy).copy
  BY <1>1, CalledStep DEF Overwrite
<1>3. QED BY <1>1, <1>2, CalledStep, WhereRowsAre

LEMMA OverwriteInv ==
  ASSUME ClassKind # "no_id", ImageInv, Overwrite,
         row' = row, ended' = ended, canLoad' \in [Results -> BOOLEAN]
  PROVE  ImageInv'
<1>1. TypeOK'
  BY OverwriteStep DEF ImageInv, TypeOK, Images
<1>2. ReadsOwnRow' /\ Registered'
  BY OverwriteStep DEF ReadsOwnRow, Registered, Source, Row
<1>3. CallbackIsLive'
  BY OverwriteStep DEF CallbackIsLive
<1>4. QED BY <1>1, <1>2, <1>3 DEF ImageInv

\* next() leaves every other live result with a copy of its row before it fetches.
LEMMA AdvanceStep ==
  ASSUME ClassKind # "no_id", ImageInv, NEW r \in Results, Advance(r)
  PROVE  /\ useCopy' \in [Results -> BOOLEAN] /\ copy' \in [Results -> Images]
         /\ ~useCopy'[r] /\ context' \in {r, NoResult}
         /\ context' = r => row[r] < Rows[r] /\ row' = [row EXCEPT ![r] = @ + 1]
         /\ context' = NoResult => row' = row /\ ended' = [ended EXCEPT ![r] = TRUE]
         /\ \A q \in Results :
              /\ copy'[q] # Other => copy'[q].of = q
              /\ ~ended[q] /\ row[q] # 0 /\ q # r => useCopy'[q] /\ copy'[q] = Row(q)
<1> DEFINE before == [useCopy EXCEPT ![r] = FALSE]
           saved == IF Detached(r) = NoResult
                    THEN [use |-> before, copy |-> copy, context |-> Detached(r)]
                    ELSE Called(before, copy)
<1>1. before \in [Results -> BOOLEAN] /\ ~before[r] /\ \A q \in Results \ {r} : before[q] = useCopy[q]
  BY DEF ImageInv, TypeOK
<1>2. /\ useCopy' = saved.use /\ copy' = saved.copy
      /\ \/ /\ context' = r /\ row[r] < Rows[r] /\ row' = [row EXCEPT ![r] = @ + 1]
         \/ /\ context' = saved.context /\ row' = row /\ ended' = [ended EXCEPT ![r] = TRUE]
  BY DEF Advance
<1>3. /\ saved.use \in [Results -> BOOLEAN] /\ saved.copy \in [Results -> Images]
      /\ ~saved.use[r] /\ saved.context = NoResult
      /\ \A q \in Results :
           /\ saved.copy[q] # Other => saved.copy[q].of = q
           /\ ~ended[q] /\ row[q] # 0 /\ q # r => saved.use[q] /\ saved.copy[q] = Row(q)
  <2>1. CASE Detached(r) = NoResult
    <3>1. context \in {r, NoResult}
      BY <2>1 DEF Detached
    <3>2. \A q \in Results \ {r} : ~ended[q] /\ row[q] # 0 => useCopy[q] /\ copy[q] = Row(q)
      BY <3>1, WhereRowsAre, ResultImageAssumption
    <3>3. copy \in [Results -> Images] /\ \A q \in Results : copy[q] # Other => copy[q].of = q
      BY DEF ImageInv, TypeOK
    <3>4. saved = [use |-> before, copy |-> copy, context |-> NoResult]
      BY <2>1
    <3> HIDE DEF saved, before
    <3>5. QED BY <1>1, <3>2, <3>3, <3>4
  <2>2. CASE Detached(r) # NoResult
    <3>1. context # r
      BY <2>2 DEF Detached
    <3>2. saved = Called(before, copy)
      BY <2>2
    <3> HIDE DEF saved, before
    <3>3. QED BY <1>1, <3>1, <3>2, CalledStep, WhereRowsAre
  <2>3. QED BY <2>1, <2>2
<1> HIDE DEF saved
<1>4. QED BY <1>2, <1>3, ResultImageAssumption

LEMMA ImageInit == Init => ImageInv
<1> SUFFICES ASSUME Init PROVE ImageInv
  OBVIOUS
<1>1. TypeOK
  BY ResultImageAssumption DEF Init, TypeOK, Images
<1>2. QED BY <1>1 DEF Init, ImageInv, ReadsOwnRow, CallbackIsLive, Registered

LEMMA ImageStep ==
  ASSUME ClassKind # "no_id", ImageInv, [Next]_vars
  PROVE  ImageInv'
<1>1. TypeOK /\ ReadsOwnRow /\ CallbackIsLive /\ Registered
  BY DEF ImageInv
<1>2. ASSUME NEW r \in Results, Advance(r) PROVE ImageInv'
  <2>1. /\ useCopy' \in [Results -> BOOLEAN] /\ copy' \in [Results -> Images]
        /\ ~useCopy'[r] /\ context' \in {r, NoResult}
        /\ context' = r => row[r] < Rows[r] /\ row' = [row EXCEPT ![r] = @ + 1]
        /\ context' = NoResult => row' = row /\ ended' = [ended EXCEPT ![r] = TRUE]
        /\ \A q \in Results :
             /\ copy'[q] # Other => copy'[q].of = q
             /\ ~ended[q] /\ row[q] # 0 /\ q # r => useCopy'[q] /\ copy'[q] = Row(q)
    BY <1>2, AdvanceStep
  <2>2. /\ row' \in [Results -> Nat] /\ \A q \in Results : row'[q] <= Rows[q]
        /\ \A q \in Results \ {r} : row'[q] = row[q]
    BY <1>1, <2>1, ResultImageAssumption DEF TypeOK
  <2>3. /\ context' = r => ended' = ended /\ image' = [of |-> r, row |-> row[r] + 1]
        /\ image' \in {image, Junk, [of |-> r, row |-> row[r] + 1]}
        /\ ended' \in {ended, [ended EXCEPT ![r] = TRUE]} /\ canLoad' = [canLoad EXCEPT ![r] = TRUE]
    <3>1. context' = r => row' # row
      BY <1>1, <2>1 DEF TypeOK
    <3>2. QED BY <1>2, <3>1 DEF Advance
  <2>4. TypeOK'
    <3>1. [of |-> r, row |-> row[r] + 1] \in Images /\ Junk \in Images
      BY <1>1 DEF TypeOK, Images
    <3>2. image' \in Images
      BY <1>1, <2>3, <3>1 DEF TypeOK
    <3>3. ended' \in [Results -> BOOLEAN] /\ canLoad' \in [Results -> BOOLEAN]
      BY <1>1, <2>3 DEF TypeOK
    <3>4. QED BY <2>1, <2>2, <3>2, <3>3 DEF TypeOK, Images, Other, Junk
  <2>5. \A q \in Results \ {r} : ended'[q] = ended[q] /\ Row(q)' = Row(q)
    BY <1>1, <2>2, <2>3 DEF TypeOK, Row
  <2>6. CASE context' = r
    <3>1. ~ended'[r] /\ image' = Row(r)'
      BY <1>1, <1>2, <2>1, <2>3, <2>6 DEF TypeOK, Advance, Row
    <3>2. QED
      BY <2>1, <2>2, <2>4, <2>5, <2>6, <3>1 DEF ImageInv, ReadsOwnRow, CallbackIsLive,
         Registered,
           Source
  <2>7. CASE context' = NoResult
    <3>1. ended'[r]
      BY <1>1, <2>1, <2>7 DEF TypeOK
    <3>2. QED
      BY <2>1, <2>2, <2>4, <2>5, <2>7, <3>1 DEF ImageInv, ReadsOwnRow, CallbackIsLive,
         Registered,
           Source
  <2>8. QED BY <2>1, <2>6, <2>7
<1>3. ASSUME NEW r \in Results, NEW nested \in BOOLEAN, Load(r, nested) PROVE ImageInv'
  <2>1. canLoad' \in [Results -> BOOLEAN] /\ row' = row /\ ended' = ended
    BY <1>1, <1>3, ResultImageAssumption DEF Load, TypeOK
  <2>2. CASE Overwrite
    BY <2>1, <2>2, OverwriteInv
  <2>3. CASE UNCHANGED <<image, context, useCopy, copy>>
    BY <1>1, <2>1, <2>3 DEF ImageInv, TypeOK, ReadsOwnRow, CallbackIsLive, Registered,
       Source, Row
  <2>4. QED BY <1>3, <2>2, <2>3 DEF Load
<1>4. CASE Execute
  BY <1>1, <1>4, OverwriteInv DEF Execute, TypeOK
<1>5. ASSUME NEW r \in Results, Invalidate(r) PROVE ImageInv'
  <2>1. /\ context' = IF context = r THEN NoResult ELSE context
        /\ copy' = [copy EXCEPT ![r] = Other] /\ ended' = [ended EXCEPT ![r] = TRUE]
        /\ UNCHANGED <<image, row, useCopy, canLoad>>
    BY <1>5 DEF Invalidate, Detached
  <2>2. TypeOK'
    BY <1>1, <2>1 DEF TypeOK, Images
  <2>3. ended'[r] /\ \A q \in Results \ {r} : ended'[q] = ended[q] /\ copy'[q] = copy[q]
    BY <1>1, <2>1 DEF TypeOK
  <2>4. ReadsOwnRow' /\ CallbackIsLive' /\ Registered'
    BY <1>1, <2>1, <2>2, <2>3 DEF TypeOK, ReadsOwnRow, CallbackIsLive, Registered, Source,
       Row
  <2>5. QED BY <2>2, <2>4 DEF ImageInv
<1>6. CASE UNCHANGED vars
  BY <1>1, <1>6 DEF vars, ImageInv, TypeOK, ReadsOwnRow, CallbackIsLive, Registered,
     Source, Row
<1>7. QED BY <1>2, <1>3, <1>4, <1>5, <1>6 DEF Next

------------------------------------------------------------------------------
\* The results of a cached class: the image while the cache is emptied.

\* The results that are left when the cache is emptied were never queried, and have
\* no row to lose.
LEMMA EmptiedInv ==
  ASSUME ImageInv, QueriedFirst, ImageOf(TRUE)
  PROVE  ImageInv'
<1>1. /\ image' = Other /\ context' = NoResult
      /\ ended' = [r \in Results |-> ended[r] \/ use[r] # Unused]
      /\ UNCHANGED <<row, useCopy, copy, canLoad>>
  BY DEF ImageOf
<1>2. \A r \in Results : ended'[r] \/ row[r] = 0
  BY <1>1 DEF QueriedFirst
<1>3. TypeOK'
  BY <1>1 DEF ImageInv, TypeOK, Images
<1>4. QED BY <1>1, <1>2, <1>3 DEF ImageInv, ReadsOwnRow, CallbackIsLive, Registered

LEMMA ImageOfInv ==
  ASSUME ImageInv, QueriedFirst, NEW e \in BOOLEAN, ImageOf(e)
  PROVE  ImageInv' /\ row' = row /\ \A r \in Results : ended[r] => ended'[r]
<1>1. CASE e
  BY <1>1, EmptiedInv DEF ImageOf
<1>2. CASE ~e
  BY <1>2 DEF ImageOf, vars, ImageInv, TypeOK, ReadsOwnRow, CallbackIsLive, Registered,
       Source, Row
<1>3. QED BY <1>1, <1>2

LEMMA CacheImageInit == CacheInit => IInv
BY SetsInit, ImageInit DEF CacheInit, Init, IInv, QueriedFirst

LEMMA CacheImageStep ==
  ASSUME ClassKind # "no_id", IInv, [CacheNext]_cachedVars
  PROVE  IInv'
<1>1. SetsInv' /\ ImageInv /\ QueriedFirst /\ SetsInv
  BY SetsStep DEF IInv
<1>2. /\ row \in [Results -> Nat]
      /\ use \in [Results \cup Views ->
                 [clears : 0..MaxChanges, made : 0..MaxChanges, at : 0..NoSet]]
  BY <1>1 DEF ImageInv, TypeOK, SetsInv, SetsTyped
<1>3. ASSUME NEW r \in Results, Query(r) PROVE IInv'
  <2>1. ImageInv' /\ row' = row /\ \A q \in Results : ended[q] => ended'[q]
    BY <1>1, <1>3, ImageOfInv DEF Query, Expired
  <2>2. row[r] = 0 /\ \A q \in Results \ {r} : use'[q] = use[q]
    BY <1>1, <1>2, <1>3 DEF Query, Refers, QueriedFirst
  <2>3. QED BY <1>1, <2>1, <2>2 DEF QueriedFirst, IInv, Unused
<1>4. ASSUME NEW v \in Views, QueryView(v) PROVE IInv'
  <2>1. \A q \in Results : use'[q] = use[q]
    BY <1>2, <1>4, StatementCacheAssumption DEF QueryView, Refers
  <2>2. QED
    BY <1>1, <1>4, <2>1, ImageStep DEF QueryView, QueriedFirst, IInv, vars, Unused
<1>5. ASSUME NEW r \in Results, Step(r) PROVE IInv'
  <2>1. ImageInv'
    BY <1>1, <1>5, ImageStep DEF Step, Next
  <2>2. /\ use' = use /\ use[r] # Unused
        /\ \A q \in Results \ {r} : row'[q] = row[q] /\ ended'[q] = ended[q]
    <3>1. CASE Advance(r)
      BY <1>1, <1>5, <3>1 DEF Step, Advance, cacheVars, ImageInv, TypeOK
    <3>2. CASE Load(r, TRUE) \/ Load(r, FALSE)
      BY <1>5, <3>2 DEF Step, Load, cacheVars
    <3>3. CASE Invalidate(r)
      BY <1>1, <1>5, <3>3 DEF Step, Invalidate, cacheVars, ImageInv, TypeOK
    <3>4. QED BY <1>5, <3>1, <3>2, <3>3 DEF Step
  <2>3. QED BY <1>1, <2>1, <2>2 DEF QueriedFirst, IInv, Unused
<1>6. CASE Call
  <2>1. ImageInv' /\ row' = row /\ use' = use /\ \A q \in Results : ended[q] => ended'[q]
    <3>1. CASE ImageOf(TRUE)
      BY <1>1, <1>6, <3>1, ImageOfInv DEF Call
    <3>2. CASE Execute \/ UNCHANGED vars
      BY <1>1, <1>6, <3>2, ImageStep DEF Call, Next, Execute, vars
    <3>3. QED BY <1>6, <3>1, <3>2 DEF Call
  <2>2. QED BY <1>1, <2>1 DEF QueriedFirst, IInv, Unused
<1>7. ASSUME NEW r \in Results \cup Views, Destroy(r) PROVE IInv'
  <2>1. \A q \in Results : use'[q] = use[q] \/ ended[q]
    BY <1>2, <1>7 DEF Destroy
  <2>2. QED
    BY <1>1, <1>7, <2>1, ImageStep DEF Destroy, QueriedFirst, IInv, vars, Unused
<1>8. CASE ChangeVersion \/ UNCHANGED cachedVars
  BY <1>1, <1>8, ImageStep DEF ChangeVersion, cachedVars, cacheVars, vars, QueriedFirst,
     IInv,
       Unused
<1>9. QED
  BY <1>3, <1>4, <1>5, <1>6, <1>7, <1>8 DEF CacheNext

LEMMA Invariance ==
  ASSUME ClassKind # "no_id"
  PROVE  CacheSpec => []IInv
BY CacheImageInit, CacheImageStep, PTL DEF CacheSpec

\* The shared image holds no more than the rows of the results, and a result keeps
\* only rows of its own.
THEOREM CacheTypeCorrect == ClassKind # "no_id" => (CacheSpec => []CacheTypeOK)
<1> SUFFICES ASSUME ClassKind # "no_id" PROVE CacheSpec => []CacheTypeOK
  OBVIOUS
<1>1. IInv => CacheTypeOK
  BY StatementCacheAssumption DEF IInv, SetsInv, SetsTyped, ImageInv, CacheTypeOK
<1>2. QED BY <1>1, Invariance, PTL

\* A result that is loaded reads the row it is at, whatever other results and calls
\* did to the image, and whenever the cache was emptied.
THEOREM RowsAreTheirOwn == ClassKind # "no_id" => (CacheSpec => []ReadsOwnRow)
<1> SUFFICES ASSUME ClassKind # "no_id" PROVE CacheSpec => []ReadsOwnRow
  OBVIOUS
<1>1. IInv => ReadsOwnRow
  BY DEF IInv, ImageInv
<1>2. QED BY <1>1, Invariance, PTL

\* The change callback is never left pointing at a result that has ended, was
\* destroyed or has already saved its row.
THEOREM CallbacksAreLive == ClassKind # "no_id" => (CacheSpec => []CallbackIsLive)
<1> SUFFICES ASSUME ClassKind # "no_id" PROVE CacheSpec => []CallbackIsLive
  OBVIOUS
<1>1. IInv => CallbackIsLive
  BY DEF IInv, ImageInv
<1>2. QED BY <1>1, Invariance, PTL
==============================================================================
