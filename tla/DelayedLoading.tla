---------------------------- MODULE DelayedLoading ----------------------------
(****************************************************************************)
(* Loading an object and all that it points to.  The statements of a class  *)
(* share an image, so they are locked while an object is loaded; objects of *)
(* the class that it points to are entered in the session and put off       *)
(* (delay_load), and loaded when the image is free again (load_delayed_).   *)
(* An object of another class, whose statements are not locked, is loaded   *)
(* at once.  post_load callbacks run with the statements of their own class *)
(* unlocked and may load more.  The classes derived from a polymorphic root *)
(* use its lock and its delayed loads, and are one class here.  The C++     *)
(* stack is a sequence of frames, so that an exception unwinds it frame by  *)
(* frame, destructors and all.                                              *)
(****************************************************************************)
EXTENDS Naturals, Sequences, FiniteSets

CONSTANTS Objects,        \* ids of the objects
          ClassOf,        \* the class of each object
          Graphs,         \* bound: the object graphs looked at
          Missing,        \* objects that the database does not have
          MaxThrows,      \* bound: exceptions from the database and callbacks
          MaxCalls        \* bound: calls of find()

ASSUME DelayedLoadingAssumption ==
  /\ Graphs \subseteq [Objects -> SUBSET Objects]
  /\ DOMAIN ClassOf = Objects /\ Missing \subseteq Objects /\ MaxThrows \in Nat /\ MaxCalls \in Nat

NoObject == "none"
Classes == {ClassOf[o] : o \in Objects}

VARIABLES
  points,      \* the objects that each object points to
  stack,       \* find() and load_delayed_() calls, innermost last
  locked,      \* locked_ of each class's statements
  delayed_,    \* their delayed loads; the back of the vector is the last one
  session,     \* objects in the session cache
  loaded,      \* those of them that have been initialised
  posted,      \* those of them whose post_load callback has been called
  throwing,    \* is an exception unwinding the stack?
  throws,      \* exceptions so far
  calls,       \* calls of find() so far
  dangling     \* has an exception ever removed objects from the session?

vars == <<points, stack, locked, delayed_, session, loaded, posted, throwing, throws,
          calls, dangling>>

\* A frame of find() has no vector; one of load_delayed_() has the vector it
\* swapped out, and goes through the phases for each object it takes from it.
Phases == {"next", "read", "init", "delayed", "post", "callback"}
Frame(fn, c, dls) ==
  [fn |-> fn, cls |-> c, obj |-> NoObject, phase |-> "next", todo |-> {}, dls |-> dls]
Finding(o) == [Frame("find", ClassOf[o], <<>>) EXCEPT !.obj = o, !.phase = "read"]
Depth == Len(stack)
Top == stack[Depth]
Below == SubSeq(stack, 1, Depth - 1)
\* A find() that the loading of another object calls, and not the application.
Nested == Depth > 1 /\ stack[Depth - 1].phase = "init"
InCallback == stack # <<>> => Top.phase = "callback"

Members(s) == {s[i] : i \in 1..Len(s)}

TypeOK ==
  /\ points \in Graphs
  /\ \A i \in 1..Depth :
       /\ stack[i].fn \in {"find", "load_delayed"} /\ stack[i].cls \in Classes
       /\ stack[i].phase \in Phases
       /\ stack[i].obj \in Objects \cup {NoObject} /\ stack[i].todo \subseteq Objects
       /\ stack[i].dls \in Seq(Objects)
  /\ locked \in [Classes -> BOOLEAN]
  /\ \A c \in Classes :
       /\ delayed_[c] \in Seq(Objects)
       /\ Members(delayed_[c]) \subseteq {o \in session \ loaded : ClassOf[o] = c}
  /\ session \subseteq Objects /\ loaded \subseteq session /\ posted \subseteq loaded
  /\ throwing \in BOOLEAN /\ throws \in 0..MaxThrows
  /\ calls \in 0..MaxCalls /\ dangling \in BOOLEAN

Init ==
  /\ points \in Graphs
  /\ stack = <<>>
  /\ locked = [c \in Classes |-> FALSE] /\ delayed_ = [c \in Classes |-> <<>>]
  /\ session = {} /\ loaded = {} /\ posted = {}
  /\ throwing = FALSE /\ throws = 0 /\ calls = 0 /\ dangling = FALSE

Set(frame) == stack' = Append(Below, frame)
Lock(c) == locked' = [locked EXCEPT ![c] = TRUE]
Unlock(c) == locked' = [locked EXCEPT ![c] = FALSE]
DelayLoad(o) == delayed_' = [delayed_ EXCEPT ![ClassOf[o]] = Append(@, o)]
DelayedOf(c) == Members(delayed_[c])
ClearDelayed(c) == delayed_' = [delayed_ EXCEPT ![c] = <<>>]
Forget(objs) ==
  /\ session' = session \ objs
  /\ loaded' = loaded \ objs
  /\ posted' = posted \ objs

------------------------------------------------------------------------------
\* find() called by the application or by a callback: an object that is in the
\* session is returned as it is, any other is entered and loaded under the lock.
\* When a call further out has the lock, for a callback of another class, the
\* loading is left to it.
Find(o) ==
  /\ InCallback /\ ~throwing /\ o \notin session /\ calls < MaxCalls
  /\ calls' = calls + 1
  /\ session' = session \cup {o}
  /\ IF locked[ClassOf[o]]
     THEN DelayLoad(o) /\ UNCHANGED <<stack, locked>>
     ELSE Lock(ClassOf[o]) /\ stack' = Append(stack, Finding(o)) /\ UNCHANGED delayed_
  /\ UNCHANGED <<points, loaded, posted, throwing, throws, dangling>>

\* A query's result is dereferenced: the object is loaded from the row that was
\* fetched, by the same steps.  load() asserts that its statements are not locked.
LoadRow(o) ==
  /\ InCallback /\ ~throwing /\ o \notin session \cup Missing /\ calls < MaxCalls
  /\ ~locked[ClassOf[o]]
  /\ calls' = calls + 1
  /\ session' = session \cup {o}
  /\ Lock(ClassOf[o])
  /\ stack' = Append(stack, [Finding(o) EXCEPT !.phase = "init", !.todo = points[o]])
  /\ UNCHANGED <<points, delayed_, loaded, posted, throwing, throws, dangling>>

\* Mutant of TakeDelayed: pop_back() forgotten.
TakeDelayedAgain ==
  /\ ~throwing /\ Depth > 0 /\ Top.phase = "next"
  /\ IF Top.dls = <<>>
     THEN stack' = Below
     ELSE Set([Top EXCEPT !.obj = Top.dls[Len(Top.dls)], !.phase = "read"])
  /\ UNCHANGED <<points, locked, delayed_, session, loaded, posted, throwing, throws,
                 calls, dangling>>

\* load_delayed_(): take the last delayed load, or return (the swap guard gives
\* back the vector, which is empty).
TakeDelayed ==
  /\ ~throwing /\ Depth > 0 /\ Top.phase = "next"
  /\ IF Top.dls = <<>>
     THEN stack' = Below
     ELSE Set([Top EXCEPT !.obj = Top.dls[Len(Top.dls)], !.phase = "read",
                          !.dls = SubSeq(Top.dls, 1, Len(Top.dls) - 1)])
  /\ UNCHANGED <<points, locked, delayed_, session, loaded, posted, throwing, throws,
                 calls, dangling>>

\* find_(): the row is fetched.
Read ==
  /\ ~throwing /\ Depth > 0 /\ Top.phase = "read" /\ Top.obj \notin Missing
  /\ Set([Top EXCEPT !.phase = "init", !.todo = points[Top.obj]])
  /\ UNCHANGED <<points, locked, delayed_, session, loaded, posted, throwing, throws,
                 calls, dangling>>

\* No such row.  find() returns null to the application, and its guard takes the
\* object out of the session; elsewhere object_not_persistent is thrown.
ReadNothing ==
  /\ ~throwing /\ Depth > 0 /\ Top.phase = "read" /\ Top.obj \in Missing
  /\ IF Top.fn = "find" /\ ~Nested
     THEN /\ stack' = Below /\ Unlock(Top.cls)
          /\ Forget({Top.obj})
          /\ UNCHANGED throwing
     ELSE throwing' = TRUE /\ UNCHANGED <<stack, locked, session, loaded, posted>>
  /\ UNCHANGED <<points, delayed_, throws, calls, dangling>>

\* Mutant of InitPointer: the session is not looked at first.
InitPointerAlways(p) ==
  /\ ~throwing /\ Depth > 0 /\ Top.phase = "init" /\ p \in Top.todo
  /\ Set([Top EXCEPT !.todo = @ \ {p}])
  /\ session' = session \cup {p} /\ DelayLoad(p)
  /\ UNCHANGED <<points, locked, loaded, posted, throwing, throws, calls, dangling>>

\* init() and load_() reach a pointer: an object that is not in the session is
\* entered; its loading is delayed if its statements are locked.
InitPointer(p) ==
  LET rest == [Top EXCEPT !.todo = @ \ {p}]
  IN  /\ ~throwing /\ Depth > 0 /\ Top.phase = "init" /\ p \in Top.todo
      /\ session' = session \cup {p}
      /\ IF p \in session THEN Set(rest) /\ UNCHANGED <<locked, delayed_>>
         ELSE IF locked[ClassOf[p]]
         THEN Set(rest) /\ DelayLoad(p) /\ UNCHANGED locked
         ELSE /\ stack' = Append(Append(Below, rest), Finding(p))
              /\ Lock(ClassOf[p])
              /\ UNCHANGED delayed_
      /\ UNCHANGED <<points, loaded, posted, throwing, throws, calls, dangling>>

InitDone ==
  /\ ~throwing /\ Depth > 0 /\ Top.phase = "init" /\ Top.todo = {}
  /\ loaded' = loaded \cup {Top.obj}
  /\ Set([Top EXCEPT !.phase = "delayed"])
  /\ UNCHANGED <<points, locked, delayed_, session, posted, throwing, throws, calls, dangling>>

\* Mutant of LoadDelayed: the delayed loads are left to the caller's loop.
LoadDelayedLater ==
  /\ ~throwing /\ Depth > 0 /\ Top.phase = "delayed"
  /\ IF delayed_[Top.cls] = <<>> \/ Top.fn = "load_delayed"
     THEN Set([Top EXCEPT !.phase = "post"]) /\ UNCHANGED delayed_
     ELSE /\ stack' = Append(Append(Below, [Top EXCEPT !.phase = "post"]),
                             Frame("load_delayed", Top.cls, delayed_[Top.cls]))
          /\ ClearDelayed(Top.cls)
  /\ UNCHANGED <<points, locked, session, loaded, posted, throwing, throws, calls, dangling>>

\* What init() and load_() delayed is loaded before the callback is called: the
\* vector is swapped into a frame of its own.
LoadDelayed ==
  /\ ~throwing /\ Depth > 0 /\ Top.phase = "delayed"
  /\ IF delayed_[Top.cls] = <<>>
     THEN Set([Top EXCEPT !.phase = "post"]) /\ UNCHANGED delayed_
     ELSE /\ stack' = Append(Append(Below, [Top EXCEPT !.phase = "post"]),
                             Frame("load_delayed", Top.cls, delayed_[Top.cls]))
          /\ ClearDelayed(Top.cls)
  /\ UNCHANGED <<points, locked, session, loaded, posted, throwing, throws, calls, dangling>>

\* l.unlock(), or auto_unlock, and the post_load callback.
PostLoad ==
  /\ ~throwing /\ Depth > 0 /\ Top.phase = "post"
  /\ Unlock(Top.cls)
  /\ posted' = posted \cup {Top.obj}
  /\ Set([Top EXCEPT !.phase = "callback"])
  /\ UNCHANGED <<points, delayed_, session, loaded, throwing, throws, calls, dangling>>

\* The callback returns: find() does too, load_delayed_() locks again.
Return ==
  /\ ~throwing /\ Depth > 0 /\ Top.phase = "callback"
  /\ IF Top.fn = "find"
     THEN stack' = Below /\ UNCHANGED locked
     ELSE /\ Lock(Top.cls)
          /\ Set([Top EXCEPT !.obj = NoObject, !.phase = "next"])
  /\ UNCHANGED <<points, delayed_, session, loaded, posted, throwing, throws, calls, dangling>>

------------------------------------------------------------------------------
\* Exceptions: from ODBC calls, from the callbacks, from object_not_persistent.

Throw ==
  /\ ~throwing /\ Depth > 0 /\ Top.phase \in {"read", "init", "callback"}
  /\ throws < MaxThrows
  /\ throws' = throws + 1
  /\ throwing' = TRUE
  /\ UNCHANGED <<points, stack, locked, delayed_, session, loaded, posted, calls, dangling>>

\* Mutant of UnwindLoadDelayed: no swap guard, what is left of the vector is lost.
UnwindLoadDelayedUnguarded ==
  /\ throwing /\ Depth > 0 /\ Top.fn = "load_delayed"
  /\ stack' = Below
  /\ Lock(Top.cls)
  /\ Forget({Top.obj} \cup DelayedOf(Top.cls))
  /\ ClearDelayed(Top.cls)
  /\ dangling' = TRUE
  /\ UNCHANGED <<points, throwing, throws, calls>>

\* The destructors of load_delayed_(): auto_unlock locks again; the guard takes
\* the current object out of the session; the swap guard those that were delayed
\* meanwhile, and puts what is left of its vector back for the caller to clear.
UnwindLoadDelayed ==
  /\ throwing /\ Depth > 0 /\ Top.fn = "load_delayed"
  /\ stack' = Below
  /\ Lock(Top.cls)
  /\ Forget({Top.obj} \cup DelayedOf(Top.cls))
  /\ delayed_' = [delayed_ EXCEPT ![Top.cls] = Top.dls]
  /\ dangling' = TRUE
  /\ UNCHANGED <<points, throwing, throws, calls>>

\* Mutant of UnwindFind: auto_lock unlocks and does not clear.
UnwindFindUncleared ==
  /\ throwing /\ Depth > 0 /\ Top.fn = "find"
  /\ stack' = Below
  /\ Unlock(Top.cls)
  /\ Forget({Top.obj})
  /\ dangling' = TRUE
  /\ UNCHANGED <<points, delayed_, throwing, throws, calls>>

\* Those of find(): auto_lock, unless it was unlocked for the callback, unlocks
\* and clears the delayed loads; the guard takes the object out of the session.
UnwindFind ==
  /\ throwing /\ Depth > 0 /\ Top.fn = "find"
  /\ stack' = Below
  /\ Unlock(Top.cls)
  /\ IF Top.phase = "callback"
     THEN Forget({Top.obj}) /\ UNCHANGED delayed_
     ELSE Forget({Top.obj} \cup DelayedOf(Top.cls)) /\ ClearDelayed(Top.cls)
  /\ dangling' = TRUE
  /\ UNCHANGED <<points, throwing, throws, calls>>

\* The application, or a callback that called find(), catches the exception.
Catch ==
  /\ throwing /\ InCallback
  /\ throwing' = FALSE
  /\ UNCHANGED <<points, stack, locked, delayed_, session, loaded, posted, throws,
                 calls, dangling>>

Step ==
  \/ TakeDelayed \/ Read \/ ReadNothing \/ InitDone \/ LoadDelayed \/ PostLoad \/ Return
  \/ \E p \in Objects : InitPointer(p)
  \/ UnwindLoadDelayed \/ UnwindFind

Next == Step \/ Throw \/ Catch \/ \E o \in Objects : Find(o) \/ LoadRow(o)

Spec == Init /\ [][Next]_vars

\* A call that has begun goes on; exceptions and further calls need not happen.
FairSpec == Spec /\ WF_vars(Step) /\ WF_vars(Catch)

------------------------------------------------------------------------------
\* Properties

\* What the lock is for: one object at a time is initialised from a class's image.
\* It is held exactly while the innermost call of the class is not in a callback,
\* so no assertion of lock(), unlock() or load_delayed() fails; and "the delayed_
\* list is clear before the unlock", after any exception too, so that no call
\* loads or forgets what another one has delayed.
FramesOf(c) == {i \in 1..Depth : stack[i].cls = c}
Innermost(c) == CHOOSE i \in FramesOf(c) : \A k \in FramesOf(c) : k <= i
LockGuardsTheImage ==
  \A c \in Classes :
    /\ Cardinality({i \in FramesOf(c) : stack[i].phase = "init"}) <= 1
    /\ locked[c] <=> FramesOf(c) # {} /\ stack[Innermost(c)].phase # "callback"
    /\ ~locked[c] => delayed_[c] = <<>>

\* Whatever was thrown where, once the outermost call is over the session holds
\* only objects that were loaded and had their callback.
SessionIsSound == (stack = <<>> /\ ~throwing) => session = posted

\* When an object's callback is called, all that its loading delayed has been
\* loaded: what it points to is loaded or has been put off by an outer call that
\* is still loading, so that the outermost call returns with everything loaded.
PutOff ==
  UNION ({Members(stack[i].dls) \cup {stack[i].obj} : i \in 1..Depth}
         \cup {DelayedOf(c) : c \in {d \in Classes : locked[d]}})
CallbackSeesPointees ==
  (~dangling /\ Depth > 0 /\ Top.phase = "callback") =>
    points[Top.obj] \subseteq loaded \cup PutOff

\* Every call ends, whatever cycles the objects form.
CallsEnd == (stack # <<>>) ~> (stack = <<>>)
==============================================================================
