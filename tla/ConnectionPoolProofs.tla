------------------------ MODULE ConnectionPoolProofs ------------------------
(****************************************************************************)
(* The safety of the connection pool for every set of threads, every max_   *)
(* and min_ and every number of failures of create(): the inductive         *)
(* invariant IInv, what follows from it, and the refinement of Leasing.     *)
(****************************************************************************)
EXTENDS ConnectionPool, FiniteSetTheorems, SequenceTheorems, TLAPS

------------------------------------------------------------------------------
\* Lemmas about vectors without duplicates and about counting.

Elems(s) == {s[i] : i \in 1..Len(s)}
NoDup(s) == \A i, j \in 1..Len(s) : s[i] = s[j] => i = j

\* push_back() of a new element.
LEMMA PushBack ==
  ASSUME NEW S, NEW s \in Seq(S), NEW c \in S \ Elems(s), NoDup(s)
  PROVE  /\ Append(s, c) \in Seq(S)
         /\ Len(Append(s, c)) = Len(s) + 1
         /\ NoDup(Append(s, c))
         /\ Elems(Append(s, c)) = Elems(s) \cup {c}
<1>1. Append(s, c) \in Seq(S) /\ Len(Append(s, c)) = Len(s) + 1
  OBVIOUS
<1>2. /\ \A i \in 1..Len(s) : Append(s, c)[i] = s[i]
      /\ Append(s, c)[Len(s) + 1] = c
  OBVIOUS
<1>3. Len(s) \in Nat /\ 1..(Len(s) + 1) = 1..Len(s) \cup {Len(s) + 1}
  BY LenProperties
<1>4. \A i \in 1..Len(s) : Append(s, c)[i] # c
  BY <1>2 DEF Elems
<1>5. NoDup(Append(s, c))
  <2> SUFFICES ASSUME NEW i \in 1..(Len(s) + 1), NEW j \in 1..(Len(s) + 1),
                      Append(s, c)[i] = Append(s, c)[j]
               PROVE  i = j
    BY <1>1 DEF NoDup
  <2>1. CASE i \in 1..Len(s) /\ j \in 1..Len(s)
    BY <2>1, <1>2 DEF NoDup
  <2>2. CASE ~(i \in 1..Len(s) /\ j \in 1..Len(s))
    BY <2>2, <1>2, <1>3, <1>4
  <2>3. QED BY <2>1, <2>2
<1>6. Elems(Append(s, c)) = Elems(s) \cup {c}
  BY <1>1, <1>2, <1>3 DEF Elems
<1>7. QED BY <1>1, <1>5, <1>6

\* pop_back() of the last element.
LEMMA PopBack ==
  ASSUME NEW S, NEW s \in Seq(S), s # <<>>, NoDup(s)
  PROVE  /\ SubSeq(s, 1, Len(s) - 1) \in Seq(S)
         /\ Len(SubSeq(s, 1, Len(s) - 1)) = Len(s) - 1
         /\ NoDup(SubSeq(s, 1, Len(s) - 1))
         /\ s[Len(s)] \in Elems(s) \cap S
         /\ Elems(SubSeq(s, 1, Len(s) - 1)) = Elems(s) \ {s[Len(s)]}
<1> DEFINE n == Len(s)
           r == SubSeq(s, 1, n - 1)
<1>1. n \in Nat /\ n > 0 /\ \A i \in 1..n : s[i] \in S
  BY EmptySeq, LenProperties
<1>2. r \in Seq(S) /\ Len(r) = n - 1 /\ \A i \in 1..(n - 1) : r[i] = s[i]
  <2>1. \A i \in 1..(n - 1) : s[i] \in S
    BY <1>1
  <2>2. /\ r \in Seq(S)
        /\ Len(r) = IF 1 <= n - 1 THEN n - 1 - 1 + 1 ELSE 0
        /\ \A i \in 1..(n - 1 - 1 + 1) : r[i] = s[1 + i - 1]
    <3> HIDE DEF n
    <3> QED BY <1>1, <2>1, SubSeqProperties
  <2>3. QED
    <3> HIDE DEF n, r
    <3> QED BY <1>1, <2>2
<1>3. NoDup(r)
  BY <1>1, <1>2 DEF NoDup
<1>4. s[n] \in Elems(s) \cap S
  BY <1>1 DEF Elems
<1>5. Elems(r) = Elems(s) \ {s[n]}
  <2>1. ASSUME NEW i \in 1..n, s[i] # s[n] PROVE i \in 1..(n - 1)
    BY <2>1, <1>1
  <2>2. ASSUME NEW i \in 1..(n - 1) PROVE i \in 1..n /\ s[i] # s[n]
    BY <1>1 DEF NoDup
  <2>3. QED BY <1>2, <2>1, <2>2 DEF Elems
<1>6. QED BY <1>2, <1>3, <1>4, <1>5

\* in_use_ and waiters_ follow the sets they count.
LEMMA Counting ==
  ASSUME NEW S, IsFiniteSet(S), NEW T \in SUBSET S, NEW x
  PROVE  /\ Cardinality(T) \in Nat
         /\ x \in T => Cardinality(T) > 0 /\ Cardinality(T \ {x}) = Cardinality(T) - 1
         /\ x \notin T => Cardinality(T \cup {x}) = Cardinality(T) + 1
<1>1. IsFiniteSet(T)
  BY FS_Subset
<1>2. Cardinality(T) \in Nat /\ (Cardinality(T) = 0 <=> T = {})
  BY <1>1, FS_CardinalityType, FS_EmptySet
<1>3. x \in T => Cardinality(T \ {x}) = Cardinality(T) - 1 /\ T # {}
  BY <1>1, FS_RemoveElement
<1>4. x \notin T => Cardinality(T \cup {x}) = Cardinality(T) + 1
  BY <1>1, FS_AddElement
<1>5. QED
  BY <1>2, <1>3, <1>4

LEMMA FiniteProcs ==
  /\ IsFiniteSet(Procs)
  /\ Holders \subseteq Threads /\ Waiters \subseteq Procs
  /\ Holders' \subseteq Threads /\ Waiters' \subseteq Procs
  /\ IsFiniteSet(Threads)
BY PoolAssumption, FS_AddElement DEF Procs, Holders, Waiters

------------------------------------------------------------------------------
\* IInv is inductive.

LEMMA InitInv == Init => IInv
<1> SUFFICES ASSUME Init PROVE IInv
  OBVIOUS
<1>1. Holders = {} /\ Busy = {} /\ Waiters = {} /\ Idle = {}
  BY PoolAssumption DEF Init, Holders, Busy, Waiters, Idle, Procs
<1>2. TypeOK
  BY PoolAssumption DEF Init, TypeOK, Procs, ThreadPC, OwnerPC
<1>3. OneOwner
  BY <1>1, FS_EmptySet DEF Init, OneOwner
<1>4. WaitersCounted /\ FailedHeld
  BY <1>1, FS_EmptySet DEF Init, WaitersCounted, FailedHeld
<1>5. Capacity
  BY PoolAssumption DEF Init, Capacity
<1>6. Phases
  BY PoolAssumption DEF Init, Phases, Procs
<1>7. QED BY <1>2, <1>3, <1>4, <1>5, <1>6 DEF IInv

\* What handing out a connection no one is using does to the threads.
LEMMA HandOutStep ==
  ASSUME IInv, NEW t \in Threads, pc[t] \in {"idle", "woken"},
         NEW c \in Conns, c \notin {conn[u] : u \in Busy}, HandOut(t, c)
  PROVE  /\ pc' \in [Procs -> ThreadPC \cup OwnerPC]
         /\ \A u \in Threads : pc'[u] \in ThreadPC
         /\ pc'[Owner] = pc[Owner]
         /\ conn' \in [Threads -> Conns \cup {NoConn}]
         /\ in_use_' \in Nat /\ in_use_' = in_use_ + 1
         /\ in_use_' = Cardinality(Holders')
         /\ Busy' = Busy \cup {t} /\ t \notin Busy
         /\ conn'[t] = c /\ \A u \in Busy : conn'[u] = conn[u]
         /\ \A u, v \in Busy' : u # v => conn'[u] # conn'[v]
         /\ Waiters' = Waiters \ {t}
<1> USE DEF HandOut
<1>1. TypeOK /\ OneOwner
  BY DEF IInv
<1>2. /\ pc' \in [Procs -> ThreadPC \cup OwnerPC]
      /\ \A u \in Threads : pc'[u] \in ThreadPC
      /\ pc'[Owner] = pc[Owner]
      /\ conn' \in [Threads -> Conns \cup {NoConn}]
  BY <1>1, PoolAssumption DEF TypeOK, ThreadPC, OwnerPC, Procs
<1>3. Holders' = Holders \cup {t} /\ t \notin Holders
  BY <1>1 DEF TypeOK, Holders, Procs
<1>4. in_use_' = in_use_ + 1 /\ in_use_' \in Nat
  BY <1>1 DEF TypeOK
<1>5. in_use_' = Cardinality(Holders')
  BY <1>1, <1>3, <1>4, FiniteProcs, Counting DEF OneOwner
<1>6. Busy' = Busy \cup {t} /\ t \notin Busy
  BY <1>1 DEF TypeOK, Busy, Procs
<1>7. conn'[t] = c /\ \A u \in Busy : conn'[u] = conn[u]
  BY <1>1, <1>6 DEF TypeOK, Busy
<1>8. \A u, v \in Busy' : u # v => conn'[u] # conn'[v]
  BY <1>1, <1>6, <1>7 DEF OneOwner
<1>9. Waiters' = Waiters \ {t}
  BY <1>1 DEF TypeOK, Waiters, Procs
<1>10. QED
  BY <1>2, <1>4, <1>5, <1>6, <1>7, <1>8, <1>9

\* One turn of connect()'s loop keeps the invariant.
LEMMA AttemptInv ==
  ASSUME IInv, NEW t \in Threads, pc[t] \in {"idle", "woken"},
         pc[Owner] = "serving", NEW w \in Nat, w = Cardinality(Waiters \ {t}),
         Attempt(t, w)
  PROVE  IInv'
<1>1. TypeOK /\ OneOwner /\ WaitersCounted /\ Capacity /\ FailedHeld /\ Phases
  BY DEF IInv
<1>2. ASSUME NEW c \in Conns, c \notin {conn[u] : u \in Busy}, HandOut(t, c),
             waiters_' = w, UNCHANGED <<failed, createFailures>>,
             connections_' \in Seq(Conns), NoDup(connections_'),
             Elems(connections_') = Idle \ {c},
             MaxConn # 0 => Len(connections_') + in_use_ < MaxConn
      PROVE  IInv'
  <2>1. TypeOK'
    BY <1>1, <1>2, HandOutStep DEF TypeOK
  <2>2. Idle' = Idle \ {c}
    BY <1>2 DEF Idle, Elems
  <2>3. OneOwner'
    <3>1. \A u \in Busy' : conn'[u] \in Conns \ Idle'
      BY <1>1, <1>2, <2>2, HandOutStep DEF OneOwner
    <3>2. QED
      BY <1>2, <3>1, HandOutStep DEF OneOwner, NoDup
  <2>4. WaitersCounted'
    BY <1>2, HandOutStep DEF WaitersCounted
  <2>5. Capacity'
    <3>1. Len(connections_') \in Nat
      BY <1>2, LenProperties
    <3>2. in_use_' = in_use_ + 1 /\ in_use_ \in Nat /\ MaxConn \in Nat
      BY <1>1, <1>2, HandOutStep, PoolAssumption DEF TypeOK
    <3>3. MaxConn # 0 => Len(connections_') + in_use_ < MaxConn
      BY <1>2
    <3>4. QED
      BY <3>1, <3>2, <3>3 DEF Capacity
  <2>6. FailedHeld'
    BY <1>1, <1>2, HandOutStep DEF FailedHeld
  <2>7. Phases'
    BY <1>2, HandOutStep DEF Phases
  <2>8. QED BY <2>1, <2>3, <2>4, <2>5, <2>6, <2>7 DEF IInv
<1>3. CASE /\ connections_ # <<>>
           /\ HandOut(t, connections_[Len(connections_)])
           /\ connections_' = SubSeq(connections_, 1, Len(connections_) - 1)
           /\ waiters_' = w
           /\ UNCHANGED <<failed, createFailures>>
  <2> DEFINE c == connections_[Len(connections_)]
  <2>1. NoDup(connections_) /\ Idle = Elems(connections_) /\ connections_ \in Seq(Conns)
    BY <1>1 DEF OneOwner, NoDup, Idle, Elems, TypeOK
  <2>2. /\ connections_' \in Seq(Conns) /\ NoDup(connections_')
        /\ Len(connections_') = Len(connections_) - 1
        /\ c \in Idle \cap Conns /\ Elems(connections_') = Idle \ {c}
    BY <1>3, <2>1, PopBack
  <2>3. c \notin {conn[u] : u \in Busy}
    BY <1>1, <2>2 DEF OneOwner
  <2>4. MaxConn # 0 => Len(connections_') + in_use_ < MaxConn
    <3>1. Len(connections_) \in Nat
      BY <2>1, LenProperties
    <3>2. QED
      BY <1>1, <2>2, <3>1, PoolAssumption DEF Capacity, TypeOK
  <2>5. QED
    <3> HIDE DEF c
    <3>1. HandOut(t, c) /\ waiters_' = w /\ UNCHANGED <<failed, createFailures>>
      BY <1>3 DEF c
    <3>2. QED BY <1>2, <2>2, <2>3, <2>4, <3>1
<1>4. CASE /\ connections_ = <<>> /\ HasRoom
           /\ \E c \in Conns : c \notin Live
           /\ HandOut(t, Fresh)
           /\ waiters_' = w
           /\ UNCHANGED <<connections_, failed, createFailures>>
  <2>1. Fresh \in Conns /\ Fresh \notin Live
    BY <1>4 DEF Fresh
  <2>2. Fresh \notin {conn[u] : u \in Busy} /\ Fresh \notin Idle
    BY <2>1 DEF Live
  <2>3. /\ connections_' = connections_ /\ connections_' \in Seq(Conns)
        /\ NoDup(connections_') /\ Elems(connections_') = Idle \ {Fresh}
    BY <1>1, <1>4, <2>2 DEF TypeOK, OneOwner, NoDup, Elems, Idle
  <2>4. MaxConn # 0 => Len(connections_') + in_use_ < MaxConn
    BY <1>1, <1>4, <2>3, PoolAssumption DEF HasRoom, TypeOK
  <2>5. QED
    BY <1>2, <1>4, <2>1, <2>2, <2>3, <2>4
<1>5. CASE /\ connections_ = <<>>
           /\ pc' \in {[pc EXCEPT ![t] = "idle"], [pc EXCEPT ![t] = "waiting"]}
           /\ waiters_' = IF pc'[t] = "idle" THEN w ELSE w + 1
           /\ createFailures' \in 0..MaxCreateFailures
           /\ UNCHANGED <<conn, connections_, in_use_, failed>>
  <2>1. TypeOK'
    BY <1>1, <1>5, PoolAssumption DEF TypeOK, Procs, ThreadPC, OwnerPC
  <2>2. Holders' = Holders /\ Busy' = Busy /\ Idle' = Idle
    BY <1>1, <1>5 DEF TypeOK, Holders, Busy, Idle, Procs
  <2>3. OneOwner' /\ FailedHeld'
    BY <1>1, <1>5, <2>2 DEF OneOwner, FailedHeld
  <2>4. WaitersCounted'
    <3>1. CASE pc' = [pc EXCEPT ![t] = "idle"]
      <4>1. Waiters' = Waiters \ {t} /\ pc'[t] = "idle"
        BY <1>1, <3>1 DEF TypeOK, Waiters, Procs
      <4>2. QED BY <1>5, <4>1 DEF WaitersCounted
    <3>2. CASE pc' = [pc EXCEPT ![t] = "waiting"]
      <4>1. Waiters' = (Waiters \ {t}) \cup {t} /\ pc'[t] = "waiting"
        BY <1>1, <3>2 DEF TypeOK, Waiters, Procs
      <4>2. Cardinality((Waiters \ {t}) \cup {t}) = Cardinality(Waiters \ {t}) + 1
        BY FiniteProcs, Counting
      <4>3. QED BY <1>5, <4>1, <4>2 DEF WaitersCounted
    <3>3. QED BY <1>5, <3>1, <3>2
  <2>5. Capacity'
    BY <1>1, <1>5 DEF Capacity
  <2>6. Phases'
    BY <1>1, <1>5, PoolAssumption DEF Phases, TypeOK, Procs
  <2>7. QED BY <2>1, <2>3, <2>4, <2>5, <2>6 DEF IInv
<1>6. QED
  <2>1. pc[t] # "holding" /\ createFailures \in 0..MaxCreateFailures /\ t \in Procs
        /\ pc \in [Procs -> ThreadPC \cup OwnerPC]
    BY <1>1 DEF TypeOK, Procs
  <2>2. CASE /\ connections_ = <<>> /\ HasRoom
             /\ createFailures < MaxCreateFailures
             /\ createFailures' = createFailures + 1
             /\ pc' = [pc EXCEPT ![t] = "idle"]
             /\ waiters_' = w
             /\ UNCHANGED <<conn, connections_, in_use_, failed>>
    <3>1. pc'[t] = "idle" /\ createFailures' \in 0..MaxCreateFailures
      BY <2>1, <2>2, PoolAssumption
    <3>2. QED BY <1>5, <2>2, <3>1
  <2>3. CASE /\ connections_ = <<>> /\ ~HasRoom
             /\ pc' = [pc EXCEPT ![t] = "waiting"]
             /\ waiters_' = w + 1
             /\ UNCHANGED <<conn, connections_, in_use_, failed, createFailures>>
    <3>1. pc'[t] = "waiting"
      BY <2>1, <2>3
    <3>2. QED BY <1>5, <2>1, <2>3, <3>1
  <2>4. QED BY <1>3, <1>4, <2>2, <2>3 DEF Attempt

\* The positions after a release: t leaves, and at most one blocked process is
\* woken; when the counter says someone waits and someone is blocked, one is.
LEMMA SignalStep ==
  ASSUME IInv, NEW t \in Threads, pc[t] = "holding", NEW keep \in BOOLEAN,
         pc' \in Signalled(t, keep)
  PROVE  /\ pc' \in [Procs -> ThreadPC \cup OwnerPC]
         /\ pc'[t] = IF keep THEN "idle" ELSE "deleting"
         /\ \A u \in Procs \ {t} :
              pc'[u] = pc[u] \/ (pc[u] = "waiting" /\ pc'[u] = "woken")
         /\ Blocked # {} => \E p \in Blocked : pc'[p] = "woken"
         /\ Waiters' = Waiters
<1> DEFINE f == [pc EXCEPT ![t] = IF keep THEN "idle" ELSE "deleting"]
<1>1. TypeOK /\ WaitersCounted /\ t \in Procs
  BY DEF IInv, Procs
<1>2. f \in [Procs -> ThreadPC \cup OwnerPC]
  BY <1>1 DEF TypeOK, ThreadPC
<1>3. pc' = f \/ \E p \in Blocked : pc' = [f EXCEPT ![p] = "woken"]
  BY DEF Signalled, Signal
<1>4. Blocked # {} => \E p \in Blocked : pc' = [f EXCEPT ![p] = "woken"]
  <2>1. ASSUME NEW p \in Blocked PROVE waiters_ # 0
    <3>1. p \in Waiters
      BY DEF Blocked, Waiters
    <3>2. Cardinality(Waiters) > 0 /\ Cardinality(Waiters) \in Nat
      BY <3>1, FiniteProcs, Counting
    <3>3. QED
      BY <1>1, <3>2 DEF WaitersCounted
  <2>2. QED BY <2>1 DEF Signalled, Signal
<1>5. CASE pc' = f
  <2>1. Waiters' = Waiters
    BY <1>1, <1>2, <1>5 DEF Waiters, TypeOK
  <2>2. Blocked = {}
    BY <1>1, <1>2, <1>4, <1>5 DEF Blocked, TypeOK
  <2>3. QED BY <1>1, <1>2, <1>5, <2>1, <2>2 DEF TypeOK
<1>6. ASSUME NEW p \in Blocked, pc' = [f EXCEPT ![p] = "woken"]
      PROVE  /\ pc' \in [Procs -> ThreadPC \cup OwnerPC]
             /\ pc'[t] = IF keep THEN "idle" ELSE "deleting"
             /\ \A u \in Procs \ {t} :
                  pc'[u] = pc[u] \/ (pc[u] = "waiting" /\ pc'[u] = "woken")
             /\ \E q \in Blocked : pc'[q] = "woken"
             /\ Waiters' = Waiters
  <2>1. p \in Procs /\ p # t /\ pc[p] = "waiting"
    BY DEF Blocked
  <2>2. pc' \in [Procs -> ThreadPC \cup OwnerPC]
    BY <1>2, <1>6 DEF ThreadPC
  <2>3. pc'[p] = "woken" /\ pc'[t] = (IF keep THEN "idle" ELSE "deleting")
    BY <1>1, <1>2, <1>6, <2>1 DEF TypeOK
  <2>4. \A u \in Procs \ {t, p} : pc'[u] = pc[u]
    BY <1>1, <1>2, <1>6 DEF TypeOK
  <2>5. Waiters' = Waiters
    BY <2>1, <2>3, <2>4, <1>1 DEF Waiters
  <2>6. QED BY <2>1, <2>2, <2>3, <2>4, <2>5
<1>7. QED BY <1>3, <1>5, <1>6

LEMMA ReleaseInv == ASSUME IInv, NEW t \in Threads, Release(t) PROVE IInv'
<1> DEFINE c == conn[t]
           keep == Keep(c)
<1>1. TypeOK /\ OneOwner /\ WaitersCounted /\ Capacity /\ FailedHeld /\ Phases
  BY DEF IInv
<1>2. /\ pc[t] = "holding" /\ keep \in BOOLEAN /\ pc' \in Signalled(t, keep)
      /\ connections_' = IF keep THEN Append(connections_, c) ELSE connections_
      /\ conn' = [conn EXCEPT ![t] = IF keep THEN NoConn ELSE @]
      /\ in_use_' = in_use_ - 1
      /\ UNCHANGED <<waiters_, failed, createFailures>>
  BY DEF Release, Keep, Pooled
<1> HIDE DEF keep
<1>3. /\ pc' \in [Procs -> ThreadPC \cup OwnerPC]
      /\ pc'[t] = IF keep THEN "idle" ELSE "deleting"
      /\ \A u \in Procs \ {t} :
           pc'[u] = pc[u] \/ (pc[u] = "waiting" /\ pc'[u] = "woken")
      /\ Waiters' = Waiters
  BY <1>2, SignalStep
<1>4. t \in Holders /\ t \in Busy /\ t \in Procs /\ Owner \in Procs /\ Threads \subseteq Procs
  BY <1>2 DEF Holders, Busy, Procs
<1>5. Holders' = Holders \ {t}
  BY <1>3, <1>4 DEF Holders
<1>6. in_use_' \in Nat /\ in_use_' = Cardinality(Holders')
  <2>1. /\ Cardinality(Holders) \in Nat /\ Cardinality(Holders) > 0
        /\ Cardinality(Holders \ {t}) = Cardinality(Holders) - 1
    BY <1>4, FiniteProcs, Counting
  <2>2. QED BY <1>1, <1>2, <1>5, <2>1 DEF OneOwner
<1>7. Busy' = IF keep THEN Busy \ {t} ELSE Busy
  BY <1>3, <1>4 DEF Busy
<1>8. c \in Conns \ Idle
  BY <1>1, <1>4 DEF OneOwner
<1>9. NoDup(connections_) /\ Idle = Elems(connections_) /\ connections_ \in Seq(Conns)
  BY <1>1 DEF OneOwner, NoDup, Idle, Elems, TypeOK
<1>10. /\ connections_' \in Seq(Conns) /\ NoDup(connections_')
       /\ Idle' = IF keep THEN Idle \cup {c} ELSE Idle
       /\ Len(connections_') = IF keep THEN Len(connections_) + 1 ELSE Len(connections_)
  <2>1. Idle' = Elems(connections_')
    BY DEF Idle, Elems
  <2>2. CASE keep
    BY <1>2, <1>8, <1>9, <2>1, <2>2, PushBack
  <2>3. CASE ~keep
    BY <1>2, <1>9, <2>1, <2>3
  <2>4. QED BY <2>2, <2>3
<1>11. /\ conn' \in [Threads -> Conns \cup {NoConn}]
       /\ \A u \in Threads \ {t} : conn'[u] = conn[u]
       /\ ~keep => conn' = conn
  BY <1>1, <1>2 DEF TypeOK
<1>12. TypeOK'
  <2>1. \A u \in Threads : pc'[u] \in ThreadPC
    BY <1>1, <1>3, <1>4 DEF TypeOK, ThreadPC
  <2>2. pc'[Owner] \in OwnerPC
    BY <1>1, <1>3, <1>4, PoolAssumption DEF TypeOK, OwnerPC
  <2>3. QED
    BY <1>1, <1>2, <1>3, <1>6, <1>10, <1>11, <2>1, <2>2 DEF TypeOK
<1>13. OneOwner'
  <2>1. \A u, v \in Busy' : u # v => conn'[u] # conn'[v]
    BY <1>1, <1>7, <1>11 DEF OneOwner, Busy
  <2>2. \A u \in Busy' : conn'[u] \in Conns \ Idle'
    BY <1>1, <1>4, <1>7, <1>10, <1>11 DEF OneOwner, Busy
  <2>3. QED
    BY <1>6, <1>10, <2>1, <2>2 DEF OneOwner, NoDup
<1>14. WaitersCounted'
  BY <1>1, <1>2, <1>3 DEF WaitersCounted
<1>15. Capacity'
  <2>1. Len(connections_) \in Nat /\ in_use_ \in Nat /\ MaxConn \in Nat
    BY <1>1, <1>9, LenProperties, PoolAssumption DEF TypeOK
  <2>2. QED
    BY <1>1, <1>2, <1>10, <2>1 DEF Capacity
<1>16. FailedHeld'
  <2>1. keep => c \notin failed
    BY DEF Keep, keep
  <2>2. QED
    BY <1>1, <1>2, <1>7, <1>11, <2>1 DEF FailedHeld, Busy
<1>17. Phases'
  BY <1>1, <1>3, <1>4, <1>2, PoolAssumption DEF Phases
<1>18. QED
  BY <1>12, <1>13, <1>14, <1>15, <1>16, <1>17 DEF IInv

LEMMA DeleteInv == ASSUME IInv, NEW t \in Threads, Delete(t) PROVE IInv'
<1>1. TypeOK /\ OneOwner /\ WaitersCounted /\ Capacity /\ FailedHeld /\ Phases
  BY DEF IInv
<1>2. /\ pc[t] = "deleting" /\ pc' = [pc EXCEPT ![t] = "idle"]
      /\ conn' = [conn EXCEPT ![t] = NoConn] /\ failed' = failed \ {conn[t]}
      /\ UNCHANGED <<connections_, in_use_, waiters_, createFailures>>
  BY DEF Delete
<1>3. t \in Procs /\ t # Owner /\ Owner \in Procs /\ Threads \subseteq Procs
  BY PoolAssumption DEF Procs
<1>4. /\ pc' \in [Procs -> ThreadPC \cup OwnerPC] /\ pc'[t] = "idle"
      /\ \A p \in Procs \ {t} : pc'[p] = pc[p]
      /\ conn' \in [Threads -> Conns \cup {NoConn}]
      /\ \A u \in Threads \ {t} : conn'[u] = conn[u]
  BY <1>1, <1>2, <1>3 DEF TypeOK, ThreadPC
<1>5. TypeOK'
  BY <1>1, <1>2, <1>3, <1>4 DEF TypeOK, ThreadPC
<1>6. /\ Holders' = Holders /\ Waiters' = Waiters /\ Busy' = Busy \ {t}
      /\ Idle' = Idle /\ t \in Busy
  BY <1>2, <1>3, <1>4 DEF Holders, Waiters, Busy, Idle
<1>7. OneOwner' /\ WaitersCounted' /\ Capacity'
  BY <1>1, <1>2, <1>4, <1>6 DEF OneOwner, WaitersCounted, Capacity, Busy
<1>8. FailedHeld'
  BY <1>1, <1>2, <1>4, <1>6 DEF FailedHeld, Busy
<1>9. Phases'
  BY <1>1, <1>2, <1>3, <1>4 DEF Phases
<1>10. QED BY <1>5, <1>7, <1>8, <1>9 DEF IInv

LEMMA MarkFailedInv == ASSUME IInv, NEW t \in Threads, MarkFailed(t) PROVE IInv'
<1>1. TypeOK /\ OneOwner /\ WaitersCounted /\ Capacity /\ FailedHeld /\ Phases
  BY DEF IInv
<1>2. t \in Busy /\ failed' = failed \cup {conn[t]}
      /\ UNCHANGED <<pc, conn, connections_, in_use_, waiters_, createFailures>>
  BY DEF MarkFailed, Busy
<1>3. conn[t] \in Conns
  BY <1>1, <1>2 DEF OneOwner
<1>4. TypeOK'
  BY <1>1, <1>2, <1>3 DEF TypeOK
<1>5. OneOwner' /\ WaitersCounted' /\ Capacity' /\ Phases'
  BY <1>1, <1>2 DEF OneOwner, WaitersCounted, Capacity, Phases, Holders, Busy, Idle, Waiters
<1>6. FailedHeld'
  BY <1>1, <1>2 DEF FailedHeld, Busy
<1>7. QED BY <1>4, <1>5, <1>6 DEF IInv

LEMMA SpuriousInv == ASSUME IInv, NEW p \in Procs, SpuriousWakeup(p) PROVE IInv'
<1>1. TypeOK /\ OneOwner /\ WaitersCounted /\ Capacity /\ FailedHeld /\ Phases
  BY DEF IInv
<1>2. /\ pc[p] = "waiting" /\ pc' = [pc EXCEPT ![p] = "woken"]
      /\ UNCHANGED <<conn, connections_, in_use_, waiters_, failed, createFailures>>
  BY DEF SpuriousWakeup
<1>3. /\ pc' \in [Procs -> ThreadPC \cup OwnerPC] /\ pc'[p] = "woken"
      /\ \A q \in Procs \ {p} : pc'[q] = pc[q]
      /\ Owner \in Procs /\ Threads \subseteq Procs
  BY <1>1, <1>2 DEF TypeOK, ThreadPC, Procs
<1>4. TypeOK'
  BY <1>1, <1>2, <1>3 DEF TypeOK, ThreadPC, OwnerPC
<1>5. Holders' = Holders /\ Waiters' = Waiters /\ Busy' = Busy /\ Idle' = Idle
  BY <1>2, <1>3 DEF Holders, Waiters, Busy, Idle
<1>6. OneOwner' /\ WaitersCounted' /\ Capacity' /\ FailedHeld'
  BY <1>1, <1>2, <1>5 DEF OneOwner, WaitersCounted, Capacity, FailedHeld
<1>7. Phases'
  BY <1>1, <1>2, <1>3 DEF Phases
<1>8. QED BY <1>4, <1>6, <1>7 DEF IInv

LEMMA FillInv == ASSUME IInv, Fill \/ FillThrows PROVE IInv'
<1>1. TypeOK /\ OneOwner /\ WaitersCounted /\ Capacity /\ FailedHeld /\ Phases
  BY DEF IInv
<1>2. pc[Owner] = "filling" /\ \A t \in Threads : pc[t] = "idle"
  BY <1>1 DEF Fill, FillThrows, Phases
<1>3. Owner \in Procs /\ Threads \subseteq Procs /\ Owner \notin Threads
      /\ Procs = Threads \cup {Owner}
  BY PoolAssumption DEF Procs
<1>4. Holders = {} /\ Busy = {} /\ Waiters = {} /\ in_use_ = 0
  <2>1. Holders = {} /\ Busy = {} /\ Waiters = {}
    BY <1>2, <1>3 DEF Holders, Busy, Waiters
  <2>2. QED BY <1>1, <2>1, FS_EmptySet DEF OneOwner
<1>5. CASE /\ Len(connections_) < MinConn
           /\ \E c \in Conns : c \notin Live
           /\ connections_' = Append(connections_, Fresh)
           /\ UNCHANGED <<pc, conn, in_use_, waiters_, failed, createFailures>>
  <2>1. Fresh \in Conns \ Idle
    <3>1. Fresh \in Conns /\ Fresh \notin Live
      BY <1>5 DEF Fresh
    <3>2. QED BY <3>1 DEF Live
  <2>2. NoDup(connections_) /\ Idle = Elems(connections_) /\ connections_ \in Seq(Conns)
    BY <1>1 DEF OneOwner, NoDup, Idle, Elems, TypeOK
  <2>3. /\ connections_' \in Seq(Conns) /\ NoDup(connections_')
        /\ Len(connections_') = Len(connections_) + 1
    BY <1>5, <2>1, <2>2, PushBack
  <2>4. Holders' = {} /\ Busy' = {} /\ Waiters' = Waiters
    BY <1>4, <1>5 DEF Holders, Busy, Waiters
  <2>5. TypeOK' /\ WaitersCounted' /\ FailedHeld' /\ Phases'
    BY <1>1, <1>4, <1>5, <2>3, <2>4 DEF TypeOK, WaitersCounted, FailedHeld, Phases
  <2>6. OneOwner'
    BY <1>4, <1>5, <2>3, <2>4, FS_EmptySet DEF OneOwner, NoDup
  <2>7. Capacity'
    <3>1. Len(connections_) \in Nat
      BY <2>2, LenProperties
    <3>2. QED
      BY <1>4, <1>5, <2>3, <3>1, PoolAssumption DEF Capacity
  <2>8. QED BY <2>5, <2>6, <2>7 DEF IInv
<1>6. CASE /\ pc' \in {[pc EXCEPT ![Owner] = "serving"], [pc EXCEPT ![Owner] = "destroyed"]}
           /\ connections_' \in {connections_, <<>>}
           /\ createFailures' \in 0..MaxCreateFailures
           /\ UNCHANGED <<conn, in_use_, waiters_, failed>>
  <2>1. /\ pc' \in [Procs -> ThreadPC \cup OwnerPC]
        /\ pc'[Owner] \in {"serving", "destroyed"}
        /\ \A t \in Threads : pc'[t] = "idle"
    BY <1>1, <1>2, <1>3, <1>6 DEF TypeOK, OwnerPC
  <2>2. connections_' \in Seq(Conns) /\ Len(connections_') <= Len(connections_)
        /\ Len(connections_') \in Nat /\ Len(connections_) \in Nat
    <3>1. CASE connections_' = connections_
      BY <1>1, <3>1, LenProperties DEF TypeOK
    <3>2. CASE connections_' = <<>>
      BY <1>1, <3>2, EmptySeq, LenProperties DEF TypeOK
    <3>3. QED BY <1>6, <3>1, <3>2
  <2>3. Holders' = {} /\ Busy' = {} /\ Waiters' = Waiters
    BY <1>3, <1>4, <2>1 DEF Holders, Busy, Waiters
  <2>4. TypeOK'
    BY <1>1, <1>2, <1>6, <2>1, <2>2 DEF TypeOK, ThreadPC, OwnerPC
  <2>5. WaitersCounted' /\ FailedHeld' /\ Phases'
    BY <1>1, <1>4, <1>6, <2>1, <2>3 DEF WaitersCounted, FailedHeld, Phases
  <2>6. OneOwner'
    <3>1. NoDup(connections_')
      BY <1>1, <1>6 DEF OneOwner, NoDup
    <3>2. QED
      BY <1>4, <1>6, <2>3, <3>1, FS_EmptySet DEF OneOwner, NoDup
  <2>7. Capacity'
    BY <1>1, <1>4, <1>6, <2>2, PoolAssumption DEF Capacity
  <2>8. QED BY <2>4, <2>5, <2>6, <2>7 DEF IInv
<1>7. CASE Fill
  <2>1. createFailures \in 0..MaxCreateFailures
    BY <1>1 DEF TypeOK
  <2>2. QED BY <1>5, <1>6, <1>7, <2>1 DEF Fill
<1>8. CASE FillThrows
  <2>1. createFailures' \in 0..MaxCreateFailures
    BY <1>1, <1>8, PoolAssumption DEF TypeOK, FillThrows
  <2>2. QED BY <1>6, <1>8, <2>1 DEF FillThrows
<1>9. QED BY <1>7, <1>8

LEMMA OwnerTurnInv ==
  ASSUME IInv, pc[Owner] \in {"serving", "woken"},
         \A t \in Threads : pc[t] \notin {"waiting", "woken"},
         NEW w \in Nat, w = Cardinality(Waiters \ {Owner}), OwnerTurn(w)
  PROVE  IInv'
<1>1. TypeOK /\ OneOwner /\ WaitersCounted /\ Capacity /\ FailedHeld /\ Phases
  BY DEF IInv
<1>2. Owner \in Procs /\ Threads \subseteq Procs /\ Owner \notin Threads
  BY PoolAssumption DEF Procs
<1>3. PICK x \in {"destroyed", "waiting"} :
        /\ pc' = [pc EXCEPT ![Owner] = x]
        /\ waiters_' = IF x = "destroyed" THEN w ELSE w + 1
        /\ connections_' \in {connections_, <<>>}
        /\ UNCHANGED <<conn, in_use_, failed, createFailures>>
  BY DEF OwnerTurn
<1>4. /\ pc' \in [Procs -> ThreadPC \cup OwnerPC] /\ pc'[Owner] = x
      /\ \A t \in Threads : pc'[t] = pc[t]
      /\ \A p \in Procs \ {Owner} : pc'[p] = pc[p]
  BY <1>1, <1>2, <1>3 DEF TypeOK, OwnerPC
<1>5. Holders' = Holders /\ Busy' = Busy
  BY <1>4 DEF Holders, Busy
<1>6. /\ connections_' \in Seq(Conns) /\ Len(connections_') <= Len(connections_)
      /\ Len(connections_') \in Nat /\ Len(connections_) \in Nat
      /\ NoDup(connections_') /\ Idle' \subseteq Idle
  <2>1. CASE connections_' = connections_
    BY <1>1, <2>1, LenProperties DEF TypeOK, OneOwner, NoDup, Idle
  <2>2. CASE connections_' = <<>>
    BY <1>1, <2>2, EmptySeq, LenProperties DEF TypeOK, NoDup, Idle
  <2>3. QED BY <1>3, <2>1, <2>2
<1>7. TypeOK'
  BY <1>1, <1>3, <1>4, <1>6 DEF TypeOK, OwnerPC
<1>8. OneOwner' /\ FailedHeld'
  BY <1>1, <1>3, <1>5, <1>6 DEF OneOwner, FailedHeld, NoDup
<1>9. WaitersCounted'
  <2>1. CASE x = "destroyed"
    <3>1. Waiters' = Waiters \ {Owner}
      BY <1>2, <1>4, <2>1 DEF Waiters
    <3>2. QED BY <1>3, <2>1, <3>1 DEF WaitersCounted
  <2>2. CASE x = "waiting"
    <3>1. Waiters' = (Waiters \ {Owner}) \cup {Owner}
      BY <1>2, <1>4, <2>2 DEF Waiters
    <3>2. Cardinality((Waiters \ {Owner}) \cup {Owner}) = Cardinality(Waiters \ {Owner}) + 1
      BY FiniteProcs, Counting
    <3>3. QED BY <1>3, <2>2, <3>1, <3>2 DEF WaitersCounted
  <2>3. QED BY <2>1, <2>2
<1>10. Capacity'
  BY <1>1, <1>3, <1>6, PoolAssumption DEF Capacity, TypeOK
<1>11. Phases'
  BY <1>4 DEF Phases
<1>12. QED BY <1>7, <1>8, <1>9, <1>10, <1>11 DEF IInv

\* The value of waiters_ that a process enters its loop with.
LEMMA EntryCount ==
  ASSUME IInv, NEW p \in Procs
  PROVE  /\ pc[p] = "woken" => /\ waiters_ - 1 \in Nat
                               /\ waiters_ - 1 = Cardinality(Waiters \ {p})
         /\ pc[p] \notin {"waiting", "woken"} => /\ waiters_ \in Nat
                                                /\ waiters_ = Cardinality(Waiters \ {p})
<1>1. /\ waiters_ = Cardinality(Waiters) /\ Cardinality(Waiters) \in Nat
      /\ p \in Waiters => /\ Cardinality(Waiters) > 0
                          /\ Cardinality(Waiters \ {p}) = Cardinality(Waiters) - 1
  BY FiniteProcs, Counting DEF IInv, WaitersCounted
<1>2. pc[p] = "woken" => p \in Waiters
  BY DEF Waiters
<1>3. pc[p] \notin {"waiting", "woken"} => Waiters \ {p} = Waiters
  BY DEF Waiters
<1>4. ASSUME pc[p] = "woken"
      PROVE  waiters_ - 1 \in Nat /\ waiters_ - 1 = Cardinality(Waiters \ {p})
  <2>1. p \in Waiters
    BY <1>2, <1>4
  <2>2. waiters_ \in Nat /\ waiters_ > 0 /\ Cardinality(Waiters \ {p}) = waiters_ - 1
    BY <1>1, <2>1
  <2>3. QED BY <2>2
<1>5. ASSUME pc[p] \notin {"waiting", "woken"}
      PROVE  waiters_ \in Nat /\ waiters_ = Cardinality(Waiters \ {p})
  BY <1>1, <1>3, <1>5
<1>6. QED BY <1>4, <1>5

LEMMA NextInv == IInv /\ [Next]_vars => IInv'
<1> SUFFICES ASSUME IInv, [Next]_vars PROVE IInv'
  OBVIOUS
<1>1. Threads \subseteq Procs /\ Owner \in Procs
  BY DEF Procs
<1>2. CASE Fill \/ FillThrows
  BY <1>2, FillInv
<1>3. CASE Destroy
  BY <1>1, <1>3, EntryCount, OwnerTurnInv DEF Destroy
<1>4. CASE OwnerReacquire
  <2>1. \A t \in Threads : pc[t] \notin {"waiting", "woken"}
    BY <1>4 DEF IInv, Phases, OwnerReacquire
  <2>2. QED
    BY <1>1, <1>4, <2>1, EntryCount, OwnerTurnInv DEF OwnerReacquire
<1>5. ASSUME NEW t \in Threads, Connect(t) PROVE IInv'
  BY <1>1, <1>5, EntryCount, AttemptInv DEF Connect
<1>6. ASSUME NEW t \in Threads, Reacquire(t) PROVE IInv'
  <2>1. pc[Owner] = "serving"
    BY <1>6 DEF IInv, Phases, Reacquire
  <2>2. QED
    BY <1>1, <1>6, <2>1, EntryCount, AttemptInv DEF Reacquire
<1>7. ASSUME NEW t \in Threads, MarkFailed(t) \/ Release(t) \/ Delete(t) PROVE IInv'
  BY <1>7, MarkFailedInv, ReleaseInv, DeleteInv
<1>8. ASSUME NEW p \in Procs, SpuriousWakeup(p) PROVE IInv'
  BY <1>8, SpuriousInv
<1>9. CASE UNCHANGED vars
  <2>1. UNCHANGED <<Holders, Busy, Waiters, Idle>>
    BY <1>9 DEF vars, Holders, Busy, Waiters, Idle
  <2>2. QED
    BY <1>9, <2>1 DEF vars, IInv, TypeOK, OneOwner, WaitersCounted, Capacity, FailedHeld,
       Phases
<1>10. QED
  BY <1>2, <1>3, <1>4, <1>5, <1>6, <1>7, <1>8, <1>9 DEF Next, ThreadNext

\* The inductive invariant holds in every reachable state.
THEOREM Invariance == Spec => []IInv
BY InitInv, NextInv, PTL DEF Spec

\* The counters, vectors and positions keep their types.
THEOREM TypeCorrect == Spec => []TypeOK
<1>1. IInv => TypeOK
  BY DEF IInv
<1>2. QED BY <1>1, Invariance, PTL

\* No connection has two owners, and in_use_ counts the connections in use.
THEOREM ConnectionsHaveOneOwner == Spec => []OneOwner
<1>1. IInv => OneOwner
  BY DEF IInv
<1>2. QED BY <1>1, Invariance, PTL

\* waiters_ counts the threads inside wait().
THEOREM WaitersAreCounted == Spec => []WaitersCounted
<1>1. IInv => WaitersCounted
  BY DEF IInv
<1>2. QED BY <1>1, Invariance, PTL

\* max_ bounds idle and used connections together.
THEOREM CapacityIsKept == Spec => []Capacity
<1>1. IInv => Capacity
  BY DEF IInv
<1>2. QED BY <1>1, Invariance, PTL

\* A failed connection does not get back into the pool.
THEOREM FailedStaysOut == Spec => []FailedNeverPooled
<1>1. IInv => FailedNeverPooled
  BY DEF IInv, FailedHeld, OneOwner, FailedNeverPooled
<1>2. QED BY <1>1, Invariance, PTL

------------------------------------------------------------------------------
\* No wake-up is lost while create() succeeds.

Woken == Waiters \ Blocked

LEMMA WokenType == Woken \subseteq Procs /\ Woken' \subseteq Procs
BY DEF Woken, Waiters

\* Where only the woken set shrinks or grows, its size follows.
LEMMA WokenCount ==
  ASSUME NEW T \in SUBSET Procs, NEW U \in SUBSET Procs, NEW x
  PROVE  /\ Cardinality(T) \in Nat /\ Cardinality(U) \in Nat
         /\ T \subseteq U => Cardinality(T) <= Cardinality(U)
         /\ T \ {x} \subseteq U => Cardinality(T) - 1 <= Cardinality(U)
         /\ (x \notin T /\ T \cup {x} \subseteq U) => Cardinality(T) + 1 <= Cardinality(U)
<1>1. IsFiniteSet(T) /\ IsFiniteSet(U)
  BY FiniteProcs, FS_Subset
<1>2. Cardinality(T) \in Nat /\ Cardinality(U) \in Nat
  BY <1>1, FS_CardinalityType
<1>3. T \subseteq U => Cardinality(T) <= Cardinality(U)
  BY <1>1, FS_Subset
<1>4. ASSUME T \ {x} \subseteq U PROVE Cardinality(T) - 1 <= Cardinality(U)
  <2>1. Cardinality(T \ {x}) <= Cardinality(U)
    BY <1>1, <1>4, FS_Subset
  <2>2. Cardinality(T \ {x}) = IF x \in T THEN Cardinality(T) - 1 ELSE Cardinality(T)
    BY <1>1, FS_RemoveElement
  <2>3. QED BY <1>2, <2>1, <2>2
<1>5. ASSUME x \notin T, T \cup {x} \subseteq U
      PROVE  Cardinality(T) + 1 <= Cardinality(U)
  <2>1. Cardinality(T \cup {x}) <= Cardinality(U)
    BY <1>1, <1>5, FS_Subset
  <2>2. Cardinality(T \cup {x}) = Cardinality(T) + 1
    BY <1>1, <1>5, FS_AddElement
  <2>3. QED BY <2>1, <2>2
<1>6. QED BY <1>2, <1>3, <1>4, <1>5

LEMMA StrandedAttempt ==
  ASSUME IInv, NoStrandedWaiter, NEW t \in Threads, pc[t] \in {"idle", "woken"},
         NEW w, Attempt(t, w)
  PROVE  NoStrandedWaiter'
<1>1. TypeOK /\ t \in Procs
  BY DEF IInv, Procs
<1>2. SUFFICES ASSUME createFailures' = 0, Blocked' \cap Threads # {}
               PROVE  MaxConn <= in_use_' + Cardinality(Woken')
  BY DEF NoStrandedWaiter, Woken
<1>3. createFailures = 0 /\ Cardinality(Woken) \in Nat /\ Cardinality(Woken') \in Nat
      /\ MaxConn \in Nat /\ in_use_ \in Nat
  BY <1>1, <1>2, WokenType, WokenCount, PoolAssumption DEF Attempt, TypeOK
<1>4. CASE pc' = [pc EXCEPT ![t] = "holding"] /\ in_use_' = in_use_ + 1
  <2>1. Blocked' = Blocked /\ Woken \ {t} \subseteq Woken'
    BY <1>1, <1>4 DEF TypeOK, Blocked, Woken, Waiters
  <2>2. Cardinality(Woken) - 1 <= Cardinality(Woken')
    BY <2>1, WokenType, WokenCount
  <2>3. MaxConn <= in_use_ + Cardinality(Woken)
    BY <1>2, <1>3, <2>1 DEF NoStrandedWaiter, Woken
  <2>4. QED BY <1>3, <1>4, <2>2, <2>3
<1>5. CASE ~HasRoom /\ in_use_' = in_use_
  BY <1>3, <1>5 DEF HasRoom
<1>6. createFailures' # createFailures + 1
  BY <1>2, <1>3
<1>7. QED
  BY <1>4, <1>5, <1>6 DEF Attempt, HandOut

LEMMA StrandedRelease ==
  ASSUME IInv, NoStrandedWaiter, NEW t \in Threads, Release(t)
  PROVE  NoStrandedWaiter'
<1>1. TypeOK /\ Phases /\ t \in Procs /\ Threads \subseteq Procs
  BY DEF IInv, Procs
<1>2. SUFFICES ASSUME createFailures' = 0, Blocked' \cap Threads # {}
               PROVE  MaxConn <= in_use_' + Cardinality(Woken')
  BY DEF NoStrandedWaiter, Woken
<1>3. /\ pc[t] = "holding" /\ Keep(conn[t]) \in BOOLEAN
      /\ pc' \in Signalled(t, Keep(conn[t]))
      /\ in_use_' = in_use_ - 1 /\ createFailures' = createFailures
  BY DEF Release, Keep
<1>4. /\ pc'[t] \in {"idle", "deleting"}
      /\ \A u \in Procs \ {t} :
           pc'[u] = pc[u] \/ (pc[u] = "waiting" /\ pc'[u] = "woken")
      /\ Blocked # {} => \E p \in Blocked : pc'[p] = "woken"
  BY <1>3, SignalStep
<1>5. Blocked' \subseteq Blocked
  BY <1>4 DEF Blocked
<1>6. PICK p \in Blocked : pc'[p] = "woken"
  BY <1>2, <1>4, <1>5
<1>7. Woken \cup {p} \subseteq Woken' /\ p \notin Woken
  BY <1>1, <1>3, <1>4, <1>6 DEF Woken, Waiters, Blocked
<1>8. Cardinality(Woken) + 1 <= Cardinality(Woken')
  BY <1>7, WokenType, WokenCount
<1>9. MaxConn <= in_use_ + Cardinality(Woken)
  BY <1>2, <1>3, <1>5 DEF NoStrandedWaiter, Woken
<1>10. Cardinality(Woken) \in Nat /\ Cardinality(Woken') \in Nat /\ in_use_ \in Nat
       /\ MaxConn \in Nat
  BY <1>1, WokenType, WokenCount, PoolAssumption DEF TypeOK
<1>11. QED BY <1>3, <1>8, <1>9, <1>10

\* While create() has not thrown, every free slot has a woken thread on its way
\* to it whenever a thread is blocked: a waiter is never left behind.
THEOREM NoWaiterIsStranded == Spec => []NoStrandedWaiter
<1>1. Init => NoStrandedWaiter
  <2> SUFFICES ASSUME Init PROVE NoStrandedWaiter
    OBVIOUS
  <2>1. Blocked \cap Threads = {}
    BY PoolAssumption DEF Init, Blocked, Procs
  <2>2. QED BY <2>1 DEF NoStrandedWaiter
<1>2. IInv /\ IInv' /\ NoStrandedWaiter /\ [Next]_vars => NoStrandedWaiter'
  <2> SUFFICES ASSUME IInv, IInv', NoStrandedWaiter, [Next]_vars
               PROVE  NoStrandedWaiter'
    OBVIOUS
  <2>1. TypeOK /\ Phases /\ Phases' /\ Threads \subseteq Procs /\ Owner \notin Threads
        /\ Owner \in Procs
    BY PoolAssumption DEF IInv, Procs
  <2>2. ASSUME \A t \in Threads : pc'[t] \notin {"waiting", "woken"}
        PROVE  NoStrandedWaiter'
    BY <2>2 DEF NoStrandedWaiter, Blocked
  <2>3. CASE Fill \/ FillThrows
    <3>1. \A t \in Threads : pc[t] = "idle" /\ pc'[t] = pc[t]
      BY <2>1, <2>3 DEF Fill, FillThrows, Phases, TypeOK
    <3>2. QED BY <2>2, <3>1
  <2>4. CASE Destroy \/ OwnerReacquire
    <3>1. pc'[Owner] \in {"destroyed", "waiting"}
      BY <2>1, <2>4 DEF Destroy, OwnerReacquire, OwnerTurn, TypeOK
    <3>2. QED BY <2>1, <2>2, <3>1 DEF Phases
  <2>5. ASSUME NEW t \in Threads, Connect(t) \/ Reacquire(t) PROVE NoStrandedWaiter'
    BY <2>5, StrandedAttempt DEF Connect, Reacquire
  <2>6. ASSUME NEW t \in Threads, Release(t) PROVE NoStrandedWaiter'
    BY <2>6, StrandedRelease
  <2>7. ASSUME NEW t \in Threads, MarkFailed(t) PROVE NoStrandedWaiter'
    BY <2>7 DEF MarkFailed, NoStrandedWaiter, Blocked, Waiters
  <2>8. ASSUME NEW t \in Threads, Delete(t) PROVE NoStrandedWaiter'
    <3>1. Blocked' = Blocked /\ Waiters' = Waiters
      BY <2>1, <2>8 DEF Delete, Blocked, Waiters, TypeOK
    <3>2. QED BY <2>8, <3>1 DEF Delete, NoStrandedWaiter
  <2>9. ASSUME NEW p \in Procs, SpuriousWakeup(p) PROVE NoStrandedWaiter'
    <3>1. Blocked' \subseteq Blocked /\ Woken \subseteq Woken'
      BY <2>1, <2>9 DEF SpuriousWakeup, Blocked, Woken, Waiters, TypeOK
    <3>2. Cardinality(Woken) <= Cardinality(Woken')
      BY <3>1, WokenType, WokenCount
    <3>3. /\ in_use_' = in_use_ /\ createFailures' = createFailures /\ in_use_ \in Nat
          /\ Cardinality(Woken) \in Nat /\ Cardinality(Woken') \in Nat /\ MaxConn \in Nat
      BY <2>1, <2>9, WokenType, WokenCount, PoolAssumption DEF SpuriousWakeup, TypeOK
    <3>4. QED BY <3>1, <3>2, <3>3 DEF NoStrandedWaiter, Woken
  <2>10. CASE UNCHANGED vars
    BY <2>10 DEF vars, NoStrandedWaiter, Blocked, Waiters
  <2>11. QED
    BY <2>3, <2>4, <2>5, <2>6, <2>7, <2>8, <2>9, <2>10 DEF Next, ThreadNext
<1>3. QED BY <1>1, <1>2, Invariance, PTL DEF Spec

------------------------------------------------------------------------------
\* A holder's position changes only when it releases its connection.
LEMMA OnlyReleaseDrops ==
  ASSUME IInv, Next, NEW t \in Threads, pc[t] = "holding", pc'[t] = "deleting"
  PROVE  Release(t)
<1>1. TypeOK /\ t \in Procs /\ t # Owner /\ Owner \in Procs /\ Threads \subseteq Procs
  BY PoolAssumption DEF IInv, Procs
<1>2. ~(Fill \/ FillThrows \/ Destroy \/ OwnerReacquire)
  BY <1>1 DEF Fill, FillThrows, Destroy, OwnerReacquire, OwnerTurn, TypeOK
<1>3. ASSUME NEW u \in Threads, Connect(u) \/ Reacquire(u) PROVE FALSE
  <2>1. u # t /\ \E x \in {"holding", "idle", "waiting"} : pc' = [pc EXCEPT ![u] = x]
    BY <1>3 DEF Connect, Reacquire, Attempt, HandOut
  <2>2. QED BY <1>1, <2>1 DEF TypeOK
<1>4. ASSUME NEW u \in Threads, MarkFailed(u) \/ Delete(u) PROVE FALSE
  BY <1>1, <1>4 DEF MarkFailed, Delete, TypeOK
<1>5. ASSUME NEW u \in Threads, u # t, Release(u) PROVE FALSE
  <2>1. pc[u] = "holding" /\ Keep(conn[u]) \in BOOLEAN /\ pc' \in Signalled(u, Keep(conn[u]))
    BY <1>5 DEF Release, Keep
  <2>2. \A v \in Procs \ {u} : pc'[v] = pc[v] \/ (pc[v] = "waiting" /\ pc'[v] = "woken")
    BY <2>1, SignalStep
  <2>3. QED BY <1>1, <1>5, <2>2
<1>6. ASSUME NEW p \in Procs, SpuriousWakeup(p) PROVE FALSE
  BY <1>1, <1>6 DEF SpuriousWakeup, TypeOK
<1>7. QED BY <1>2, <1>3, <1>4, <1>5, <1>6 DEF Next, ThreadNext

\* The pool drops a sound connection only when min_ others remain.
THEOREM SoundConnectionsAreKept == Spec => ShrinksToMin
<1>1. ASSUME IInv, [Next]_vars
      PROVE  [\A t \in Threads :
                (pc[t] = "holding" /\ pc'[t] = "deleting" /\ conn[t] \notin failed) =>
                  MinConn # 0 /\ Len(connections_') + in_use_' >= MinConn]_vars
  <2>1. CASE UNCHANGED vars
    BY <2>1
  <2>2. ASSUME Next, NEW t \in Threads, pc[t] = "holding", pc'[t] = "deleting",
               conn[t] \notin failed
        PROVE  MinConn # 0 /\ Len(connections_') + in_use_' >= MinConn
    <3>1. Release(t)
      BY <1>1, <2>2, OnlyReleaseDrops
    <3>2. Keep(conn[t]) \in BOOLEAN /\ pc' \in Signalled(t, Keep(conn[t]))
      BY <3>1 DEF Release, Keep
    <3>3. pc'[t] = IF Keep(conn[t]) THEN "idle" ELSE "deleting"
      BY <1>1, <2>2, <3>2, SignalStep
    <3>4. ~Keep(conn[t])
      BY <2>2, <3>3
    <3>5. MinConn # 0 /\ ~(Len(connections_) + in_use_ <= MinConn)
      BY <2>2, <3>4 DEF Keep
    <3>6. connections_' = connections_ /\ in_use_' = in_use_ - 1
      BY <3>1, <3>4 DEF Release, Pooled
    <3>7. Len(connections_) \in Nat /\ in_use_ \in Nat /\ MinConn \in Nat
      BY <1>1, LenProperties, PoolAssumption DEF IInv, TypeOK
    <3>8. QED BY <3>5, <3>6, <3>7
  <2>3. QED BY <1>1, <2>1, <2>2
<1>2. QED BY <1>1, Invariance, PTL DEF Spec, ShrinksToMin

------------------------------------------------------------------------------
\* The refinement of Leasing.

\* The instance's Cardinality is the one that is counted with here.
LEMMA SameCardinality == \A S : L!Cardinality(S) = Cardinality(S)
BY DEF L!Cardinality, Cardinality

LEMMA OutIsHolders == ASSUME TypeOK, OneOwner PROVE L!Out = Holders
<1>1. ASSUME NEW t \in Threads, pc[t] = "holding" PROVE conn[t] # NoConn
  BY <1>1, PoolAssumption DEF OneOwner, Busy
<1>2. QED BY <1>1 DEF L!Out, leaseOf, Holders

LEMMA LendStep ==
  ASSUME IInv, IInv', NEW t \in Threads, pc[t] \in {"idle", "woken"},
         NEW c \in Conns, c \notin failed, c \notin {conn[u] : u \in Busy},
         HandOut(t, c), UNCHANGED failed
  PROVE  L!Lend(t, c)
<1>1. TypeOK /\ OneOwner /\ Capacity' /\ TypeOK' /\ t \in Procs /\ Threads \subseteq Procs
  BY DEF IInv, Procs
<1>2. leaseOf[t] = NoConn
  BY DEF leaseOf
<1>3. \A u \in Threads : leaseOf[u] # c
  BY PoolAssumption DEF leaseOf, Busy
<1>4. MaxConn # 0 => Cardinality(L!Out) < MaxConn
  <2>1. Cardinality(L!Out) = in_use_
    BY <1>1, OutIsHolders DEF OneOwner
  <2>2. in_use_ \in Nat /\ MaxConn \in Nat /\ Len(connections_') \in Nat
    BY <1>1, LenProperties, PoolAssumption DEF TypeOK
  <2>3. in_use_' = in_use_ + 1
    BY DEF HandOut
  <2>4. QED BY <1>1, <2>1, <2>2, <2>3 DEF Capacity
<1>5. leaseOf' = [leaseOf EXCEPT ![t] = c]
  <2>1. \A u \in Threads : leaseOf'[u] = IF u = t THEN c ELSE leaseOf[u]
    BY <1>1 DEF HandOut, leaseOf, TypeOK
  <2>2. QED BY <2>1 DEF leaseOf
<1>6. c \notin failed /\ failed' = failed
  OBVIOUS
<1>7. MaxConn # 0 => L!Cardinality(L!Out) < MaxConn
  BY <1>4, SameCardinality
<1>8. QED
  BY <1>2, <1>3, <1>5, <1>6, <1>7 DEF L!Lend

LEMMA AttemptLends ==
  ASSUME IInv, IInv', NEW t \in Threads, pc[t] \in {"idle", "woken"},
         NEW w, Attempt(t, w)
  PROVE  L!Next \/ UNCHANGED <<leaseOf, failed>>
<1>1. TypeOK /\ OneOwner /\ FailedHeld /\ t \in Procs /\ Threads \subseteq Procs
  BY DEF IInv, Procs
<1>2. ASSUME connections_ # <<>>, HandOut(t, connections_[Len(connections_)]), UNCHANGED failed
      PROVE  L!Next
  <2> DEFINE c == connections_[Len(connections_)]
  <2>1. c \in Idle /\ c \in Conns
    <3>1. NoDup(connections_) /\ Idle = Elems(connections_) /\ connections_ \in Seq(Conns)
      BY <1>1 DEF OneOwner, NoDup, Idle, Elems, TypeOK
    <3>2. QED BY <1>2, <3>1, PopBack
  <2>2. c \notin {conn[u] : u \in Busy} /\ c \notin failed
    BY <1>1, <2>1 DEF OneOwner, FailedHeld
  <2>3. HandOut(t, c) /\ UNCHANGED failed
    BY <1>2
  <2> HIDE DEF c
  <2>4. QED BY <2>1, <2>2, <2>3, LendStep DEF L!Next
<1>3. ASSUME \E c \in Conns : c \notin Live, HandOut(t, Fresh), UNCHANGED failed
      PROVE  L!Next
  <2>1. Fresh \in Conns /\ Fresh \notin Live
    BY <1>3 DEF Fresh
  <2>2. Fresh \notin {conn[u] : u \in Busy} /\ Fresh \notin failed
    BY <1>1, <2>1 DEF Live, FailedHeld
  <2>3. QED BY <1>3, <2>1, <2>2, LendStep DEF L!Next
<1>4. ASSUME pc' \in {[pc EXCEPT ![t] = "idle"], [pc EXCEPT ![t] = "waiting"]},
             UNCHANGED <<conn, failed>>
      PROVE  UNCHANGED <<leaseOf, failed>>
  <2>1. \A u \in Threads : leaseOf'[u] = leaseOf[u]
    BY <1>1, <1>4 DEF leaseOf, TypeOK
  <2>2. QED BY <1>4, <2>1 DEF leaseOf
<1>5. QED BY <1>2, <1>3, <1>4 DEF Attempt

\* The pool implements exclusive leases of sound connections, at most max_ of
\* them at a time.
THEOREM PoolImplementsLeasing == Spec => ImplementsLeasing
<1>1. Init => L!Init
  <2> SUFFICES ASSUME Init PROVE L!Init
    OBVIOUS
  <2>1. \A t \in Threads : pc[t] # "holding"
    BY PoolAssumption DEF Init, Procs
  <2>2. QED BY <2>1 DEF Init, L!Init, leaseOf
<1>2. IInv /\ IInv' /\ [Next]_vars => [L!Next]_L!vars
  <2> SUFFICES ASSUME IInv, IInv', [Next]_vars
               PROVE  L!Next \/ UNCHANGED <<leaseOf, failed>>
    BY DEF L!vars
  <2>1. TypeOK /\ OneOwner /\ Threads \subseteq Procs /\ Owner \in Procs /\ Owner \notin Threads
    BY PoolAssumption DEF IInv, Procs
  <2>2. ASSUME \A u \in Threads : (pc'[u] = "holding") <=> (pc[u] = "holding"),
               UNCHANGED <<conn, failed>>
        PROVE  UNCHANGED <<leaseOf, failed>>
    BY <2>2 DEF leaseOf
  <2>3. CASE Fill \/ FillThrows \/ Destroy \/ OwnerReacquire
    BY <2>1, <2>2, <2>3 DEF Fill, FillThrows, Destroy, OwnerReacquire, OwnerTurn, TypeOK
  <2>4. ASSUME NEW t \in Threads, Connect(t) \/ Reacquire(t)
        PROVE  L!Next \/ UNCHANGED <<leaseOf, failed>>
    BY <2>4, AttemptLends DEF Connect, Reacquire
  <2>5. ASSUME NEW t \in Threads, MarkFailed(t) PROVE L!Next
    <3>1. leaseOf[t] = conn[t] /\ conn[t] # NoConn /\ leaseOf' = leaseOf
      BY <2>1, <2>5, PoolAssumption DEF MarkFailed, leaseOf, OneOwner, Busy
    <3>2. QED BY <2>5, <3>1 DEF MarkFailed, L!Break, L!Next
  <2>6. ASSUME NEW t \in Threads, Release(t) PROVE L!Next
    <3>1. /\ pc[t] = "holding" /\ Keep(conn[t]) \in BOOLEAN
          /\ pc' \in Signalled(t, Keep(conn[t])) /\ UNCHANGED failed
          /\ conn' = [conn EXCEPT ![t] = IF Keep(conn[t]) THEN NoConn ELSE @]
      BY <2>6 DEF Release, Keep
    <3>2. /\ pc'[t] # "holding"
          /\ \A u \in Threads \ {t} : (pc'[u] = "holding") <=> (pc[u] = "holding")
      BY <2>1, <3>1, SignalStep
    <3>3. leaseOf[t] # NoConn
      BY <2>1, <3>1, PoolAssumption DEF leaseOf, OneOwner, Busy
    <3>4. leaseOf' = [leaseOf EXCEPT ![t] = NoConn]
      <4>1. \A u \in Threads : leaseOf'[u] = IF u = t THEN NoConn ELSE leaseOf[u]
        BY <2>1, <3>1, <3>2 DEF leaseOf, TypeOK
      <4>2. QED BY <4>1 DEF leaseOf
    <3>5. L!GiveBack(t)
      BY <3>1, <3>3, <3>4 DEF L!GiveBack
    <3>6. QED BY <3>5 DEF L!Next
  <2>7. ASSUME NEW t \in Threads, Delete(t)
        PROVE  L!Next \/ UNCHANGED <<leaseOf, failed>>
    <3>1. /\ pc[t] = "deleting" /\ conn[t] \in Conns /\ failed' = failed \ {conn[t]}
          /\ t \in Busy
      BY <2>1, <2>7 DEF Delete, OneOwner, Busy
    <3>2. leaseOf' = leaseOf
      <4>1. \A u \in Threads : leaseOf'[u] = leaseOf[u]
        BY <2>1, <2>7 DEF Delete, leaseOf, TypeOK
      <4>2. QED BY <4>1 DEF leaseOf
    <3>3. \A u \in Threads : leaseOf[u] # conn[t]
      BY <2>1, <3>1, PoolAssumption DEF leaseOf, OneOwner, Busy
    <3>4. CASE conn[t] \in failed
      BY <3>1, <3>2, <3>3, <3>4 DEF L!Discard, L!Next
    <3>5. CASE conn[t] \notin failed
      BY <3>1, <3>2, <3>5
    <3>6. QED BY <3>4, <3>5
  <2>8. ASSUME NEW p \in Procs, SpuriousWakeup(p) PROVE UNCHANGED <<leaseOf, failed>>
    BY <2>1, <2>2, <2>8 DEF SpuriousWakeup, TypeOK
  <2>9. CASE UNCHANGED vars
    BY <2>9 DEF vars, leaseOf
  <2>10. QED
    BY <2>3, <2>4, <2>5, <2>6, <2>7, <2>8, <2>9 DEF Next, ThreadNext
<1>3. QED BY <1>1, <1>2, Invariance, PTL DEF Spec, ImplementsLeasing, L!Spec
==============================================================================
