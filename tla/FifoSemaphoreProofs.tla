------------------------ MODULE FifoSemaphoreProofs -------------------------
(***************************************************************************)
(* The protection by semaphores is safe for every set of FIFOs, threads,   *)
(* counts and limits, with or without try_lock.  KeysConserved, with the   *)
(* types, is inductive; the other facts follow from it.                    *)
(***************************************************************************)
EXTENDS FifoSemaphore, FiniteSetTheorems, TLAPS

USE FifoAssumption

\* The numbers the other proofs calculate with.
LEMMA Numbers ==
  ASSUME TypeOK, NEW f \in Fifo
  PROVE  /\ keys[f] \in Nat /\ sm_limit[f] \in Nat
         /\ reserved[f] \in Nat /\ stored[f] \in Nat /\ taken[f] \in Nat
<1>1. sm_limit[f] \in Limits
  BY DEF TypeOK
<1>2. QED
  BY <1>1 DEF TypeOK, FifoTypeOK

LEMMA CountsArePositive == ASSUME NEW n \in Counts PROVE n \in Nat /\ n >= 1
  OBVIOUS

\* The semaphores, their queues and the FIFOs keep their types.
THEOREM TypeCorrect == Spec => []TypeOK
<1>1. Init => TypeOK
  <2> SUFFICES ASSUME Init PROVE TypeOK
    OBVIOUS
  <2>1. keys \in [Fifo -> Nat]
    BY DEF Init
  <2>2. QED
    BY <2>1 DEF Init, TypeOK, FifoInit, FifoTypeOK
<1>2. TypeOK /\ [Next]_vars => TypeOK'
  <2> SUFFICES ASSUME TypeOK, [Next]_vars PROVE TypeOK'
    OBVIOUS
  <2> USE DEF TypeOK, FifoTypeOK
  <2>1. ASSUME NEW f \in Fifo, NEW n \in Counts, keys[f] >= n, Take(f, n)
        PROVE  keys' \in [Fifo -> Nat] /\ FifoTypeOK'
    BY <2>1 DEF Take, Reserve
  <2>2. ASSUME NEW f \in Fifo, NEW en \in BOOLEAN, SetEnable(f, en) PROVE TypeOK'
    BY <2>2 DEF SetEnable, fifoVars
  <2>3. ASSUME NEW u \in Users, NEW f \in Fifo, NEW n \in Counts, Lock(u, f, n)
        PROVE  TypeOK'
    <3>1. CASE keys[f] >= n /\ Take(f, n) /\ UNCHANGED queue
      BY <2>1, <2>3, <3>1 DEF Lock
    <3>2. CASE /\ queue' = [queue EXCEPT ![f] = Append(@, [user |-> u, count |-> n])]
               /\ UNCHANGED <<keys, fifoVars>>
      <4>1. [user |-> u, count |-> n] \in Waiter
        BY DEF Waiter
      <4>2. queue' \in [Fifo -> Seq(Waiter)]
        BY <3>2, <4>1
      <4>3. QED
        BY <2>3, <3>2, <4>2 DEF Lock, fifoVars
    <3>3. QED
      BY <2>3, <3>1, <3>2 DEF Lock
  <2>4. ASSUME NEW f \in Fifo, Grant(f) PROVE TypeOK'
    <3>1. Head(queue[f]) \in Waiter /\ Tail(queue[f]) \in Seq(Waiter)
      BY <2>4 DEF Grant
    <3>2. Head(queue[f]).count \in Counts
      BY <3>1 DEF Waiter
    <3>3. queue' \in [Fifo -> Seq(Waiter)]
      BY <2>4, <3>1 DEF Grant
    <3>4. QED
      BY <2>1, <2>4, <3>2, <3>3 DEF Grant
  <2>5. ASSUME NEW u \in Users, NEW f \in Fifo, NEW n \in Counts, TryLock(u, f, n)
        PROVE  TypeOK'
    BY <2>1, <2>5 DEF TryLock
  <2>6. ASSUME NEW f \in Fifo, NEW n \in Counts, Free(f, n) PROVE TypeOK'
    <3> HIDE DEF TypeOK
    <3>0. /\ keys[f] \in Nat /\ taken[f] \in Nat /\ n \in Nat /\ n <= taken[f]
      BY <2>6, Numbers, CountsArePositive DEF Free, GiveBack
    <3>1. keys[f] + n \in Nat /\ taken[f] - n \in Nat
      BY <3>0
    <3>2. keys' \in [Fifo -> Nat] /\ taken' \in [Fifo -> Nat]
      BY <2>6, <3>1 DEF Free, GiveBack, TypeOK
    <3>3. QED
      BY <2>6, <3>2 DEF Free, GiveBack, TypeOK
  <2>7. ASSUME NEW f \in Fifo, UseFifo(f) PROVE TypeOK'
    <3>1. reserved' \in [Fifo -> Nat] /\ stored' \in [Fifo -> Nat] /\ taken' \in [Fifo -> Nat]
      <4>1. FifoTypeOK
        OBVIOUS
      <4> HIDE DEF TypeOK
      <4>2. QED
        BY <2>7, <4>1 DEF UseFifo, Push, Pop
    <3>2. UNCHANGED <<keys, queue, sm_limit, sm_en>>
      BY <2>7 DEF UseFifo
    <3>3. QED
      BY <3>1, <3>2
  <2>8. CASE UNCHANGED vars
    BY <2>8 DEF vars, fifoVars
  <2>9. QED
    BY <2>2, <2>3, <2>4, <2>5, <2>6, <2>7, <2>8 DEF Next
<1>3. QED
  BY <1>1, <1>2, PTL DEF Spec

\* A key is in the semaphore or its slot is in use, at all times.
THEOREM KeysCorrect == Spec => []KeysConserved
<1>1. Init => KeysConserved
  <2> SUFFICES ASSUME Init, NEW f \in Fifo PROVE keys[f] + Busy(f) = sm_limit[f]
    BY DEF KeysConserved
  <2>1. sm_limit[f] \in Limits
    BY DEF Init
  <2>2. sm_limit[f] \in Nat
    BY <2>1
  <2>3. QED
    BY <2>2 DEF Init, FifoInit, Busy
<1>2. TypeOK /\ KeysConserved /\ [Next]_vars => KeysConserved'
  <2> SUFFICES ASSUME TypeOK, KeysConserved, [Next]_vars PROVE KeysConserved'
    OBVIOUS
  <2> USE DEF KeysConserved, Busy
  <2>0. /\ keys \in [Fifo -> Nat] /\ reserved \in [Fifo -> Nat]
        /\ stored \in [Fifo -> Nat] /\ taken \in [Fifo -> Nat]
    BY DEF TypeOK, FifoTypeOK
  <2>1. ASSUME NEW f \in Fifo, NEW n \in Counts, Take(f, n), UNCHANGED sm_limit
        PROVE  KeysConserved'
    BY <2>0, <2>1, Numbers, CountsArePositive DEF Take, Reserve
  <2>2. ASSUME NEW f \in Fifo, NEW en \in BOOLEAN, SetEnable(f, en)
        PROVE  KeysConserved'
    BY <2>2 DEF SetEnable, fifoVars
  <2>3. ASSUME NEW u \in Users, NEW f \in Fifo, NEW n \in Counts, Lock(u, f, n)
        PROVE  KeysConserved'
    BY <2>1, <2>3 DEF Lock, fifoVars
  <2>4. ASSUME NEW f \in Fifo, Grant(f) PROVE KeysConserved'
    <3>1. Head(queue[f]) \in Waiter
      BY <2>4 DEF Grant, TypeOK
    <3>2. Head(queue[f]).count \in Counts
      BY <3>1 DEF Waiter
    <3>3. QED
      BY <2>1, <2>4, <3>2 DEF Grant
  <2>5. ASSUME NEW u \in Users, NEW f \in Fifo, NEW n \in Counts, TryLock(u, f, n)
        PROVE  KeysConserved'
    BY <2>1, <2>5 DEF TryLock
  <2>6. ASSUME NEW f \in Fifo, NEW n \in Counts, Free(f, n) PROVE KeysConserved'
    <3> SUFFICES ASSUME NEW g \in Fifo
                 PROVE  (keys[g] + (reserved[g] + stored[g] + taken[g]) = sm_limit[g])'
      OBVIOUS
    <3>1. /\ keys[g] \in Nat /\ reserved[g] \in Nat /\ stored[g] \in Nat
          /\ taken[g] \in Nat /\ n \in Nat
          /\ keys[g] + (reserved[g] + stored[g] + taken[g]) = sm_limit[g]
      BY Numbers, CountsArePositive
    <3>2. QED
      BY <2>0, <2>6, <3>1 DEF Free, GiveBack
  <2>7. ASSUME NEW f \in Fifo, UseFifo(f) PROVE KeysConserved'
    <3> SUFFICES ASSUME NEW g \in Fifo
                 PROVE  (keys[g] + (reserved[g] + stored[g] + taken[g]) = sm_limit[g])'
      OBVIOUS
    <3>1. /\ keys[g] \in Nat /\ reserved[g] \in Nat /\ stored[g] \in Nat
          /\ taken[g] \in Nat
          /\ keys[g] + (reserved[g] + stored[g] + taken[g]) = sm_limit[g]
      BY Numbers
    <3>2. QED
      BY <2>0, <2>7, <3>1 DEF UseFifo, Push, Pop
  <2>8. CASE UNCHANGED vars
    BY <2>8 DEF vars, fifoVars
  <2>9. QED
    BY <2>2, <2>3, <2>4, <2>5, <2>6, <2>7, <2>8 DEF Next
<1>3. QED
  BY <1>1, <1>2, TypeCorrect, PTL DEF Spec

\* A protected FIFO never holds more entries than its limit.
THEOREM OverflowFree == Spec => []NeverOverflows
<1>1. TypeOK /\ KeysConserved => NeverOverflows
  <2> SUFFICES ASSUME TypeOK, KeysConserved, NEW f \in Fifo
               PROVE  stored[f] <= sm_limit[f]
    BY DEF NeverOverflows
  <2>1. keys[f] + (reserved[f] + stored[f] + taken[f]) = sm_limit[f]
    BY DEF KeysConserved, Busy
  <2>2. QED
    BY <2>1, Numbers
<1>2. QED
  BY <1>1, TypeCorrect, KeysCorrect, PTL

\* What the loop of get_resource_count returns: the keys, or the limit
\* should there ever be more keys than that.
LEMMA ResourceCount ==
  ASSUME TypeOK, NEW f \in Fifo, keys[f] <= sm_limit[f]
  PROVE  get_resource_count(f) = keys[f]
<1>1. keys[f] \in Nat /\ sm_limit[f] \in Nat
  BY Numbers
<1>2. {i \in 1..sm_limit[f] : \A j \in 1..i : keys[f] >= j} = 1..keys[f]
  BY <1>1
<1>3. Cardinality(1..keys[f]) = keys[f]
  BY <1>1, FS_Interval
<1>4. QED
  BY <1>2, <1>3 DEF get_resource_count

\* are_all_free tells exactly whether any slot of any FIFO is in use.
THEOREM AllFreeCorrect == Spec => []AllFreeIsExact
<1>1. TypeOK /\ KeysConserved => AllFreeIsExact
  <2> SUFFICES ASSUME TypeOK, KeysConserved, NEW f \in Fifo
               PROVE  get_resource_count(f) = sm_limit[f] <=> Busy(f) = 0
    BY DEF AllFreeIsExact, are_all_free
  <2>1. /\ keys[f] \in Nat /\ sm_limit[f] \in Nat /\ Busy(f) \in Nat
        /\ keys[f] + Busy(f) = sm_limit[f]
    BY Numbers DEF Busy, KeysConserved
  <2>2. get_resource_count(f) = keys[f]
    BY <2>1, ResourceCount
  <2>3. QED
    BY <2>1, <2>2
<1>2. QED
  BY <1>1, TypeCorrect, KeysCorrect, PTL

\* The class with semaphores is the same pool of slots as the class with
\* objections: a slot is in use when its key is not in the semaphore.
THEOREM PoolImplemented == Spec => ImplementsPool
<1>1. Init => Pool!PoolInit
  <2> SUFFICES ASSUME Init PROVE Pool!PoolInit
    OBVIOUS
  <2>1. sm_limit \in [Fifo -> Nat]
    BY DEF Init
  <2>2. [f \in Fifo |-> sm_limit[f] - keys[f]] = [f \in Fifo |-> 0]
    BY <2>1 DEF Init
  <2>3. QED
    BY <2>1, <2>2 DEF Pool!PoolInit
<1>2. TypeOK /\ KeysConserved /\ [Next]_vars => [Pool!PoolNext]_(Pool!poolVars)
  <2> DEFINE used == [f \in Fifo |-> sm_limit[f] - keys[f]]
  <2> SUFFICES ASSUME TypeOK, KeysConserved, [Next]_vars
               PROVE  Pool!PoolNext \/ UNCHANGED <<sm_limit, used>>
    BY DEF Pool!poolVars
  <2>1. ASSUME NEW f \in Fifo, NEW n \in Counts, keys[f] >= n, Take(f, n),
               UNCHANGED sm_limit
        PROVE  Pool!PoolNext
    <3>1. n \in 1..sm_limit[f] /\ used[f] + n <= sm_limit[f]
      BY <2>1, Numbers, CountsArePositive DEF KeysConserved, Busy
    <3>2. used' = [used EXCEPT ![f] = @ + n]
      <4>1. ASSUME NEW g \in Fifo
            PROVE  used'[g] = IF g = f THEN used[f] + n ELSE used[g]
        <5>1. keys[g] \in Nat /\ sm_limit[g] \in Nat /\ n \in Nat
          BY Numbers, CountsArePositive
        <5>2. QED
          BY <2>1, <5>1 DEF Take, TypeOK
      <4>2. QED
        BY <4>1
    <3>3. Pool!Acquire(f, n)
      BY <2>1, <3>1, <3>2 DEF Pool!Acquire
    <3>4. QED
      BY <3>1, <3>3 DEF Pool!PoolNext
  <2>2. ASSUME NEW f \in Fifo, Grant(f) PROVE Pool!PoolNext
    <3>1. Head(queue[f]) \in Waiter
      BY <2>2 DEF Grant, TypeOK
    <3>2. Head(queue[f]).count \in Counts
      BY <3>1 DEF Waiter
    <3>3. QED
      BY <2>1, <2>2, <3>2 DEF Grant
  <2>3. ASSUME NEW f \in Fifo, NEW n \in Counts, Free(f, n) PROVE Pool!PoolNext
    <3>1. n \in 1..sm_limit[f] /\ n <= used[f]
      BY <2>3, Numbers, CountsArePositive DEF Free, GiveBack, KeysConserved, Busy
    <3>2. used' = [used EXCEPT ![f] = @ - n]
      <4>1. ASSUME NEW g \in Fifo
            PROVE  used'[g] = IF g = f THEN used[f] - n ELSE used[g]
        <5>1. keys[g] \in Nat /\ sm_limit[g] \in Nat /\ n \in Nat
          BY Numbers, CountsArePositive
        <5>2. QED
          BY <2>3, <5>1 DEF Free, TypeOK
      <4>2. QED
        BY <4>1
    <3>3. Pool!Release(f, n)
      BY <2>3, <3>1, <3>2 DEF Pool!Release, Free
    <3>4. QED
      BY <3>1, <3>3 DEF Pool!PoolNext
  <2>4. ASSUME NEW u \in Users, NEW f \in Fifo, NEW n \in Counts, Lock(u, f, n)
        PROVE  Pool!PoolNext \/ UNCHANGED <<sm_limit, used>>
    BY <2>1, <2>4 DEF Lock
  <2>5. ASSUME NEW u \in Users, NEW f \in Fifo, NEW n \in Counts, TryLock(u, f, n)
        PROVE  Pool!PoolNext
    BY <2>1, <2>5 DEF TryLock
  <2>6. QED
    BY <2>2, <2>3, <2>4, <2>5 DEF Next, SetEnable, UseFifo, vars
<1>3. QED
  BY <1>1, <1>2, TypeCorrect, KeysCorrect, PTL
     DEF Spec, ImplementsPool, Pool!PoolSpec
=============================================================================
