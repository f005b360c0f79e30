------------------------ MODULE FifoObjectionProofs -------------------------
(***************************************************************************)
(* The protection by objections is safe for every set of FIFOs, threads,   *)
(* counts and limits.  The invariant CountsExactly is not inductive alone: *)
(* it needs the types, and what NoLostWakeup says of the waiting threads   *)
(* is kept only because a drop notifies all of them.                       *)
(***************************************************************************)
EXTENDS FifoObjection, TLAPS

USE FifoAssumption

\* The counters of a FIFO, and the counts that are locked, are numbers.
LEMMA Numbers ==
  ASSUME TypeOK, NEW f \in Fifo
  PROVE  /\ objs[f] \in Nat /\ objs_limit[f] \in Nat
         /\ reserved[f] \in Nat /\ stored[f] \in Nat /\ taken[f] \in Nat
<1>1. objs_limit[f] \in Limits
  BY DEF TypeOK
<1>2. QED
  BY <1>1 DEF TypeOK, FifoTypeOK

LEMMA CountsArePositive == ASSUME NEW n \in Counts PROVE n \in Nat /\ n >= 1
  OBVIOUS

\* An event leaves every thread in a legal state, and makes none wait.
LEMMA NotifiedType ==
  ASSUME thread \in [Users -> ThreadStates], NEW f \in Fifo, NEW event \in Events
  PROVE  /\ Notified(f, event) \in [Users -> ThreadStates]
         /\ \A u \in Users : Notified(f, event)[u].at = "wait" =>
              /\ Notified(f, event)[u] = thread[u]
              /\ event = "UVM_DROPPED" => thread[u].fifo # f
<1>1. ASSUME NEW u \in Users, thread[u].at = "wait"
      PROVE  thread[u].count \in Counts
  BY <1>1 DEF ThreadStates, Idle, Locking, Listening
<1>2. ASSUME NEW u \in Users, thread[u].at = "wait"
      PROVE  [at |-> "check", fifo |-> f, count |-> thread[u].count] \in ThreadStates
  BY <1>1, <1>2 DEF ThreadStates, Locking
<1>3. Idle \in ThreadStates /\ Idle.at = "idle"
  BY DEF ThreadStates, Idle
<1>4. QED
  BY <1>2, <1>3 DEF Notified, LockEvent

\* The request of a thread that is inside lock.
LEMMA Request ==
  ASSUME thread \in [Users -> ThreadStates], NEW u \in Users,
         thread[u].at \in {"wait", "check"}
  PROVE  thread[u].fifo \in Fifo /\ thread[u].count \in Counts
  BY DEF ThreadStates, Idle, Locking, Listening

\* The counters and the threads inside the class keep their types.
THEOREM TypeCorrect == Spec => []TypeOK
<1>1. Init => TypeOK
  BY DEF Init, TypeOK, FifoInit, FifoTypeOK, ThreadStates
<1>2. TypeOK /\ [Next]_vars => TypeOK'
  <2> SUFFICES ASSUME TypeOK, [Next]_vars PROVE TypeOK'
    OBVIOUS
  <2> USE DEF TypeOK, FifoTypeOK
  <2>1. ASSUME NEW u \in Users, NEW f \in Fifo, NEW n \in Counts, LockOrWait(u, f, n)
        PROVE  TypeOK'
    <3>1. CASE Raise(u, f, n)
      <4>1. Notified(f, "UVM_RAISED") \in [Users -> ThreadStates]
        BY NotifiedType DEF Events
      <4>2. thread' \in [Users -> ThreadStates]
        BY <3>1, <4>1 DEF Raise, ThreadStates
      <4>3. QED
        BY <2>1, <3>1, <4>2 DEF LockOrWait, Raise, Reserve
    <3>2. CASE Wait(u, f, n)
      <4>1. [at |-> "wait", fifo |-> f, count |-> n] \in ThreadStates
        BY DEF ThreadStates, Locking
      <4>2. thread' \in [Users -> ThreadStates]
        BY <3>2, <4>1 DEF Wait
      <4>3. QED
        BY <2>1, <3>2, <4>2 DEF LockOrWait, Wait, fifoVars
    <3>3. QED
      BY <2>1, <3>1, <3>2 DEF LockOrWait
  <2>2. ASSUME NEW f \in Fifo, NEW en \in BOOLEAN, SetEnable(f, en) PROVE TypeOK'
    BY <2>2 DEF SetEnable, fifoVars
  <2>3. ASSUME NEW u \in Users, NEW f \in Fifo, NEW n \in Counts, Lock(u, f, n)
        PROVE  TypeOK'
    BY <2>1, <2>3 DEF Lock
  <2>4. ASSUME NEW u \in Users, Recheck(u) PROVE TypeOK'
    BY <2>1, <2>4, Request DEF Recheck
  <2>5. ASSUME NEW f \in Fifo, NEW n \in Counts, Free(f, n) PROVE TypeOK'
    <3>1. thread' \in [Users -> ThreadStates]
      BY <2>5, NotifiedType DEF Free, Events
    <3>2. QED
      BY <2>5, <3>1 DEF Free, GiveBack
  <2>6. ASSUME NEW f \in Fifo, AllDropped(f) PROVE TypeOK'
    <3>1. thread' \in [Users -> ThreadStates]
      BY <2>6, NotifiedType DEF AllDropped, Events
    <3>2. QED
      BY <2>6, <3>1 DEF AllDropped, fifoVars
  <2>7. ASSUME NEW u \in Users, NEW f \in Fifo, NEW event \in Events,
               WaitForEvent(u, f, event)
        PROVE  TypeOK'
    <3>1. [at |-> "event", fifo |-> f, event |-> event] \in ThreadStates
      BY DEF ThreadStates, Listening
    <3>2. QED
      BY <2>7, <3>1 DEF WaitForEvent, fifoVars
  <2>8. ASSUME NEW f \in Fifo, UseFifo(f) PROVE TypeOK'
    BY <2>8 DEF UseFifo, Push, Pop
  <2>9. CASE UNCHANGED vars
    BY <2>9 DEF vars, fifoVars
  <2>10. QED
    BY <2>2, <2>3, <2>4, <2>5, <2>6, <2>7, <2>8, <2>9 DEF Next
<1>3. QED
  BY <1>1, <1>2, PTL DEF Spec

\* The count of each objection equals the slots the environment has and
\* stays within the limit, whatever the interleaving of locks and frees.
THEOREM CountsCorrect == Spec => []CountsExactly
<1>1. Init => CountsExactly
  <2> SUFFICES ASSUME Init, NEW f \in Fifo
               PROVE  objs[f] = Busy(f) /\ objs[f] <= objs_limit[f]
    BY DEF CountsExactly
  <2>1. objs_limit[f] \in Limits
    BY DEF Init
  <2>2. objs_limit[f] \in Nat
    BY <2>1
  <2>3. objs[f] = 0 /\ reserved[f] = 0 /\ stored[f] = 0 /\ taken[f] = 0
    BY DEF Init, FifoInit
  <2>4. QED
    BY <2>2, <2>3 DEF Busy
<1>2. TypeOK /\ CountsExactly /\ [Next]_vars => CountsExactly'
  <2> SUFFICES ASSUME TypeOK, CountsExactly, [Next]_vars PROVE CountsExactly'
    OBVIOUS
  <2> USE DEF TypeOK, FifoTypeOK, CountsExactly, Busy
  <2>1. ASSUME NEW u \in Users, NEW f \in Fifo, NEW n \in Counts, LockOrWait(u, f, n)
        PROVE  CountsExactly'
    <3>1. CASE Enough(f, n) /\ Raise(u, f, n)
      <4>1. objs[f] + n <= objs_limit[f]
        BY <3>1, Numbers, CountsArePositive DEF Enough, get_resource_count
      <4>2. QED
        BY <2>1, <3>1, <4>1 DEF LockOrWait, Raise, Reserve
    <3>2. CASE Wait(u, f, n)
      BY <2>1, <3>2 DEF LockOrWait, Wait, fifoVars
    <3>3. QED
      BY <2>1, <3>1, <3>2 DEF LockOrWait
  <2>2. ASSUME NEW f \in Fifo, NEW en \in BOOLEAN, SetEnable(f, en)
        PROVE  CountsExactly'
    BY <2>2 DEF SetEnable, fifoVars
  <2>3. ASSUME NEW u \in Users, NEW f \in Fifo, NEW n \in Counts, Lock(u, f, n)
        PROVE  CountsExactly'
    BY <2>1, <2>3 DEF Lock
  <2>4. ASSUME NEW u \in Users, Recheck(u) PROVE CountsExactly'
    BY <2>1, <2>4, Request DEF Recheck
  <2>5. ASSUME NEW f \in Fifo, NEW n \in Counts, Free(f, n) PROVE CountsExactly'
    BY <2>5, Numbers, CountsArePositive DEF Free, GiveBack
  <2>6. ASSUME NEW f \in Fifo, AllDropped(f) PROVE CountsExactly'
    BY <2>6 DEF AllDropped, fifoVars
  <2>7. ASSUME NEW u \in Users, NEW f \in Fifo, NEW event \in Events,
               WaitForEvent(u, f, event)
        PROVE  CountsExactly'
    BY <2>7 DEF WaitForEvent, fifoVars
  <2>8. ASSUME NEW f \in Fifo, UseFifo(f) PROVE CountsExactly'
    BY <2>8 DEF UseFifo, Push, Pop
  <2>9. CASE UNCHANGED vars
    BY <2>9 DEF vars, fifoVars
  <2>10. QED
    BY <2>2, <2>3, <2>4, <2>5, <2>6, <2>7, <2>8, <2>9 DEF Next
<1>3. QED
  BY <1>1, <1>2, TypeCorrect, PTL DEF Spec

\* A protected FIFO never holds more entries than its limit.
THEOREM OverflowFree == Spec => []NeverOverflows
<1>1. TypeOK /\ CountsExactly => NeverOverflows
  <2> SUFFICES ASSUME TypeOK, CountsExactly, NEW f \in Fifo
               PROVE  stored[f] <= objs_limit[f]
    BY DEF NeverOverflows
  <2>1. reserved[f] + stored[f] + taken[f] <= objs_limit[f]
    BY DEF CountsExactly, Busy
  <2>2. QED
    BY <2>1, Numbers
<1>2. QED
  BY <1>1, TypeCorrect, CountsCorrect, PTL

\* are_all_free tells exactly whether any slot of any FIFO is in use.
THEOREM AllFreeCorrect == Spec => []AllFreeIsExact
<1>1. CountsExactly => AllFreeIsExact
  BY DEF CountsExactly, AllFreeIsExact, are_all_free, get_resource_count
<1>2. QED
  BY <1>1, CountsCorrect, PTL

\* A thread stays asleep in lock only while its slots are not there: a free
\* that makes them available has woken it.
THEOREM WakeupsCorrect == Spec => []NoLostWakeup
<1>1. Init => NoLostWakeup
  BY DEF Init, NoLostWakeup, Idle
<1>2. TypeOK /\ NoLostWakeup /\ [Next]_vars => NoLostWakeup'
  <2> SUFFICES ASSUME TypeOK, NoLostWakeup, [Next]_vars,
                      NEW v \in Users, thread'[v].at = "wait"
               PROVE  ~Enough(thread[v].fifo, thread[v].count)'
    BY DEF NoLostWakeup
  <2> USE DEF TypeOK, NoLostWakeup, Enough, get_resource_count
  <2> DEFINE Asleep == ~Enough(thread[v].fifo, thread[v].count)'
  <2>1. ASSUME UNCHANGED <<objs, objs_limit>>, thread'[v] = thread[v]
        PROVE  Asleep
    BY <2>1
  <2>2. ASSUME NEW u \in Users, NEW f \in Fifo, NEW n \in Counts, LockOrWait(u, f, n)
        PROVE  Asleep
    <3>1. CASE Raise(u, f, n)
      <4>1. v # u
        BY <3>1, NotifiedType DEF Raise, Idle, Events
      <4>2. thread'[v] = thread[v]
        BY <3>1, <4>1, NotifiedType DEF Raise, Events
      <4>3. thread[v].fifo \in Fifo /\ thread[v].count \in Nat
        BY <4>2, Request, CountsArePositive
      <4>4. /\ objs'[thread[v].fifo] >= objs[thread[v].fifo]
            /\ objs'[thread[v].fifo] \in Nat
        BY <3>1, <4>3, Numbers, CountsArePositive DEF Raise
      <4>5. objs_limit' = objs_limit /\ objs_limit[thread[v].fifo] \in Nat
        BY <2>2, <4>3, Numbers DEF LockOrWait
      <4>6. QED
        BY <4>2, <4>3, <4>4, <4>5, Numbers
    <3>2. CASE ~Enough(f, n) /\ Wait(u, f, n)
      <4>1. CASE v = u
        BY <2>2, <3>2, <4>1 DEF LockOrWait, Wait
      <4>2. CASE v # u
        BY <2>1, <2>2, <3>2, <4>2 DEF LockOrWait, Wait
      <4>3. QED
        BY <4>1, <4>2
    <3>3. QED
      BY <2>2, <3>1, <3>2 DEF LockOrWait
  <2>3. ASSUME NEW f \in Fifo, NEW en \in BOOLEAN, SetEnable(f, en) PROVE Asleep
    BY <2>1, <2>3 DEF SetEnable
  <2>4. ASSUME NEW u \in Users, NEW f \in Fifo, NEW n \in Counts, Lock(u, f, n)
        PROVE  Asleep
    BY <2>2, <2>4 DEF Lock
  <2>5. ASSUME NEW u \in Users, Recheck(u) PROVE Asleep
    BY <2>2, <2>5, Request DEF Recheck
  <2>6. ASSUME NEW f \in Fifo, NEW n \in Counts, Free(f, n) PROVE Asleep
    <3>1. thread'[v] = thread[v] /\ thread[v].fifo # f
      BY <2>6, NotifiedType DEF Free, Events
    <3>2. thread[v].fifo \in Fifo
      BY <3>1, Request
    <3>3. QED
      BY <2>6, <3>1, <3>2 DEF Free
  <2>7. ASSUME NEW f \in Fifo, AllDropped(f) PROVE Asleep
    <3>1. thread'[v] = thread[v]
      BY <2>7, NotifiedType DEF AllDropped, Events
    <3>2. QED
      BY <2>1, <2>7, <3>1 DEF AllDropped
  <2>8. ASSUME NEW u \in Users, NEW f \in Fifo, NEW event \in Events,
               WaitForEvent(u, f, event)
        PROVE  Asleep
    BY <2>1, <2>8 DEF WaitForEvent
  <2>9. ASSUME NEW f \in Fifo, UseFifo(f) PROVE Asleep
    BY <2>1, <2>9 DEF UseFifo
  <2>10. CASE UNCHANGED vars
    BY <2>1, <2>10 DEF vars
  <2>11. QED
    BY <2>3, <2>4, <2>5, <2>6, <2>7, <2>8, <2>9, <2>10 DEF Next
<1>3. QED
  BY <1>1, <1>2, TypeCorrect, PTL DEF Spec

\* The class with objections is a pool of slots: its initial states are the
\* pool's, and each of its steps acquires slots, releases some or is none
\* of the pool's business.
THEOREM PoolImplemented == Spec => ImplementsPool
<1>1. Init => Pool!PoolInit
  BY DEF Init, Pool!PoolInit
<1>2. TypeOK /\ CountsExactly /\ [Next]_vars => [Pool!PoolNext]_(Pool!poolVars)
  <2> SUFFICES ASSUME TypeOK, CountsExactly, [Next]_vars
               PROVE  Pool!PoolNext \/ UNCHANGED <<objs_limit, objs>>
    BY DEF Pool!poolVars
  <2> USE DEF TypeOK
  <2>1. ASSUME NEW u \in Users, NEW f \in Fifo, NEW n \in Counts,
               Enough(f, n), Raise(u, f, n), UNCHANGED objs_limit
        PROVE  Pool!PoolNext
    <3>0. /\ objs[f] \in Nat /\ objs_limit[f] \in Nat
          /\ n \in Nat /\ n >= 1
      BY Numbers, CountsArePositive
    <3>1. n \in 1..objs_limit[f] /\ objs[f] + n <= objs_limit[f]
      BY <2>1, <3>0 DEF Enough, get_resource_count
    <3>2. Pool!Acquire(f, n)
      BY <2>1, <3>1 DEF Pool!Acquire, Raise
    <3>3. QED
      BY <3>1, <3>2 DEF Pool!PoolNext
  <2>2. ASSUME NEW u \in Users, NEW f \in Fifo, NEW n \in Counts, Lock(u, f, n)
        PROVE  Pool!PoolNext \/ UNCHANGED <<objs_limit, objs>>
    BY <2>1, <2>2 DEF Lock, LockOrWait, Wait
  <2>3. ASSUME NEW u \in Users, Recheck(u)
        PROVE  Pool!PoolNext \/ UNCHANGED <<objs_limit, objs>>
    BY <2>1, <2>3, Request DEF Recheck, LockOrWait, Wait
  <2>4. ASSUME NEW f \in Fifo, NEW n \in Counts, Free(f, n) PROVE Pool!PoolNext
    <3>1. n \in 1..objs_limit[f]
      BY <2>4, Numbers, CountsArePositive DEF Free, CountsExactly
    <3>2. Pool!Release(f, n)
      BY <2>4 DEF Free, Pool!Release
    <3>3. QED
      BY <3>1, <3>2 DEF Pool!PoolNext
  <2>5. QED
    BY <2>2, <2>3, <2>4 DEF Next, SetEnable, AllDropped, WaitForEvent, UseFifo, vars
<1>3. QED
  BY <1>1, <1>2, TypeCorrect, CountsCorrect, PTL DEF Spec, ImplementsPool, Pool!PoolSpec
=============================================================================
