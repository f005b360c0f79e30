---------------------------- MODULE FifoSemaphore ---------------------------
(***************************************************************************)
(* fifo_protection_semaphore.sv: a SystemVerilog semaphore for each FIFO   *)
(* holds a key for every free slot.  lock gets keys, try_lock gets them    *)
(* only if it need not wait, free puts keys back.  The semaphore serves    *)
(* the threads that wait in the order in which they arrived.               *)
(***************************************************************************)
EXTENDS ProtectedFifo, FiniteSets, Sequences

VARIABLES
  keys,          \* keys in the semaphores
  queue,         \* the threads that wait, with the keys they wait for
  sm_limit,
  sm_en

vars == <<keys, queue, sm_limit, sm_en, fifoVars>>

Waiter == [user : Users, count : Counts]

TypeOK ==
  /\ keys \in [Fifo -> Nat]
  /\ queue \in [Fifo -> Seq(Waiter)]
  /\ sm_limit \in [Fifo -> Limits]
  /\ sm_en \in [Fifo -> BOOLEAN]
  /\ FifoTypeOK

\* init_protection was called for every FIFO in the build phase.
Init ==
  /\ sm_limit \in [Fifo -> Limits]
  /\ keys = sm_limit
  /\ queue = [f \in Fifo |-> <<>>]
  /\ sm_en \in [Fifo -> BOOLEAN]
  /\ FifoInit

SetEnable(f, en) ==
  /\ sm_en' = [sm_en EXCEPT ![f] = en]
  /\ UNCHANGED <<keys, queue, sm_limit, fifoVars>>

Waits(u, f) == \E i \in DOMAIN queue[f] : queue[f][i].user = u

Idle(u) == \A f \in Fifo : ~Waits(u, f)

\* Variant: only one key is taken whatever the number asked for.
Take_OneKey(f, n) ==
  /\ keys' = [keys EXCEPT ![f] = @ - 1]
  /\ Reserve(f, n)

Take(f, n) ==
  /\ keys' = [keys EXCEPT ![f] = @ - n]
  /\ Reserve(f, n)

\* semaphore.get: at once if there are keys and nobody is before u,
\* otherwise u joins the queue.
Lock(u, f, n) ==
  /\ Idle(u)
  /\ IF queue[f] = <<>> /\ keys[f] >= n
     THEN Take(f, n) /\ UNCHANGED queue
     ELSE /\ queue' = [queue EXCEPT ![f] = Append(@, [user |-> u, count |-> n])]
          /\ UNCHANGED <<keys, fifoVars>>
  /\ UNCHANGED <<sm_limit, sm_en>>

\* The semaphore gives the first thread of the queue its keys.
Grant(f) ==
  /\ queue[f] # <<>>
  /\ keys[f] >= Head(queue[f]).count
  /\ Take(f, Head(queue[f]).count)
  /\ queue' = [queue EXCEPT ![f] = Tail(@)]
  /\ UNCHANGED <<sm_limit, sm_en>>

\* semaphore.try_get takes keys that are there whether others wait or not;
\* when there are too few it returns 0 and nothing changes.
TryLock(u, f, n) ==
  /\ Idle(u)
  /\ keys[f] >= n
  /\ Take(f, n)
  /\ UNCHANGED <<queue, sm_limit, sm_en>>

\* Variant: free puts back one key whatever the number given.
Free_OneKey(f, n) ==
  /\ GiveBack(f, n)
  /\ keys' = [keys EXCEPT ![f] = @ + 1]
  /\ UNCHANGED <<queue, sm_limit, sm_en>>

Free(f, n) ==
  /\ GiveBack(f, n)
  /\ keys' = [keys EXCEPT ![f] = @ + n]
  /\ UNCHANGED <<queue, sm_limit, sm_en>>

\* Variant: the loop stops before the limit.
get_resource_count_Short(f) ==
  Cardinality({i \in 1..(sm_limit[f] - 1) : \A j \in 1..i : keys[f] >= j})

\* The loop of get_resource_count tries i = 1, 2, ... keys up to the limit,
\* puts back what it got, and stops at the first i it cannot get.
get_resource_count(f) ==
  Cardinality({i \in 1..sm_limit[f] : \A j \in 1..i : keys[f] >= j})

are_all_free == \A f \in Fifo : get_resource_count(f) = sm_limit[f]

UseFifo(f) ==
  /\ Push(f) \/ Pop(f)
  /\ UNCHANGED <<keys, queue, sm_limit, sm_en>>

Next ==
  \/ \E f \in Fifo, en \in BOOLEAN : SetEnable(f, en)
  \/ \E u \in Users, f \in Fifo, n \in Counts : Lock(u, f, n)
  \/ \E f \in Fifo : Grant(f)
  \/ \E u \in Users, f \in Fifo, n \in Counts : TryLock(u, f, n)
  \/ \E f \in Fifo, n \in Counts : Free(f, n)
  \/ \E f \in Fifo : UseFifo(f)

\* The semaphore serves its queue; the environment goes on: what is locked
\* is pushed, what is stored is popped, what is popped is freed.
Fairness ==
  \A f \in Fifo :
    /\ WF_vars(Grant(f))
    /\ WF_vars(Push(f) /\ UNCHANGED <<keys, queue, sm_limit, sm_en>>)
    /\ WF_vars(Pop(f) /\ UNCHANGED <<keys, queue, sm_limit, sm_en>>)
    /\ WF_vars(\E n \in Counts : Free(f, n))

Spec == Init /\ [][Next]_vars /\ Fairness
-----------------------------------------------------------------------------
\* Every slot has its key, in the semaphore or in the hands of the
\* environment: no key is lost or made.
KeysConserved == \A f \in Fifo : keys[f] + Busy(f) = sm_limit[f]

\* What the class is for: a FIFO whose depth is the limit never overflows.
NeverOverflows == \A f \in Fifo : stored[f] <= sm_limit[f]

\* "Checks if all semaphores have been released"
\* (fifo_protection_semaphore.sv:144): are_all_free says so exactly when
\* no slot of any FIFO is in use.
AllFreeIsExact == are_all_free <=> \A f \in Fifo : Busy(f) = 0

\* try_lock takes keys past the threads that wait in lock.
Overtakes == \E f \in Fifo :
  queue[f] # <<>> /\ queue'[f] = queue[f] /\ keys'[f] < keys[f]

\* A thread that waits in lock is served, unless try_lock never stops taking
\* the keys: the order of the semaphore keeps the threads that want few
\* slots from starving one that wants many (lock, lines 101-112).
EveryLockServed ==
  <>[][~Overtakes]_vars =>
    \A u \in Users, f \in Fifo : Waits(u, f) ~> ~Waits(u, f)

Pool == INSTANCE SlotPool WITH
  limit <- sm_limit, used <- [f \in Fifo |-> sm_limit[f] - keys[f]]

ImplementsPool == Pool!PoolSpec
=============================================================================
