---------------------------- MODULE FifoObjection ---------------------------
(***************************************************************************)
(* fifo_protection_objection.sv: a UVM objection for each FIFO counts the  *)
(* slots in use.  lock waits until enough of them are free and raises the  *)
(* objection; free drops it, which wakes every thread that waits.          *)
(* Threads are cooperative, so a woken thread may find the slots gone.     *)
(***************************************************************************)
EXTENDS ProtectedFifo

VARIABLES
  objs,          \* objection counts
  objs_limit,
  objs_en,
  draining,      \* the count has come to 0, UVM has not yet said "all dropped"
  thread         \* where each thread is inside the class

vars == <<objs, objs_limit, objs_en, draining, thread, fifoVars>>

Events == {"UVM_RAISED", "UVM_DROPPED", "UVM_ALL_DROPPED"}

\* A thread is outside the class, or in lock: in wait_for(UVM_DROPPED) of
\* wait_for_resources ("wait") or woken there and about to look at the count
\* again ("check"), or in wait_for_event.
Idle == [at |-> "idle"]
Locking == [at : {"wait", "check"}, fifo : Fifo, count : Counts]
Listening == [at : {"event"}, fifo : Fifo, event : Events]

ThreadStates == {Idle} \cup Locking \cup Listening

TypeOK ==
  /\ objs \in [Fifo -> Nat]
  /\ objs_limit \in [Fifo -> Limits]
  /\ objs_en \in [Fifo -> BOOLEAN]
  /\ draining \in [Fifo -> BOOLEAN]
  /\ thread \in [Users -> ThreadStates]
  /\ FifoTypeOK

\* init_protection was called for every FIFO in the build phase.
Init ==
  /\ objs = [f \in Fifo |-> 0]
  /\ objs_limit \in [Fifo -> Limits]
  /\ objs_en \in [Fifo -> BOOLEAN]
  /\ draining = [f \in Fifo |-> FALSE]
  /\ thread = [u \in Users |-> Idle]
  /\ FifoInit

SetEnable(f, en) ==
  /\ objs_en' = [objs_en EXCEPT ![f] = en]
  /\ UNCHANGED <<objs, objs_limit, draining, thread, fifoVars>>

get_resource_count(f) == objs[f]

\* Variant: one slot more than the limit is given away.
Enough_OffByOne(f, n) == objs_limit[f] - get_resource_count(f) >= n - 1

\* The condition on which wait_for_resources leaves its loop.
Enough(f, n) == objs_limit[f] - get_resource_count(f) >= n

are_all_free == \A f \in Fifo : get_resource_count(f) = 0

\* Variant: lock waits until all has been dropped.
LockEvent_AllDropped == "UVM_ALL_DROPPED"

\* The event wait_for_resources waits for.
LockEvent == "UVM_DROPPED"

\* The threads once an event of the objection of FIFO f has been triggered:
\* those in wait_for_event for it return, those in lock look at the count.
Notified(f, event) ==
  [u \in Users |->
     IF thread[u].at = "event" /\ thread[u].fifo = f /\ thread[u].event = event
     THEN Idle
     ELSE IF thread[u].at = "wait" /\ thread[u].fifo = f /\ event = LockEvent
     THEN [at |-> "check", fifo |-> f, count |-> thread[u].count]
     ELSE thread[u]]

\* lock has found the resources: it raises the objection and returns.  No
\* other thread runs between the last look at the count and the raise.
Raise(u, f, n) ==
  /\ objs' = [objs EXCEPT ![f] = @ + n]
  /\ draining' = [draining EXCEPT ![f] = FALSE]
  /\ thread' = [Notified(f, "UVM_RAISED") EXCEPT ![u] = Idle]
  /\ Reserve(f, n)

Wait(u, f, n) ==
  /\ thread' = [thread EXCEPT ![u] = [at |-> "wait", fifo |-> f, count |-> n]]
  /\ UNCHANGED <<objs, draining, fifoVars>>

\* One look of wait_for_resources at the count.
LockOrWait(u, f, n) ==
  /\ IF Enough(f, n) THEN Raise(u, f, n) ELSE Wait(u, f, n)
  /\ UNCHANGED <<objs_limit, objs_en>>

Lock(u, f, n) == thread[u] = Idle /\ LockOrWait(u, f, n)

\* Variants: "if" in the place of "while", so that a woken thread does not
\* look again; a woken thread that never finds the slots.
Recheck_Once(u) ==
  /\ thread[u].at = "check"
  /\ Raise(u, thread[u].fifo, thread[u].count)
  /\ UNCHANGED <<objs_limit, objs_en>>

Recheck_Never(u) ==
  /\ thread[u].at = "check"
  /\ Wait(u, thread[u].fifo, thread[u].count)
  /\ UNCHANGED <<objs_limit, objs_en>>

\* A thread woken in wait_for_resources.
Recheck(u) ==
  /\ thread[u].at = "check"
  /\ LockOrWait(u, thread[u].fifo, thread[u].count)

Free(f, n) ==
  /\ n <= objs[f]            \* to drop more is a fatal error of UVM
  /\ GiveBack(f, n)
  /\ objs' = [objs EXCEPT ![f] = @ - n]
  /\ draining' = [draining EXCEPT ![f] = objs'[f] = 0]
  /\ thread' = Notified(f, "UVM_DROPPED")
  /\ UNCHANGED <<objs_limit, objs_en>>

\* UVM triggers all_dropped later, unless the objection was raised again.
AllDropped(f) ==
  /\ draining[f]
  /\ draining' = [draining EXCEPT ![f] = FALSE]
  /\ thread' = Notified(f, "UVM_ALL_DROPPED")
  /\ UNCHANGED <<objs, objs_limit, objs_en, fifoVars>>

\* wait_for_event waits whatever the enable flag says.
WaitForEvent(u, f, event) ==
  /\ thread[u] = Idle
  /\ thread' = [thread EXCEPT ![u] = [at |-> "event", fifo |-> f, event |-> event]]
  /\ UNCHANGED <<objs, objs_limit, objs_en, draining, fifoVars>>

UseFifo(f) ==
  /\ Push(f) \/ Pop(f)
  /\ UNCHANGED <<objs, objs_limit, objs_en, draining, thread>>

Next ==
  \/ \E f \in Fifo, en \in BOOLEAN : SetEnable(f, en)
  \/ \E u \in Users, f \in Fifo, n \in Counts : Lock(u, f, n)
  \/ \E u \in Users : Recheck(u)
  \/ \E f \in Fifo, n \in Counts : Free(f, n)
  \/ \E f \in Fifo : AllDropped(f)
  \/ \E u \in Users, f \in Fifo, event \in Events : WaitForEvent(u, f, event)
  \/ \E f \in Fifo : UseFifo(f)

\* The simulator runs a thread that has been woken.
Spec == Init /\ [][Next]_vars /\ \A u \in Users : WF_vars(Recheck(u))
-----------------------------------------------------------------------------
\* The objection counts exactly the slots in the hands of the environment,
\* and never more of them than the limit.
CountsExactly == \A f \in Fifo : objs[f] = Busy(f) /\ objs[f] <= objs_limit[f]

\* What the class is for: a FIFO whose depth is the limit never overflows.
NeverOverflows == \A f \in Fifo : stored[f] <= objs_limit[f]

\* are_all_free says so exactly when no slot of any FIFO is in use.
AllFreeIsExact == are_all_free <=> \A f \in Fifo : Busy(f) = 0

\* No lost wakeup: a thread stays in wait_for(UVM_DROPPED) only while the
\* slots it wants are not there.
NoLostWakeup ==
  \A u \in Users :
    thread[u].at = "wait" => ~Enough(thread[u].fifo, thread[u].count)

\* A woken thread for which there are slots gets them, unless another takes
\* them before.
ServedWhenEnough ==
  \A u \in Users :
    thread[u].at = "check" ~>
      \/ thread[u].at = "idle"
      \/ thread[u].at = "wait" /\ ~Enough(thread[u].fifo, thread[u].count)

Pool == INSTANCE SlotPool WITH limit <- objs_limit, used <- objs

ImplementsPool == Pool!PoolSpec
=============================================================================
