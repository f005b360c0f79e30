------------------------------ MODULE SlotPool ------------------------------
(***************************************************************************)
(* What both fifo_protection classes promise: for each protected FIFO a    *)
(* pool of slots with a limit set once, from which slots are acquired and  *)
(* to which they are returned, never more in use than the limit.           *)
(***************************************************************************)
EXTENDS Naturals

CONSTANT Fifo            \* the enumeration fifo_t

VARIABLES limit, used

poolVars == <<limit, used>>

PoolInit ==
  /\ limit \in [Fifo -> Nat]
  /\ used = [f \in Fifo |-> 0]

Acquire(f, n) ==
  /\ used[f] + n <= limit[f]
  /\ used' = [used EXCEPT ![f] = @ + n]
  /\ UNCHANGED limit

Release(f, n) ==
  /\ n <= used[f]
  /\ used' = [used EXCEPT ![f] = @ - n]
  /\ UNCHANGED limit

PoolNext == \E f \in Fifo : \E n \in 1..limit[f] : Acquire(f, n) \/ Release(f, n)

PoolSpec == PoolInit /\ [][PoolNext]_poolVars
=============================================================================
