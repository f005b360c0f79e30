---------------------------- MODULE ProtectedFifo ---------------------------
(***************************************************************************)
(* The FIFOs a verification environment protects and the way it is meant   *)
(* to use a fifo_protection: a producer locks the slots it needs before it *)
(* pushes, a consumer frees them after it has popped.  This is code of the *)
(* environment that uses the class; the class does not see the FIFOs.      *)
(***************************************************************************)
EXTENDS Integers

CONSTANTS
  Fifo,          \* the enumeration fifo_t
  Users,         \* threads of the environment that call lock
  Counts,        \* the counts they lock and free
  Limits         \* the limits init_protection is called with

ASSUME FifoAssumption ==
  /\ Fifo # {}
  /\ Counts \subseteq Nat \ {0}
  /\ Limits \subseteq Nat

VARIABLES
  reserved,      \* slots locked, nothing pushed into them yet
  stored,        \* entries in the FIFO
  taken          \* entries popped whose slots have not been freed

fifoVars == <<reserved, stored, taken>>

FifoTypeOK ==
  /\ reserved \in [Fifo -> Nat]
  /\ stored \in [Fifo -> Nat]
  /\ taken \in [Fifo -> Nat]

FifoInit ==
  /\ reserved = [f \in Fifo |-> 0]
  /\ stored = [f \in Fifo |-> 0]
  /\ taken = [f \in Fifo |-> 0]

\* Slots in the hands of the environment.
Busy(f) == reserved[f] + stored[f] + taken[f]

Push(f) ==
  /\ reserved[f] > 0
  /\ reserved' = [reserved EXCEPT ![f] = @ - 1]
  /\ stored' = [stored EXCEPT ![f] = @ + 1]
  /\ UNCHANGED taken

Pop(f) ==
  /\ stored[f] > 0
  /\ stored' = [stored EXCEPT ![f] = @ - 1]
  /\ taken' = [taken EXCEPT ![f] = @ + 1]
  /\ UNCHANGED reserved

\* What a lock and a free of n slots mean to the environment.
Reserve(f, n) ==
  /\ reserved' = [reserved EXCEPT ![f] = @ + n]
  /\ UNCHANGED <<stored, taken>>

GiveBack(f, n) ==
  /\ n <= taken[f]
  /\ taken' = [taken EXCEPT ![f] = @ - n]
  /\ UNCHANGED <<reserved, stored>>
=============================================================================
