--------------------------- MODULE AtomicRegisters --------------------------
(***************************************************************************)
(* What a register model promises to the tests that use it: every read or  *)
(* write takes effect once, at one moment between its call and its return, *)
(* and a read returns what the register held at that moment.               *)
(***************************************************************************)
EXTENDS Naturals

CONSTANTS Threads, Regs, Data

VARIABLES
  contents,      \* what the registers hold
  access,        \* the access each thread has called, see Accesses
  effect,        \* what the access did: the data read or written
  rdata          \* what the last access of each thread returned

registerVars == <<contents, access, effect, rdata>>

\* "called": not in effect yet; "done": in effect, not returned yet.
NoAccess == [at |-> "idle"]
Accesses == [at : {"called", "done"}, reg : Regs, rnw : BOOLEAN, data : Data]

RegistersInit ==
  /\ contents = [r \in Regs |-> 0]
  /\ access = [t \in Threads |-> NoAccess]
  /\ effect = [t \in Threads |-> 0]
  /\ rdata = [t \in Threads |-> 0]

Call(t) ==
  /\ access[t] = NoAccess
  /\ \E a \in Accesses : a.at = "called" /\ access' = [access EXCEPT ![t] = a]
  /\ UNCHANGED <<contents, effect, rdata>>

TakesEffect(t) ==
  /\ access[t].at = "called"
  /\ access' = [access EXCEPT ![t].at = "done"]
  /\ LET r == access[t].reg
         d == IF access[t].rnw THEN contents[r] ELSE access[t].data
     IN  /\ contents' = [contents EXCEPT ![r] = d]
         /\ effect' = [effect EXCEPT ![t] = d]
  /\ UNCHANGED rdata

Return(t) ==
  /\ access[t].at = "done"
  /\ access' = [access EXCEPT ![t] = NoAccess]
  /\ rdata' = [rdata EXCEPT ![t] = effect[t]]
  /\ UNCHANGED <<contents, effect>>

RegistersNext == \E t \in Threads : Call(t) \/ TakesEffect(t) \/ Return(t)

RegistersSpec ==
  /\ RegistersInit /\ [][RegistersNext]_registerVars
  /\ \A t \in Threads :
       /\ WF_registerVars(TakesEffect(t))
       /\ WF_registerVars(Return(t))
=============================================================================
