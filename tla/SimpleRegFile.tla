---------------------------- MODULE SimpleRegFile ---------------------------
(***************************************************************************)
(* rtl/amiq_simple_reg_file.sv behind the interface amiq_smmi_if: the      *)
(* registers, the two states of its protocol and the pins, one step for    *)
(* each clock edge.  A pin has the value the processes see at the present  *)
(* edge and the one a nonblocking assignment gives it for the next edge.   *)
(* The initial reset is over.                                              *)
(***************************************************************************)
EXTENDS Naturals, Sequences

CONSTANTS
  Threads,       \* test threads that access registers
  Regs,          \* reg_a .. reg_d
  Data,          \* values of a register
  MaxAccesses    \* bound: accesses of one thread

ASSUME RegAssumption == 0 \in Data /\ MaxAccesses \in Nat

VARIABLES
  regs,          \* reg_a .. reg_d
  int_state,
  req, req_next,     \* req_valid, addr, rnw and wdata; None: not valid
  rsp, rsp_next      \* rsp_valid and rdata; None: not valid

regFileVars == <<regs, int_state, req, req_next, rsp, rsp_next>>

None == [valid |-> FALSE]

\* An access is named by its thread and its number there, as UVM names it by
\* a sequence and a transaction id; the id does not travel on the pins.
Access == [valid : {TRUE}, thread : Threads, n : 1..MaxAccesses,
           reg : Regs, rnw : BOOLEAN, data : Data]
Response == [valid : {TRUE}, data : Data]

RegFileTypeOK ==
  /\ regs \in [Regs -> Data]
  /\ int_state \in {"GET_REQ", "SEND_RESP"}
  /\ req \in Access \cup {None} /\ req_next \in Access \cup {None}
  /\ rsp \in Response \cup {None} /\ rsp_next \in Response \cup {None}

RegFileInit ==
  /\ regs = [r \in Regs |-> 0]
  /\ int_state = "GET_REQ"
  /\ req = None /\ req_next = None /\ rsp = None /\ rsp_next = None

\* What a request does: the data a read returns, or a write stores.
Effect(a) == IF a.rnw THEN regs[a.reg] ELSE a.data

Accepts == int_state = "GET_REQ" /\ req_next.valid

\* Variant: rsp_valid is not cleared after a cycle.
RegFileEdge_KeepsValid ==
  /\ req' = req_next
  /\ rsp' = rsp_next
  /\ IF Accepts
     THEN /\ regs' = [regs EXCEPT ![req_next.reg] = Effect(req_next)]
          /\ rsp_next' = [valid |-> TRUE, data |-> IF req_next.rnw THEN Effect(req_next) ELSE 0]
          /\ int_state' = "SEND_RESP"
     ELSE /\ int_state' = "GET_REQ"
          /\ UNCHANGED <<regs, rsp_next>>
  /\ UNCHANGED req_next

\* The clock rises: the assignments of the last edge are seen, and the
\* register file answers a request it can take.
RegFileEdge ==
  /\ req' = req_next
  /\ rsp' = rsp_next
  /\ IF Accepts
     THEN /\ regs' = [regs EXCEPT ![req_next.reg] = Effect(req_next)]
          /\ rsp_next' = [valid |-> TRUE, data |-> IF req_next.rnw THEN Effect(req_next) ELSE 0]
          /\ int_state' = "SEND_RESP"
     ELSE /\ rsp_next' = None
          /\ int_state' = "GET_REQ"
          /\ UNCHANGED regs
  /\ UNCHANGED req_next
=============================================================================
