---------------------------- MODULE RegisterBench ---------------------------
(***************************************************************************)
(* The testbench around the register file: test threads that access        *)
(* registers through the UVM register model, the sequencer, the driver and *)
(* the monitor of the smmi agent, the predictor, and the component         *)
(* amiq_ral_req_rsp_handshake, which hands what the monitor has collected  *)
(* back to the register model as the response to the sequencer's last      *)
(* request.                                                                *)
(*                                                                         *)
(* At a clock edge the processes that wait for it are woken and run in any *)
(* order.  The sequencer chooses a request after all of them have run: UVM *)
(* lets the NBA region pass first.                                         *)
(***************************************************************************)
EXTENDS SimpleRegFile

CONSTANT
  Setups         \* what a test may be started with, see Setup

Setup == [send_response : BOOLEAN, handshake : BOOLEAN, threads : SUBSET Threads]

ASSUME SetupAssumption == Setups \subseteq Setup

VARIABLES
  setup,         \* the plusargs of the test, and the threads it has
  woken,         \* processes the clock edge woke that have not run yet
  thread,        \* the access of each thread and where it is
  issued,        \* number of accesses a thread has begun
  queue,         \* requests that wait for the sequencer, in order
  last_req,      \* the last request the sequencer sent
  responses,     \* responses that came before the thread asked for them
  driver, item,  \* where the driver is, and the item it drives
  monitor, m_collected_item,
  mirror,        \* the register model's mirrored values
  effect,        \* history: what each thread's access did to the registers
  rdata          \* what each thread's last access returned

benchVars == <<setup, woken, thread, issued, queue, last_req, responses, driver, item,
               monitor, m_collected_item, mirror, effect, rdata>>
vars == <<regFileVars, benchVars>>

Idle == [at |-> "idle"]

\* "grant": in start_item; "done": in finish_item, until item_done;
\* "response": in get_response.
ThreadStates == {Idle} \cup [at : {"grant", "done", "response"}, access : Access]

TypeOK ==
  /\ RegFileTypeOK
  /\ setup \in Setups
  /\ woken \subseteq {"driver", "monitor"}
  /\ thread \in [Threads -> ThreadStates]
  /\ issued \in [Threads -> 0..MaxAccesses]
  /\ queue \in Seq(Access)
  /\ last_req \in Access \cup {None}
  /\ responses \in [Threads -> Seq(Data)]
  /\ driver \in {"get", "drive", "clear", "respond"}
  /\ item \in Access \cup {None}
  /\ monitor \in {"request", "response"}
  /\ m_collected_item \in Access \cup {None}
  /\ mirror \in [Regs -> Data]
  /\ effect \in [Threads -> Data] /\ rdata \in [Threads -> Data]

Init ==
  /\ RegFileInit
  /\ setup \in Setups
  /\ woken = {}
  /\ thread = [t \in Threads |-> Idle]
  /\ issued = [t \in Threads |-> 0]
  /\ queue = <<>> /\ last_req = None
  /\ responses = [t \in Threads |-> <<>>]
  /\ driver = "get" /\ item = None
  /\ monitor = "request" /\ m_collected_item = None
  /\ mirror = [r \in Regs |-> 0]
  /\ effect = [t \in Threads |-> 0] /\ rdata = [t \in Threads |-> 0]

-----------------------------------------------------------------------------
(* The test threads and the sequencer.                                     *)

InUse(r) == \E t \in Threads : thread[t] # Idle /\ thread[t].access.reg = r

\* read or write of a register: one access of a register at a time.  A read
\* puts 0 on wdata.
Start(t, r, rnw, d) ==
  /\ t \in setup.threads
  /\ thread[t] = Idle
  /\ ~InUse(r)
  /\ rnw => d = 0
  /\ issued[t] < MaxAccesses
  /\ LET a == [valid |-> TRUE, thread |-> t, n |-> issued[t] + 1,
               reg |-> r, rnw |-> rnw, data |-> d]
     IN  /\ thread' = [thread EXCEPT ![t] = [at |-> "grant", access |-> a]]
         /\ queue' = Append(queue, a)
  /\ issued' = [issued EXCEPT ![t] = @ + 1]
  /\ responses' = [responses EXCEPT ![t] = <<>>]
  /\ UNCHANGED <<regFileVars, setup, woken, last_req, driver, item, monitor,
                 m_collected_item, mirror, effect, rdata>>

CanGrant == driver = "get" /\ queue # <<>> /\ woken = {}

\* get_next_item: the first request is granted, and sent at once.
Grant ==
  /\ CanGrant
  /\ item' = Head(queue)
  /\ last_req' = Head(queue)
  /\ queue' = Tail(queue)
  /\ thread' = [thread EXCEPT ![Head(queue).thread].at = "done"]
  /\ driver' = "drive"
  /\ UNCHANGED <<regFileVars, setup, woken, issued, responses, monitor,
                 m_collected_item, mirror, effect, rdata>>

\* Variant: the data of a write is taken from rdata too.
bus2reg_Rdata(a, pin) == pin.data

\* bus2reg: the data of a bus item.
bus2reg(a, pin) == IF a.rnw THEN pin.data ELSE a.data

\* The threads once item_done was called for access a, and the responses d
\* that are there for it: a thread takes the first one and returns.
AfterItemDone(a) ==
  IF responses[a.thread] = <<>>
  THEN /\ thread' = [thread EXCEPT ![a.thread].at = "response"]
       /\ UNCHANGED rdata
  ELSE /\ thread' = [thread EXCEPT ![a.thread] = Idle]
       /\ rdata' = [rdata EXCEPT ![a.thread] = Head(responses[a.thread])]

\* A response with data d for access a: its thread returns if it waits for
\* it, finds it later if it does not wait yet, and if the access is over the
\* sequencer drops the response.
PutResponse(a, d) ==
  LET t == a.thread
  IN  CASE thread[t].at = "response" /\ thread[t].access = a ->
             /\ thread' = [thread EXCEPT ![t] = Idle]
             /\ rdata' = [rdata EXCEPT ![t] = d]
             /\ UNCHANGED responses
        [] thread[t].at = "done" /\ thread[t].access = a ->
             /\ responses' = [responses EXCEPT ![t] = Append(@, d)]
             /\ UNCHANGED <<thread, rdata>>
        [] OTHER -> UNCHANGED <<thread, rdata, responses>>

-----------------------------------------------------------------------------
(* The clock, the driver and the monitor.                                  *)

Edge ==
  /\ woken = {} /\ ~CanGrant
  /\ RegFileEdge
  /\ woken' = {"monitor"} \cup (IF driver = "get" THEN {} ELSE {"driver"})
  /\ effect' = IF Accepts
               THEN [effect EXCEPT ![req_next.thread] = Effect(req_next)]
               ELSE effect
  /\ UNCHANGED <<setup, thread, issued, queue, last_req, responses, driver, item,
                 monitor, m_collected_item, mirror, rdata>>

Waits(p) == woken' = woken \ {p}

\* drive_item puts the request on the pins ...
Drive ==
  /\ "driver" \in woken /\ driver = "drive"
  /\ req_next' = item
  /\ driver' = "clear"
  /\ Waits("driver")
  /\ UNCHANGED <<regs, int_state, req, rsp, rsp_next, setup, thread, issued, queue,
                 last_req, responses, item, monitor, m_collected_item, mirror,
                 effect, rdata>>

\* Variant: the request stays on the pins.
ClearAndItemDone_KeepsRequest ==
  /\ "driver" \in woken /\ driver = "clear"
  /\ AfterItemDone(item)
  /\ IF setup.send_response
     THEN driver' = "respond" /\ UNCHANGED woken
     ELSE driver' = "get" /\ Waits("driver")
  /\ UNCHANGED <<regFileVars, setup, issued, queue, last_req, responses, item,
                 monitor, m_collected_item, mirror, effect>>

\* ... and takes it away a cycle later; then item_done is called.
ClearAndItemDone ==
  /\ "driver" \in woken /\ driver = "clear"
  /\ req_next' = None
  /\ AfterItemDone(item)
  /\ IF setup.send_response
     THEN driver' = "respond" /\ UNCHANGED woken
     ELSE driver' = "get" /\ Waits("driver")
  /\ UNCHANGED <<regs, int_state, req, rsp, rsp_next, setup, issued, queue, last_req,
                 responses, item, monitor, m_collected_item, mirror, effect>>

\* With send_response the driver waits for rsp_valid and sends a response.
Respond ==
  /\ "driver" \in woken /\ driver = "respond"
  /\ IF rsp.valid
     THEN PutResponse(item, bus2reg(item, rsp)) /\ driver' = "get"
     ELSE UNCHANGED <<thread, rdata, responses, driver>>
  /\ Waits("driver")
  /\ UNCHANGED <<regFileVars, setup, issued, queue, last_req, item, monitor,
                 m_collected_item, mirror, effect>>

\* collect_items: the monitor sees a request and then its response, perhaps
\* at the same edge.
CollectRequest ==
  /\ "monitor" \in woken /\ monitor = "request"
  /\ IF req.valid
     THEN m_collected_item' = req /\ monitor' = "response" /\ UNCHANGED woken
     ELSE Waits("monitor") /\ UNCHANGED <<m_collected_item, monitor>>
  /\ UNCHANGED <<regFileVars, setup, thread, issued, queue, last_req, responses,
                 driver, item, mirror, effect, rdata>>

\* The predictor sets the mirrored value of the register.
Predict ==
  mirror' = [mirror EXCEPT ![m_collected_item.reg] = bus2reg(m_collected_item, rsp)]

\* amiq_ral_req_rsp_handshake.write: the collected item gets the id of the
\* sequencer's last request.
Handshake ==
  IF setup.handshake
  THEN PutResponse(last_req, bus2reg(m_collected_item, rsp))
  ELSE UNCHANGED <<thread, rdata, responses>>

CollectResponse ==
  /\ "monitor" \in woken /\ monitor = "response"
  /\ IF rsp.valid
     THEN Predict /\ Handshake /\ monitor' = "request" /\ UNCHANGED woken
     ELSE Waits("monitor") /\ UNCHANGED <<mirror, thread, rdata, responses, monitor>>
  /\ UNCHANGED <<regFileVars, setup, issued, queue, last_req, driver, item,
                 m_collected_item, effect>>

\* A step of the simulator once the accesses have been started.
Simulate == Grant \/ Edge \/ Drive \/ ClearAndItemDone \/ Respond
              \/ CollectRequest \/ CollectResponse

Next ==
  \/ \E t \in Threads, r \in Regs, rnw \in BOOLEAN, d \in Data : Start(t, r, rnw, d)
  \/ Simulate

\* The clock never stops, and the simulator runs what has been woken.
Spec == Init /\ [][Next]_vars /\ WF_vars(Simulate)
-----------------------------------------------------------------------------
\* The register file never meets a request while it still answers the one
\* before it: such a request would be lost (case SEND_RESP looks at none).
NoRequestLost == woken = {} /\ req_next.valid => int_state = "GET_REQ"

\* The monitor's view is the truth: when the processes of an edge have run
\* and no access of a register is under way, its mirrored value is its value.
MirrorExact ==
  woken = {} => \A r \in Regs : ~InUse(r) => mirror[r] = regs[r]

\* "provides_responses = 1" (amiq_smmi_reg_adapter.svh:7): the register model
\* is promised a response to each access, so none waits for ever.
AccessesReturn == \A t \in Threads : thread[t] # Idle ~> thread[t] = Idle

\* An access is in effect at the edge at which the pins show it.
InEffect(t) ==
  /\ thread[t].at # "grant"
  /\ ~(driver = "drive" /\ item = thread[t].access)
  /\ req_next = thread[t].access => req = thread[t].access

\* The bench with its register model implements atomic registers.
Registers == INSTANCE AtomicRegisters WITH
  contents <- regs,
  access <- [t \in Threads |->
               IF thread[t] = Idle THEN [at |-> "idle"]
               ELSE [at |-> IF InEffect(t) THEN "done" ELSE "called",
                     reg |-> thread[t].access.reg,
                     rnw |-> thread[t].access.rnw,
                     data |-> thread[t].access.data]]

ImplementsRegisters == Registers!RegistersSpec
=============================================================================
