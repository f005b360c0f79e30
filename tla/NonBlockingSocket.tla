------------------------- MODULE NonBlockingSocket --------------------------
(***************************************************************************)
(* The non-blocking socket example as it runs: the simulator process       *)
(* (SocketClient) and the Python server (AmiqServer) on one TCP connection *)
(* (TcpLink).  The two processes interleave; the threads inside the        *)
(* simulator are cooperative.                                              *)
(***************************************************************************)
EXTENDS SocketClient, AmiqServer

vars == <<linkVars, clientVars, serverVars>>

Init == LinkInit /\ ClientInit /\ ServerInit

ClientStep == ClientNext /\ UNCHANGED serverVars
ServerStep == ServerNext /\ UNCHANGED clientVars

\* The example has done its work, or cannot go on: no process is left to
\* take a step that changes anything.
AllDone == sim # "running" /\ sessions = MaxSessions /\ srv \in {"accept", "dead"}

Stay == AllDone /\ UNCHANGED vars

Next == ClientStep \/ ServerStep \/ Stay

\* The operating system runs both processes, and the simulator's scheduler
\* runs every thread that can run.  Nothing forces a kill or a restart.
Fairness ==
  /\ WF_vars(ServerStep)
  /\ WF_vars(Configure /\ UNCHANGED serverVars)
  /\ WF_vars(TbStep /\ UNCHANGED serverVars)
  /\ WF_vars(SendStep /\ UNCHANGED serverVars)
  /\ WF_vars(RecvStep /\ UNCHANGED serverVars)
  /\ WF_vars(DrainStep /\ UNCHANGED serverVars)

Spec == Init /\ [][Next]_vars /\ Fairness

TypeOK == LinkTypeOK /\ ClientTypeOK /\ ServerTypeOK
-----------------------------------------------------------------------------
(* Safety.                                                                 *)

\* Nothing the testbench submitted is lost, doubled or reordered on its way
\* to the server: what the server worked on, what it keeps of a truncated
\* item, what is in the connection, what send_to_remote has still to send
\* and what waits in the mailbox are, put together, what was submitted.
RequestsConserved ==
  sim = "running" /\ conn = "open" /\ srv = "recv" =>
    FramedAll(served) \o truncated_item \o toServer \o send_item
      \o FramedAll(send_mbox) = FramedAll(submitted)

\* Nothing the server answered is lost, doubled or reordered on its way to
\* the testbench, whatever the places where a receive cut the stream.
RepliesConserved ==
  sim = "running" /\ conn = "open" /\ srv \in {"recv", "reply"} =>
    FramedAll(received) \o FramedAll(recv_mbox) \o Joined(msgs_q) \o msg_saved
      \o toClient \o outbox = FramedAll(Replies(served))

\* "exit loop when entire message was sent"
\* (amiq_server_connector.svh:136): send_to_remote goes back for the next
\* item only when nothing of the last one is left.
EntireMessageSent == pc["send"] = "get" => send_item = <<>>
-----------------------------------------------------------------------------
(* Liveness.                                                               *)

\* Every test ends, one after a killed simulator too, unless its own simulator
\* or the server dies: the reply to "end_test" reaches the testbench, which
\* finishes the simulation.
TestFinishes == sim = "running" ~> (sim # "running" \/ srv = "dead")

\* The whole example implements the abstract request and reply service.
Service == INSTANCE RequestReply WITH
  Items    <- {Append([v \in 1..ItemCount |-> Command(cmds[v], v)], EndTest) :
                 cmds \in Commands},
  asked    <- submitted,
  answers  <- received,
  attended <- sim # "killed" /\ srv # "dead"

ImplementsService == Service!RRSpec
=============================================================================
