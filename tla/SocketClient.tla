---------------------------- MODULE SocketClient ----------------------------
(***************************************************************************)
(* The simulator process: the testbench threads of amiq_top.sv, the        *)
(* connector of amiq_server_connector.svh and the DPI-C layer client.cc.   *)
(*                                                                         *)
(* The threads of a simulation are cooperative: one runs until it waits    *)
(* for an empty mailbox, an event or a delay, or returns from C after      *)
(* having called consume_time.  cpu names the thread that runs; when it is *)
(* "none" the simulator picks any thread that can run.  A thread that has  *)
(* called consume_time (#1) runs again when no other thread can: the       *)
(* simulator then advances the time.                                       *)
(***************************************************************************)
EXTENDS TcpLink

CONSTANTS
  ItemCount,         \* items the testbench sends before "end_test"
  MaxSessions,       \* bound: how often the simulator is started
  MayBeKilled,       \* TRUE: the simulator's process may die at any time
  InForkOrder        \* TRUE: forked threads first run in the order of fork

ASSUME ClientAssumption ==
  /\ ItemCount \in Nat
  /\ MaxSessions \in Nat \ {0}
  /\ MayBeKilled \in BOOLEAN
  /\ InForkOrder \in BOOLEAN

VARIABLES
  sim,           \* "running", or how the process ended
  sessions,      \* number of times the simulator was started
  cpu,           \* the thread that runs, or "none"
  pc,            \* where each thread is
  send_mbox,     \* items from the testbench
  recv_mbox,     \* items for the testbench
  send_item,     \* what send_to_remote has still to send
  send_rsp,      \* what the last send_data reported
  msgs_q,        \* messages recv_callback found complete
  msg_saved,     \* text recv_callback keeps until a complete message
  submitted,     \* history: items the testbench put in send_mbox
  received       \* history: items the testbench got from recv_mbox

clientVars == <<sim, sessions, cpu, pc, send_mbox, recv_mbox, send_item,
                send_rsp, msgs_q, msg_saved, submitted, received>>

Threads == {"client", "tb_send", "tb_recv", "send", "recv", "drain"}

\* "new": not forked yet.  "start": forked, has not run yet.
Places(t) ==
  CASE t = "client"  -> {"configure", "forked"}
    [] t = "tb_send" -> {"put", "done"}
    [] t = "tb_recv" -> {"get"}
    [] t = "send"    -> {"new", "start", "get", "loop"}
    [] t = "recv"    -> {"new", "start", "poll", "delay"}
    [] t = "drain"   -> {"new", "start", "wait", "woken"}

ClientTypeOK ==
  /\ sim \in {"running", "finished", "killed"}
  /\ sessions \in 1..MaxSessions
  /\ cpu \in Threads \cup {"none"}
  /\ DOMAIN pc = Threads /\ \A t \in Threads : pc[t] \in Places(t)
  /\ send_item \in Text /\ msg_saved \in Text
  /\ send_rsp \in Nat
  /\ send_mbox \in Seq(Text) /\ recv_mbox \in Seq(Text)
  /\ msgs_q \in Seq(Text)
  /\ submitted \in Seq(Text) /\ received \in Seq(Text)

\* The values a freshly started simulator gives its variables.
Fresh ==
  [cpu       |-> "none",
   pc        |-> [t \in Threads |->
                    CASE t = "client"  -> "configure"
                      [] t = "tb_send" -> "put"
                      [] t = "tb_recv" -> "get"
                      [] OTHER         -> "new"],
   send_rsp  |-> 0]

ClientInit ==
  /\ sim = "running" /\ sessions = 1
  /\ cpu = Fresh.cpu /\ pc = Fresh.pc /\ send_rsp = Fresh.send_rsp
  /\ send_mbox = <<>> /\ recv_mbox = <<>> /\ send_item = <<>>
  /\ msgs_q = <<>> /\ msg_saved = <<>>
  /\ submitted = <<>> /\ received = <<>>

-----------------------------------------------------------------------------
(* The scheduler.                                                          *)

Runs(t) == sim = "running" /\ cpu \in {t, "none"}

\* A thread can run at the present simulation time.
Ready(t) ==
  \/ pc[t] \in {"configure", "put", "start", "poll", "loop", "woken"}
  \/ t = "tb_recv" /\ recv_mbox # <<>>
  \/ t = "send" /\ pc[t] = "get" /\ send_mbox # <<>>

\* Nothing but a delay is left: the time advances.
TimeAdvances == \A t \in Threads : ~Ready(t)

\* start forks recv_thread, the send loop and the receive loop, in this order.
MayStart(t) ==
  /\ pc[t] = "start"
  /\ InForkOrder => /\ t \in {"send", "drain"} => pc["recv"] # "start"
                    /\ t = "drain" => pc["send"] # "start"

-----------------------------------------------------------------------------
(* amiq_server_connector.start and the testbench.                          *)

\* configure tries until the server accepts; start then forks the threads.
Configure ==
  /\ Runs("client") /\ pc["client"] = "configure"
  /\ conn = "listening"
  /\ conn' = "open"
  /\ pc' = [pc EXCEPT !["client"] = "forked",
                      !["recv"] = "start", !["send"] = "start", !["drain"] = "start"]
  /\ cpu' = "none"
  /\ UNCHANGED <<sim, sessions, send_mbox, recv_mbox, send_item, send_rsp, msgs_q,
                 msg_saved, submitted, received, toServer, toClient>>

\* The sending thread of amiq_top puts all its items without waiting.
TbSend(cmds) ==
  /\ Runs("tb_send") /\ pc["tb_send"] = "put"
  /\ submitted' = Append([v \in 1..ItemCount |-> Command(cmds[v], v)], EndTest)
  /\ send_mbox' = send_mbox \o submitted'
  /\ pc' = [pc EXCEPT !["tb_send"] = "done"]
  /\ cpu' = "none"
  /\ UNCHANGED <<sim, sessions, recv_mbox, send_item, send_rsp, msgs_q, msg_saved,
                 received, linkVars>>

\* The receiving thread takes what is there; "end_test" ends the simulation.
TbRecv ==
  /\ Runs("tb_recv") /\ recv_mbox # <<>>
  /\ LET ends == {i \in DOMAIN recv_mbox : recv_mbox[i] = EndTest}
         n    == IF ends = {} THEN Len(recv_mbox) ELSE Min(ends)
     IN  /\ received' = received \o SubSeq(recv_mbox, 1, n)
         /\ recv_mbox' = From(recv_mbox, n)
         /\ IF ends = {}
            THEN sim' = sim /\ UNCHANGED linkVars
            ELSE sim' = "finished" /\ ClientGone
  /\ cpu' = "none"
  /\ UNCHANGED <<sessions, pc, send_mbox, send_item, send_rsp, msgs_q, msg_saved,
                 submitted>>

-----------------------------------------------------------------------------
(* send_to_remote and send_data.                                           *)

SendStart ==
  /\ Runs("send") /\ MayStart("send")
  /\ pc' = [pc EXCEPT !["send"] = "get"]
  /\ cpu' = IF send_mbox = <<>> THEN "none" ELSE "send"
  /\ UNCHANGED <<sim, sessions, send_mbox, recv_mbox, send_item, send_rsp, msgs_q,
                 msg_saved, submitted, received, linkVars>>

SendGet ==
  /\ Runs("send") /\ pc["send"] = "get" /\ send_mbox # <<>>
  /\ send_item' = Framed(Head(send_mbox))
  /\ send_mbox' = Tail(send_mbox)
  /\ send_rsp' = 0
  /\ pc' = [pc EXCEPT !["send"] = "loop"]
  /\ cpu' = "send"
  /\ UNCHANGED <<sim, sessions, recv_mbox, msgs_q, msg_saved, submitted, received,
                 linkVars>>

\* What send_to_remote does with the result rsp of send_data: it drops what
\* was sent, and leaves its loop when rsp is the length of what remains.
SendResult(rsp) ==
  /\ send_rsp' = rsp
  /\ send_item' = IF rsp > 0 THEN From(send_item, rsp) ELSE send_item
  /\ IF rsp = Len(send_item')
     THEN /\ pc' = [pc EXCEPT !["send"] = "get"]
          /\ cpu' = IF send_mbox = <<>> THEN "none" ELSE "send"
     ELSE pc' = pc /\ cpu' = cpu

SendData ==
  /\ Runs("send") /\ pc["send"] = "loop"
  /\ conn = "open" /\ Writable
  /\ LET n == Accepted(send_item)
     IN  /\ toServer' = toServer \o SubSeq(send_item, 1, n)
         /\ SendResult(n)
  /\ UNCHANGED <<sim, sessions, send_mbox, recv_mbox, msgs_q, msg_saved, submitted,
                 received, conn, toClient>>

\* poll does not report POLLOUT: do_send throws 1 and send_data returns
\* without writing its output argument, which then holds 0 or what it held.
SendWouldBlock(rsp) ==
  /\ Runs("send") /\ pc["send"] = "loop"
  /\ conn = "open" /\ ~Writable
  /\ SendResult(rsp)
  /\ UNCHANGED <<sim, sessions, send_mbox, recv_mbox, msgs_q, msg_saved, submitted,
                 received, linkVars>>

-----------------------------------------------------------------------------
(* do_recv_forever, recv_callback and recv_from_remote.                    *)

\* The receive thread polls: at its first run, after data, after a delay.
RecvPolls ==
  /\ Runs("recv")
  /\ \/ MayStart("recv")
     \/ pc["recv"] = "poll"
     \/ pc["recv"] = "delay" /\ TimeAdvances

\* Variant: msg_saved is not emptied when a message is complete.
RecvCallback_KeepsSaved(msg) ==
  IF Last(msg) = Delim
  THEN /\ msgs_q' = Append(msgs_q, msg_saved \o msg)
       /\ msg_saved' = msg_saved
       /\ pc' = [pc EXCEPT !["recv"] = "poll",
                           !["drain"] = IF @ = "wait" THEN "woken" ELSE @]
  ELSE /\ msgs_q' = msgs_q
       /\ msg_saved' = msg_saved \o msg
       /\ pc' = [pc EXCEPT !["recv"] = "poll"]

\* recv_callback: a message that ends with the delimiter is queued behind
\* the text saved before it, and the event wakes recv_from_remote if it is
\* waiting for it; any other message is saved.
RecvCallback(msg) ==
  IF Last(msg) = Delim
  THEN /\ msgs_q' = Append(msgs_q, msg_saved \o msg)
       /\ msg_saved' = <<>>
       /\ pc' = [pc EXCEPT !["recv"] = "poll",
                           !["drain"] = IF @ = "wait" THEN "woken" ELSE @]
  ELSE /\ msgs_q' = msgs_q
       /\ msg_saved' = msg_saved \o msg
       /\ pc' = [pc EXCEPT !["recv"] = "poll"]

RecvData(n) ==
  /\ RecvPolls
  /\ conn = "open"
  /\ RecvCallback(SubSeq(toClient, 1, n))
  /\ toClient' = From(toClient, n)
  /\ cpu' = "recv"
  /\ UNCHANGED <<sim, sessions, send_mbox, recv_mbox, send_item, send_rsp, submitted,
                 received, conn, toServer>>

\* Variant: no consume_time when poll times out.
RecvTimeout_KeepsCpu ==
  /\ RecvPolls
  /\ conn = "open" /\ toClient = <<>>
  /\ pc' = [pc EXCEPT !["recv"] = "poll"]
  /\ cpu' = "recv"
  /\ UNCHANGED <<sim, sessions, send_mbox, recv_mbox, send_item, send_rsp, msgs_q,
                 msg_saved, submitted, received, linkVars>>

\* poll timed out: consume_time lets the other threads run.
RecvTimeout ==
  /\ RecvPolls
  /\ conn = "open" /\ toClient = <<>>
  /\ pc' = [pc EXCEPT !["recv"] = "delay"]
  /\ cpu' = "none"
  /\ UNCHANGED <<sim, sessions, send_mbox, recv_mbox, send_item, send_rsp, msgs_q,
                 msg_saved, submitted, received, linkVars>>

\* The server is gone: recv returns 0 at once, and the thread polls again
\* without giving way to another one.
RecvEndOfFile ==
  /\ RecvPolls
  /\ conn = "down"
  /\ pc' = [pc EXCEPT !["recv"] = "poll"]
  /\ cpu' = "recv"
  /\ UNCHANGED <<sim, sessions, send_mbox, recv_mbox, send_item, send_rsp, msgs_q,
                 msg_saved, submitted, received, linkVars>>

DrainStart ==
  /\ Runs("drain") /\ MayStart("drain")
  /\ pc' = [pc EXCEPT !["drain"] = "wait"]
  /\ cpu' = "none"
  /\ UNCHANGED <<sim, sessions, send_mbox, recv_mbox, send_item, send_rsp, msgs_q,
                 msg_saved, submitted, received, linkVars>>

Drain ==
  /\ Runs("drain") /\ pc["drain"] = "woken"
  /\ recv_mbox' = recv_mbox \o Joined([i \in DOMAIN msgs_q |-> Split(msgs_q[i])])
  /\ msgs_q' = <<>>
  /\ pc' = [pc EXCEPT !["drain"] = "wait"]
  /\ cpu' = "none"
  /\ UNCHANGED <<sim, sessions, send_mbox, send_item, send_rsp, msg_saved, submitted,
                 received, linkVars>>

-----------------------------------------------------------------------------
(* The end of the process and the next run of the simulator.               *)

\* The process is killed from outside, or by the SIGPIPE of a send to a
\* server that is gone.
Killed ==
  /\ sim = "running"
  /\ \/ MayBeKilled
     \/ Runs("send") /\ pc["send"] = "loop" /\ conn = "down"
  /\ sim' = "killed"
  /\ ClientGone
  /\ UNCHANGED <<sessions, cpu, pc, send_mbox, recv_mbox, send_item, send_rsp, msgs_q,
                 msg_saved, submitted, received>>

Restart ==
  /\ sim # "running" /\ sessions < MaxSessions
  /\ sim' = "running" /\ sessions' = sessions + 1
  /\ cpu' = Fresh.cpu /\ pc' = Fresh.pc /\ send_rsp' = Fresh.send_rsp
  /\ send_mbox' = <<>> /\ recv_mbox' = <<>> /\ send_item' = <<>>
  /\ msgs_q' = <<>> /\ msg_saved' = <<>>
  /\ submitted' = <<>> /\ received' = <<>>
  /\ UNCHANGED linkVars

Commands == [1..ItemCount -> {"div", "nop"}]

SendStep ==
  \/ SendStart
  \/ SendGet
  \/ SendData
  \/ \E rsp \in {0, send_rsp} : SendWouldBlock(rsp)

RecvStep ==
  \/ \E n \in 1..Min({BufferSize, Len(toClient)}) : RecvData(n)
  \/ RecvTimeout
  \/ RecvEndOfFile

DrainStep == DrainStart \/ Drain

TbStep == TbRecv \/ \E cmds \in Commands : TbSend(cmds)

ClientNext ==
  \/ Configure
  \/ TbStep
  \/ SendStep
  \/ RecvStep
  \/ DrainStep
  \/ Killed
  \/ Restart
=============================================================================
