----------------------------- MODULE AmiqServer -----------------------------
(***************************************************************************)
(* server.py: one process that accepts a connection, receives a message,   *)
(* answers the items it completes and receives again, until the client is  *)
(* gone; then it accepts the next one.  An exception that server() does    *)
(* not handle ends the process.                                            *)
(***************************************************************************)
EXTENDS TcpLink

VARIABLES
  srv,               \* where server() is, see ServerStates
  truncated_item,    \* the global of the same name
  outbox,            \* replies of the current message not yet given to TCP
  served             \* history: the items worked on for this connection

serverVars == <<srv, truncated_item, outbox, served>>

\* "value_error": the replies that precede a malformed item are being sent,
\* then the exception is handled.
ServerStates == {"accept", "recv", "reply", "value_error", "dead"}

ServerTypeOK ==
  /\ srv \in ServerStates
  /\ truncated_item \in Text
  /\ outbox \in Text
  /\ served \in Seq(Text)

ServerInit ==
  /\ srv = "accept"
  /\ truncated_item = <<>>
  /\ outbox = <<>>
  /\ served = <<>>

ServerAccept ==
  /\ srv = "accept"
  /\ conn \in {"open", "closed"}
  /\ srv' = "recv"
  /\ served' = <<>>
  /\ UNCHANGED <<truncated_item, outbox, linkVars>>

\* recv returned data: send_response puts what was truncated in front of
\* it, keeps the new truncated end and works on the complete items.
ServerReceive(n) ==
  \E msg \in {truncated_item \o SubSeq(toServer, 1, n)} :
  \E work \in {WorkedOn(Split(msg))} :
    /\ srv = "recv"
    /\ conn \in {"open", "closed"}
    /\ toServer' = From(toServer, n)
    /\ truncated_item' = Truncated(msg)
    /\ outbox' = FramedAll(Replies(work))
    /\ served' = served \o work
    /\ srv' = CASE work # <<>> /\ IsMalformed(Last(work)) -> "value_error"
                [] outbox' # <<>> -> "reply"
                [] OTHER -> "recv"
    /\ UNCHANGED <<conn, toClient>>

\* send() of a blocking socket goes on as soon as there is room.
ServerSend ==
  /\ srv \in {"reply", "value_error"} /\ outbox # <<>>
  /\ conn = "open"
  /\ Len(toClient) < ToClientRoom
  /\ LET n == Min({Len(outbox), ToClientRoom - Len(toClient)})
     IN  /\ toClient' = toClient \o SubSeq(outbox, 1, n)
         /\ outbox' = From(outbox, n)
         /\ srv' = IF srv = "reply" /\ outbox' = <<>> THEN "recv" ELSE srv
  /\ UNCHANGED <<truncated_item, served, conn, toServer>>

\* What is sent to a client that is gone is answered by a reset, which comes
\* after one or more of the sends.
ServerSendToClosed(n) ==
  /\ srv \in {"reply", "value_error"}
  /\ conn = "closed"
  /\ conn' = "reset"
  /\ toServer' = <<>>
  /\ outbox' = From(outbox, n)
  /\ srv' = IF srv = "reply" /\ outbox' = <<>> THEN "recv" ELSE srv
  /\ UNCHANGED <<truncated_item, served, toClient>>

\* recv returned no data: the client closed the connection.
ServerClose ==
  /\ srv = "recv"
  /\ conn = "closed" /\ toServer = <<>>
  /\ srv' = "accept"
  /\ conn' = "listening"
  /\ UNCHANGED <<truncated_item, outbox, served, toServer, toClient>>

\* An exception leaves server(): recv or send on a reset connection, or the
\* undefined name c in the handler of ValueError.  The process ends.
ServerFails ==
  /\ \/ srv = "recv" /\ conn = "reset"
     \/ srv \in {"reply", "value_error"} /\ outbox # <<>> /\ conn = "reset"
     \/ srv = "value_error" /\ outbox = <<>>
  /\ srv' = "dead"
  /\ conn' = "down"
  /\ toServer' = <<>>
  /\ toClient' = <<>>
  /\ UNCHANGED <<truncated_item, outbox, served>>

ServerNext ==
  \/ ServerAccept
  \/ \E n \in 1..Min({BufferSize, Len(toServer)}) : ServerReceive(n)
  \/ ServerSend
  \/ \E n \in 1..Len(outbox) : ServerSendToClosed(n)
  \/ ServerClose
  \/ ServerFails
=============================================================================
