------------------------------ MODULE TcpLink -------------------------------
(***************************************************************************)
(* The TCP connection between the simulator process and the Python server, *)
(* as the code of both sides uses it: one byte stream in each direction,   *)
(* reliable and ordered, with room for a bounded number of bytes.  The     *)
(* stream stands for the send buffer of one side, the network and the      *)
(* receive buffer of the other, so a reader may find any prefix of it.     *)
(***************************************************************************)
EXTENDS Wire

CONSTANTS
  ToServerRoom,    \* tokens the direction to the server can hold
  ToClientRoom,    \* tokens the direction to the client can hold
  PollOutMin,      \* free room at which poll reports POLLOUT
  BufferSize       \* BUFFER_SIZE: the most one recv of either side returns

ASSUME TcpLinkAssumption ==
  /\ ToServerRoom \in Nat \ {0}
  /\ ToClientRoom \in Nat \ {0}
  /\ PollOutMin \in 1..ToServerRoom
  /\ BufferSize \in Nat \ {0}

VARIABLES
  conn,            \* state of the connection, see ConnStates
  toServer,        \* tokens sent by the client, not yet received
  toClient         \* tokens sent by the server, not yet received

linkVars == <<conn, toServer, toClient>>

\* "listening": the server is in accept; "open": connected; "closed": the
\* client's process ended and the server may still read what it had sent;
\* "reset": data met the closed client; "down": the server's process ended.
ConnStates == {"listening", "open", "closed", "reset", "down"}

LinkTypeOK ==
  /\ conn \in ConnStates
  /\ toServer \in Text /\ Len(toServer) <= ToServerRoom
  /\ toClient \in Text /\ Len(toClient) <= ToClientRoom

LinkInit ==
  /\ conn = "listening"
  /\ toServer = <<>>
  /\ toClient = <<>>

Writable == ToServerRoom - Len(toServer) >= PollOutMin

\* send() of a non-blocking socket that poll found writable takes what fits.
Accepted(data) == Min({Len(data), ToServerRoom - Len(toServer)})

\* The process of the client ends: its socket is closed with a FIN, or with
\* a reset when replies are left unread.
ClientGone ==
  IF conn # "open" THEN UNCHANGED linkVars
  ELSE /\ toClient' = <<>>
       /\ conn' = IF toClient = <<>> THEN "closed" ELSE "reset"
       /\ toServer' = IF toClient = <<>> THEN toServer ELSE <<>>
=============================================================================
