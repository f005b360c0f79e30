-------------------------- MODULE MCRegisterBench ---------------------------
(***************************************************************************)
(* The setups TLC starts the register bench with.                          *)
(***************************************************************************)
EXTENDS RegisterBench

CONSTANTS t1, t2

\* The driver responds, with or without the handshake component besides: any
\* threads.  The handshake component alone: one thread, as in the test.
ServedSetups ==
  {[send_response |-> TRUE, handshake |-> h, threads |-> {t1, t2}] : h \in BOOLEAN}
  \cup {[send_response |-> FALSE, handshake |-> TRUE, threads |-> {t1}]}

\* The handshake component alone, and two threads.
HandshakeSetups ==
  {[send_response |-> FALSE, handshake |-> TRUE, threads |-> {t1, t2}]}
=============================================================================
