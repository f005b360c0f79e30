----------------------------- MODULE BlockingCall ---------------------------
(***************************************************************************)
(* The blocking socket examples, in SystemVerilog and in e: the testbench  *)
(* asks the Python server for its stimuli, one call_client after another.  *)
(* A call opens a connection, writes its request, reads the answer and     *)
(* closes; when one of these fails it starts again.  The server serves one *)
(* connection at a time.  Requests and answers are shorter than a segment, *)
(* so each is written and read whole.                                      *)
(***************************************************************************)
EXTENDS Naturals, SequencesExt

CONSTANTS
  Twins,             \* which of the examples: "sv", "e"
  HostKnown,         \* whether gethostbyname may find, or miss, the server
  MAX_NB_OF_ATTEMPTS,
  MaxCrashes         \* bound: how often the server's process dies

ASSUME CallAssumption ==
  /\ Twins \subseteq {"sv", "e"}
  /\ HostKnown \subseteq BOOLEAN
  /\ MAX_NB_OF_ATTEMPTS \in Nat /\ MaxCrashes \in Nat

VARIABLES
  twin,              \* the example that runs
  host_known,        \* gethostbyname finds the server's host
  at,                \* where call_client is
  i,                 \* the failed attempts of this call
  reply,             \* what the client's connection has for it
  answers,           \* what the calls so far have returned
  up,                \* the server's process runs
  srv,               \* where server() is
  conns,             \* connections the server has not closed, in order
  crashes            \* how often the server's process has died

clientVars == <<twin, host_known, at, i, answers>>
serverVars == <<up, srv, crashes>>
vars == <<clientVars, serverVars, reply, conns>>

\* The calls the testbench makes, in their order.
Requests(example) ==
  IF example = "sv" THEN <<"sel", "delay", "delay", "in", "in", "delay">>
                    ELSE <<"sel", "in", "in", "delay", "delay", "delay">>

Request == Requests(twin)[Len(answers) + 1]

\* compute_response: so many bits, or so many delays.
Answer(request) == IF request \in {"sel", "in"} THEN "bits" ELSE "delays"

Answers == {"bits", "delays"}

TypeOK ==
  /\ twin \in Twins /\ host_known \in HostKnown
  /\ at \in {"attempt", "connect", "write", "read", "done"}
  /\ i \in 0..(MAX_NB_OF_ATTEMPTS + 1)
  /\ reply \in Answers \cup {"none", "eof", "reset"}
  /\ answers \in Seq(Answers \cup {"empty", "error"}) /\ Len(answers) <= 6
  /\ up \in BOOLEAN
  /\ srv \in {"accept", "recv", "respond"}
  /\ conns \in Seq([asked : {"none", "sel", "in", "delay"}, closed : BOOLEAN])
  /\ Len(conns) <= 2
  /\ crashes \in 0..MaxCrashes

Init ==
  /\ twin \in Twins /\ host_known \in HostKnown
  /\ at = "attempt" /\ i = 0
  /\ reply = "none"
  /\ answers = <<>>
  /\ up \in BOOLEAN
  /\ srv = "accept"
  /\ conns = <<>>
  /\ crashes = 0

-----------------------------------------------------------------------------
(* client and call_client.                                                 *)

Connected == at \in {"write", "read"}

\* The client's connection is the last one, unless a crash has taken it.
HasPeer == Connected /\ conns # <<>> /\ ~Last(conns).closed

\* close(sockfd)
Close ==
  /\ conns' = IF HasPeer THEN [conns EXCEPT ![Len(conns)].closed = TRUE] ELSE conns
  /\ reply' = "none"

\* call_client returns; the testbench goes on unless it has its data, or
\* the answer is "error".
Returns(answer) ==
  /\ answers' = Append(answers, answer)
  /\ i' = 0
  /\ at' = IF Len(answers') = Len(Requests(twin)) \/ answer = "error"
           THEN "done" ELSE "attempt"

\* Variant: the number of the try is not raised.
interpret_errors_NotCounted(code) ==
  IF code = "HOST" THEN Returns("error")
  ELSE at' = "attempt" /\ UNCHANGED <<i, answers>>

\* interpret_errors, with the code of the error and the number of the try.
interpret_errors(code) ==
  IF code = "HOST" \/ i + 1 > MAX_NB_OF_ATTEMPTS
  THEN Returns("error")
  ELSE i' = i + 1 /\ at' = "attempt" /\ UNCHANGED answers

\* An attempt throws.  In the e example the codes are strings, which only
\* catch(...) takes: it leaves e and i as they are.
Throws(code) ==
  /\ Close
  /\ IF twin = "sv" THEN interpret_errors(code)
     ELSE at' = "attempt" /\ UNCHANGED <<i, answers>>
  /\ UNCHANGED <<twin, host_known, serverVars>>

\* socket and gethostbyname.
Attempt ==
  /\ at = "attempt"
  /\ \/ Throws("OPEN_SOCK")
     \/ ~host_known /\ Throws("HOST")
     \/ /\ host_known
        /\ at' = "connect"
        /\ UNCHANGED <<twin, host_known, i, answers, serverVars, reply, conns>>

\* The queue of the listening socket holds one connection.
Queued == IF srv = "accept" THEN Len(conns) ELSE Len(conns) - 1

Connect ==
  /\ at = "connect"
  /\ \/ ~up /\ Throws("CONN_SERV")
     \/ /\ up /\ Queued = 0
        /\ conns' = Append(conns, [asked |-> "none", closed |-> FALSE])
        /\ at' = "write"
        /\ UNCHANGED <<twin, host_known, i, answers, serverVars, reply>>

\* The first write to a connection the server has left may still succeed.
Write ==
  /\ at = "write"
  /\ \/ reply = "reset" /\ Throws("WRITING_SOCK")
     \/ /\ conns' = IF HasPeer THEN [conns EXCEPT ![Len(conns)].asked = Request]
                               ELSE conns
        /\ at' = "read"
        /\ UNCHANGED <<twin, host_known, i, answers, serverVars, reply>>

\* Variant: the connection is not closed after the answer.
Read_KeepsOpen ==
  /\ at = "read"
  /\ reply # "none"
  /\ IF reply = "reset" THEN Throws("READING_SOCK")
     ELSE /\ Returns(IF reply = "eof" THEN "empty" ELSE reply)
          /\ reply' = "none"
          /\ UNCHANGED <<twin, host_known, serverVars, conns>>

\* read waits for an answer; the end of the connection counts as an
\* empty one.
Read ==
  /\ at = "read"
  /\ reply # "none"
  /\ IF reply = "reset" THEN Throws("READING_SOCK")
     ELSE /\ Returns(IF reply = "eof" THEN "empty" ELSE reply)
          /\ Close
          /\ UNCHANGED <<twin, host_known, serverVars>>

Client == Attempt \/ Connect \/ Write \/ Read

-----------------------------------------------------------------------------
(* server.                                                                 *)

Accept ==
  /\ up /\ srv = "accept" /\ conns # <<>>
  /\ srv' = "recv"
  /\ UNCHANGED <<clientVars, up, crashes, reply, conns>>

\* Variant: whoever asks is sent the answer to a request for bits.
Respond_Bits ==
  /\ up /\ srv = "recv" /\ conns[1].asked # "none"
  /\ reply' = "bits"
  /\ conns' = [conns EXCEPT ![1].asked = "none"]
  /\ UNCHANGED <<clientVars, serverVars>>

\* recv returns a request: it is answered.
Respond ==
  /\ up /\ srv = "recv" /\ conns[1].asked # "none"
  /\ reply' = Answer(conns[1].asked)
  /\ conns' = [conns EXCEPT ![1].asked = "none"]
  /\ UNCHANGED <<clientVars, serverVars>>

\* recv returns no data: the client has closed the connection.
CloseConnection ==
  /\ up /\ srv = "recv" /\ conns[1].closed /\ conns[1].asked = "none"
  /\ srv' = "accept"
  /\ conns' = Tail(conns)
  /\ UNCHANGED <<clientVars, up, crashes, reply>>

Server == Accept \/ Respond \/ CloseConnection

\* The process of the server dies; an answer that was sent still arrives.
Crash(ending) ==
  /\ up /\ crashes < MaxCrashes
  /\ up' = FALSE /\ crashes' = crashes + 1
  /\ srv' = "accept"
  /\ conns' = <<>>
  /\ reply' = IF Connected /\ reply = "none" THEN ending ELSE reply
  /\ UNCHANGED clientVars

Restart ==
  /\ ~up
  /\ up' = TRUE
  /\ UNCHANGED <<clientVars, srv, crashes, reply, conns>>

Stay == at = "done" /\ up /\ srv = "accept" /\ conns = <<>> /\ UNCHANGED vars

Next ==
  \/ Client
  \/ Server
  \/ \E ending \in {"eof", "reset"} : Crash(ending)
  \/ Restart
  \/ Stay

\* Both processes are run; nobody need restart a server that has died.
Spec == Init /\ [][Next]_vars /\ WF_vars(Client) /\ WF_vars(Server)
-----------------------------------------------------------------------------
\* A call that is repeated, or made while the server still has the connection
\* of the last one, never gets the answer to another: it returns the answer to
\* its own request, "error", or an empty one if the server's process has died.
OwnAnswer ==
  \A k \in DOMAIN answers :
    \/ answers[k] \in {Answer(Requests(twin)[k]), "error"}
    \/ answers[k] = "empty" /\ crashes > 0

\* "If there are MAX_NB_OF_ATTEMPTS attemps to establish a connection, then
\* the client decides to stop the programme" (client.cc:73-74): every call
\* returns, whatever happens to the server, so the testbench comes to its end.
\* The e example, whose catch(...) counts no attempt, ends only if the host is
\* known and the errors stop: without a server it repeats its call for ever.
Repeats == at \in {"connect", "write", "read"} /\ at' = "attempt" /\ answers' = answers
CallsEnd == twin = "sv" \/ (host_known /\ <>[][~Repeats]_vars) => <>(at = "done")

\* The server is free again for the next call, unless its process dies.
ServerFreed == srv # "accept" ~> srv = "accept"
=============================================================================
