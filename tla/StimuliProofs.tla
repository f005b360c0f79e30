---------------------------- MODULE StimuliProofs ---------------------------
(***************************************************************************)
(* Two stimuli of the testbenches: the calls through the blocking socket   *)
(* and the delays that are chosen on the fly.                              *)
(*                                                                         *)
(* OwnAnswer for any limit of attempts and any number of crashes.  It is   *)
(* not inductive: that a call reads the answer to its own request rests on *)
(* what the server still holds.  Every connection but the client's own is  *)
(* closed and has no request in it, the client's own is the last one, and  *)
(* a crash takes them all.                                                 *)
(*                                                                         *)
(* For any number of packets, any window they can fill and any greatest    *)
(* delay: no choice on the fly fails, and the window is filled.  The       *)
(* reason is that what is left of the window always fits into what the     *)
(* packets to come may wait.                                               *)
(***************************************************************************)
EXTENDS BlockingCall, OnTheFly, SequenceTheorems, TLAPS

Conn == [asked : {"none", "sel", "in", "delay"}, closed : BOOLEAN]
Result == Answers \cup {"empty", "error"}

\* A connection that is not closed is the client's own, the last one; so is
\* one with a request in it, which is the client's and not answered yet.
OwnConnection ==
  \A k \in DOMAIN conns :
    /\ ~conns[k].closed => k = Len(conns) /\ Connected
    /\ conns[k].asked # "none" =>
         /\ ~conns[k].closed
         /\ at = "read" /\ conns[k].asked = Request /\ reply = "none"

\* What the client has to read answers its request, or tells of a crash.
OwnReply ==
  /\ reply \in Answers => at = "read" /\ reply = Answer(Request)
  /\ reply # "none" => Connected
  /\ reply = "eof" => crashes > 0
  /\ reply \in {"eof", "reset"} => conns = <<>>

\* The server works on the first connection.  More calls are to be made.
InService == srv # "accept" => conns # <<>>
Unfinished == at # "done" => Len(answers) < 6

IInv == TypeOK /\ OwnConnection /\ OwnReply /\ InService /\ Unfinished /\ OwnAnswer

-----------------------------------------------------------------------------
\* What the type says of the two sequences.
LEMMA TypeFacts ==
  ASSUME TypeOK
  PROVE  /\ conns \in Seq(Conn) /\ Len(conns) \in Nat /\ Len(conns) <= 2 /\ DOMAIN conns = 1..Len(conns)
         /\ \A k \in 1..Len(conns) :
              conns[k].asked \in {"none", "sel", "in", "delay"} /\ conns[k].closed \in BOOLEAN
         /\ answers \in Seq(Result) /\ Len(answers) \in Nat /\ Len(answers) <= 6
         /\ DOMAIN answers = 1..Len(answers)
<1>1. conns \in Seq(Conn) /\ Len(conns) <= 2 /\ answers \in Seq(Result) /\ Len(answers) <= 6
  BY DEF TypeOK, Conn, Result
<1>2. Len(conns) \in Nat /\ DOMAIN conns = 1..Len(conns)
  BY <1>1, LenProperties
<1>3. Len(answers) \in Nat /\ DOMAIN answers = 1..Len(answers)
  BY <1>1, LenProperties
<1>4. \A k \in 1..Len(conns) : conns[k] \in Conn
  BY <1>1, ElementOfSeq
<1>5. \A k \in 1..Len(conns) :
        conns[k].asked \in {"none", "sel", "in", "delay"} /\ conns[k].closed \in BOOLEAN
  BY <1>4 DEF Conn
<1> QED  BY <1>1, <1>2, <1>3, <1>5

\* Each of the six calls has a request.
LEMMA SixRequests ==
  /\ Len(Requests(twin)) = 6
  /\ \A n \in 1..6 : Requests(twin)[n] \in {"sel", "in", "delay"}
<1>1. \A n \in 1..6 : n \in {1, 2, 3, 4, 5, 6}
  OBVIOUS
<1> QED  BY <1>1 DEF Requests

\* close(sockfd) leaves no connection open, nor anything to read.
LEMMA CloseFacts ==
  ASSUME TypeOK, OwnConnection, Close,
         \A k \in DOMAIN conns : conns[k].asked = "none"
  PROVE  /\ conns' \in Seq(Conn) /\ Len(conns') = Len(conns)
         /\ (conns = <<>>) <=> (conns' = <<>>)
         /\ \A k \in DOMAIN conns' : conns'[k].asked = "none" /\ conns'[k].closed
         /\ reply' = "none"
<1>1. conns \in Seq(Conn) /\ Len(conns) \in Nat /\ Len(conns) <= 2 /\ DOMAIN conns = 1..Len(conns)
  BY TypeFacts
<1>2. CASE HasPeer
  <2>1. conns # <<>> /\ Len(conns) \in 1..Len(conns)
    BY <1>1, <1>2, EmptySeq DEF HasPeer
  <2>2. conns' = [conns EXCEPT ![Len(conns)] = [conns[Len(conns)] EXCEPT !.closed = TRUE]]
    BY <1>2 DEF Close
  <2>3. [conns[Len(conns)] EXCEPT !.closed = TRUE] \in Conn
    <3>1. conns[Len(conns)] \in Conn
      BY <1>1, <2>1, ElementOfSeq
    <3> QED  BY <3>1 DEF Conn
  <2>4. /\ conns' \in Seq(Conn) /\ Len(conns') = Len(conns)
        /\ \A k \in 1..Len(conns) :
             conns'[k] = IF k = Len(conns) THEN [conns[Len(conns)] EXCEPT !.closed = TRUE]
                         ELSE conns[k]
    BY <1>1, <2>1, <2>2, <2>3, ExceptSeq
  <2>5. DOMAIN conns' = 1..Len(conns) /\ conns' # <<>>
    BY <1>1, <2>1, <2>4, LenProperties, EmptySeq
  <2>6. ASSUME NEW k \in 1..Len(conns) PROVE conns'[k].asked = "none" /\ conns'[k].closed
    <3>1. conns[k] \in Conn /\ conns[k].asked = "none"
      BY <1>1, ElementOfSeq
    <3>2. k # Len(conns) => conns[k].closed
      BY <1>1 DEF OwnConnection
    <3> QED  BY <2>4, <3>1, <3>2 DEF Conn
  <2> QED  BY <2>1, <2>4, <2>5, <2>6 DEF Close
<1>3. CASE ~HasPeer
  <2>1. conns' = conns
    BY <1>3 DEF Close
  <2>2. \A k \in DOMAIN conns : conns[k].closed
    <3> SUFFICES ASSUME NEW k \in DOMAIN conns, ~conns[k].closed PROVE FALSE
      BY TypeFacts
    <3>1. k = Len(conns) /\ Connected /\ conns # <<>>
      BY <1>1, EmptySeq DEF OwnConnection
    <3> QED  BY <3>1, <1>3 DEF HasPeer, Last
  <2> QED  BY <1>1, <2>1, <2>2 DEF Close
<1> QED  BY <1>2, <1>3

\* Before any call there is nothing to answer.
THEOREM InitIInv == Init => IInv
<1> SUFFICES ASSUME Init PROVE IInv
  OBVIOUS
<1>1. TypeOK
  <2>1. 0 \in 0..(MAX_NB_OF_ATTEMPTS + 1) /\ 0 \in 0..MaxCrashes
    BY CallAssumption
  <2> QED  BY <2>1 DEF Init, TypeOK
<1>2. OwnConnection /\ OwnReply /\ InService /\ Unfinished /\ OwnAnswer
  BY DEF Init, OwnConnection, OwnReply, InService, Unfinished, OwnAnswer, Answers
<1> QED  BY <1>1, <1>2 DEF IInv

\* A call that returns an answer of its own, an error, or nothing after a
\* crash, keeps OwnAnswer and leaves the client where it can go on.
LEMMA ReturnsFacts ==
  ASSUME IInv, at # "done", NEW answer \in Result, Returns(answer),
         \/ answer \in {Answer(Request), "error"}
         \/ answer = "empty" /\ crashes > 0,
         UNCHANGED <<twin, crashes>>
  PROVE  /\ answers' \in Seq(Result) /\ Len(answers') <= 6
         /\ at' \in {"attempt", "done"}
         /\ i' \in 0..(MAX_NB_OF_ATTEMPTS + 1)
         /\ Unfinished' /\ OwnAnswer'
<1>1. /\ answers \in Seq(Result) /\ Len(answers) \in Nat /\ Len(answers) < 6 /\ DOMAIN answers = 1..Len(answers)
      /\ answers' = Append(answers, answer) /\ Len(Requests(twin)) = 6
  <2>1. TypeOK /\ Len(answers) < 6
    BY DEF IInv, Unfinished
  <2>2. answers' = Append(answers, answer)
    BY DEF Returns
  <2> QED  BY <2>1, <2>2, TypeFacts, SixRequests
<1>2. /\ answers' \in Seq(Result)
      /\ Len(answers') = Len(answers) + 1
      /\ \A k \in 1..Len(answers) : answers'[k] = answers[k]
      /\ answers'[Len(answers) + 1] = answer
  BY <1>1, AppendProperties
<1>3. at' \in {"attempt", "done"} /\ i' = 0 /\ Unfinished'
  BY <1>1, <1>2 DEF Returns, Unfinished
<1>4. OwnAnswer'
  <2>1. DOMAIN answers' = 1..Len(answers) + 1
    BY <1>1, <1>2, LenProperties
  <2> SUFFICES ASSUME NEW k \in 1..Len(answers) + 1
               PROVE  \/ answers'[k] \in {Answer(Requests(twin)[k]), "error"}
                      \/ answers'[k] = "empty" /\ crashes > 0
    BY <2>1 DEF OwnAnswer, Answer, Requests
  <2>2. CASE k \in 1..Len(answers)
    BY <1>1, <1>2, <2>2 DEF IInv, OwnAnswer
  <2>3. CASE k = Len(answers) + 1
    BY <1>2, <2>3 DEF Request
  <2> QED  BY <1>1, <2>2, <2>3
<1> QED  BY <1>1, <1>2, <1>3, <1>4, CallAssumption

\* An attempt that throws leaves nothing behind, wherever it was.
LEMMA ThrowsIInv ==
  ASSUME IInv, at # "done", NEW code, Throws(code),
         \A k \in DOMAIN conns : conns[k].asked = "none"
  PROVE  IInv'
<1> USE DEF IInv
<1>1. /\ conns' \in Seq(Conn) /\ Len(conns') = Len(conns)
      /\ (conns = <<>>) <=> (conns' = <<>>)
      /\ \A k \in DOMAIN conns' : conns'[k].asked = "none" /\ conns'[k].closed
      /\ reply' = "none"
  BY CloseFacts DEF Throws
<1>2. UNCHANGED <<twin, host_known, up, srv, crashes>>
  BY DEF Throws, serverVars
<1>3. /\ answers' \in Seq(Result) /\ Len(answers') <= 6
      /\ at' \in {"attempt", "done"}
      /\ i' \in 0..(MAX_NB_OF_ATTEMPTS + 1)
      /\ Unfinished' /\ OwnAnswer'
  <2>1. CASE Returns("error")
    <3>1. "error" \in Result /\ UNCHANGED <<twin, crashes>>
      BY <1>2 DEF Result
    <3> QED  BY <2>1, <3>1, ReturnsFacts
  <2>2. CASE /\ at' = "attempt" /\ UNCHANGED answers
             /\ i' = i \/ (i' = i + 1 /\ i + 1 <= MAX_NB_OF_ATTEMPTS)
    <3>1. answers \in Seq(Result) /\ Len(answers) <= 6 /\ Unfinished /\ OwnAnswer
      <4>1. Len(answers) <= 6
        BY DEF TypeOK
      <4> QED  BY <4>1, TypeFacts
    <3>2. i \in 0..(MAX_NB_OF_ATTEMPTS + 1)
      BY DEF TypeOK
    <3>3. i' \in 0..(MAX_NB_OF_ATTEMPTS + 1)
      BY <2>2, <3>2, CallAssumption
    <3> QED  BY <2>2, <1>2, <3>1, <3>3 DEF Unfinished, OwnAnswer
  <2>3. i \in 0..(MAX_NB_OF_ATTEMPTS + 1)
    BY DEF TypeOK
  <2>4. \/ Returns("error")
        \/ /\ at' = "attempt" /\ UNCHANGED answers
           /\ i' = i \/ (i' = i + 1 /\ i + 1 <= MAX_NB_OF_ATTEMPTS)
    BY <2>3, CallAssumption DEF Throws, interpret_errors
  <2> QED  BY <2>1, <2>2, <2>4
<1>4. TypeOK'
  <2>1. Len(conns') <= 2
    BY <1>1, TypeFacts
  <2> QED  BY <1>1, <1>2, <1>3, <2>1 DEF TypeOK, Conn, Result
<1>5. OwnConnection' /\ OwnReply' /\ InService'
  BY <1>1, <1>2 DEF OwnConnection, OwnReply, InService, Answers
<1> QED  BY <1>3, <1>4, <1>5

\* The client's steps.
LEMMA ClientIInv == ASSUME IInv, Client PROVE IInv'
<1> USE DEF IInv
<1>1. CASE Attempt
  <2>1. \A k \in DOMAIN conns : conns[k].asked = "none"
    BY <1>1 DEF Attempt, OwnConnection
  <2>2. ASSUME NEW code, Throws(code) PROVE IInv'
    BY <1>1, <2>1, <2>2, ThrowsIInv DEF Attempt
  <2>3. CASE at' = "connect" /\ UNCHANGED <<twin, host_known, i, answers, serverVars, reply, conns>>
    BY <1>1, <2>3 DEF Attempt, TypeOK, OwnConnection, OwnReply, InService, Unfinished,
                      OwnAnswer, Connected, Request, serverVars, Answers
  <2> QED  BY <1>1, <2>2, <2>3 DEF Attempt
<1>2. CASE Connect
  <2>1. \A k \in DOMAIN conns : conns[k].asked = "none" /\ conns[k].closed
    BY <1>2 DEF Connect, OwnConnection, Connected, TypeOK
  <2>2. CASE Throws("CONN_SERV")
    BY <1>2, <2>1, <2>2, ThrowsIInv DEF Connect
  <2>3. CASE /\ up /\ Queued = 0
             /\ conns' = Append(conns, [asked |-> "none", closed |-> FALSE])
             /\ at' = "write"
             /\ UNCHANGED <<twin, host_known, i, answers, serverVars, reply>>
    <3>1. conns \in Seq(Conn) /\ Len(conns) <= 1
      BY <2>3 DEF TypeOK, Conn, Queued
    <3>2. /\ conns' \in Seq(Conn) /\ Len(conns') = Len(conns) + 1 /\ conns' # <<>>
          /\ \A k \in 1..Len(conns) : conns'[k] = conns[k]
          /\ conns'[Len(conns) + 1] = [asked |-> "none", closed |-> FALSE]
      BY <2>3, <3>1 DEF Conn
    <3>3. OwnConnection'
      BY <2>1, <2>3, <3>1, <3>2 DEF OwnConnection, Connected
    <3>4. reply = "none"
      BY <1>2 DEF Connect, OwnReply, Connected
    <3> QED
      BY <1>2, <2>3, <3>1, <3>2, <3>3, <3>4
         DEF Connect, TypeOK, Conn, OwnReply, InService, Unfinished, OwnAnswer, serverVars, Answers
  <2> QED  BY <1>2, <2>2, <2>3 DEF Connect
<1>3. CASE Write
  <2>1. \A k \in DOMAIN conns : conns[k].asked = "none"
    BY <1>3 DEF Write, OwnConnection
  <2>2. CASE Throws("WRITING_SOCK")
    BY <1>3, <2>1, <2>2, ThrowsIInv DEF Write
  <2>3. CASE /\ conns' = IF HasPeer THEN [conns EXCEPT ![Len(conns)].asked = Request]
                                    ELSE conns
             /\ at' = "read"
             /\ UNCHANGED <<twin, host_known, i, answers, serverVars, reply>>
    <3>0. Request \in {"sel", "in", "delay"} /\ Request' = Request
      <4>1. at # "done" /\ UNCHANGED <<twin, answers>>
        BY <1>3, <2>3 DEF Write
      <4>2. Len(answers) + 1 \in 1..6
        BY <4>1, TypeFacts DEF Unfinished
      <4> QED  BY <4>1, <4>2, SixRequests DEF Request
    <3>1. conns \in Seq(Conn)
      BY DEF TypeOK, Conn
    <3>2. /\ conns' \in Seq(Conn) /\ Len(conns') = Len(conns)
          /\ (conns = <<>>) <=> (conns' = <<>>)
          /\ OwnConnection'
      <4>1. CASE HasPeer
        <5>1. Len(conns) \in DOMAIN conns /\ ~conns[Len(conns)].closed /\ conns # <<>>
          BY <3>1, <4>1 DEF HasPeer, Last
        <5>2. conns' = [conns EXCEPT ![Len(conns)].asked = Request]
          BY <2>3, <4>1
        <5>3. reply = "none"
          BY <1>3, <5>1 DEF Write, OwnReply, TypeOK
        <5>4. /\ conns' \in Seq(Conn) /\ Len(conns') = Len(conns)
              /\ DOMAIN conns' = DOMAIN conns /\ conns' # <<>>
              /\ \A k \in DOMAIN conns : conns'[k].closed = conns[k].closed
              /\ \A k \in DOMAIN conns \ {Len(conns)} : conns'[k].asked = conns[k].asked
              /\ conns'[Len(conns)].asked = Request
          <6> DEFINE asking == [conns[Len(conns)] EXCEPT !.asked = Request]
          <6>1. conns[Len(conns)] \in Conn /\ Len(conns) \in 1..Len(conns)
            BY <3>1, <5>1, ElementOfSeq, LenProperties
          <6>2. asking \in Conn /\ asking.asked = Request
                /\ asking.closed = conns[Len(conns)].closed
            BY <3>0, <6>1 DEF Conn
          <6>3. conns' = [conns EXCEPT ![Len(conns)] = asking]
            BY <5>2
          <6> HIDE DEF asking
          <6>4. /\ conns' \in Seq(Conn) /\ Len(conns') = Len(conns)
                /\ \A k \in 1..Len(conns) :
                     conns'[k] = IF k = Len(conns) THEN asking ELSE conns[k]
            BY <3>1, <6>1, <6>2, <6>3, ExceptSeq
          <6>5. DOMAIN conns = 1..Len(conns) /\ DOMAIN conns' = 1..Len(conns) /\ conns' # <<>>
            BY <3>1, <5>1, <6>4, LenProperties, EmptySeq
          <6> QED  BY <6>1, <6>2, <6>4, <6>5
        <5> QED  BY <2>1, <2>3, <3>0, <5>1, <5>3, <5>4 DEF OwnConnection, Connected
      <4>2. CASE ~HasPeer
        BY <1>3, <2>1, <2>3, <3>1, <4>2 DEF Write, OwnConnection, Connected
      <4> QED  BY <4>1, <4>2
    <3> QED
      BY <1>3, <2>3, <3>0, <3>1, <3>2
         DEF Write, TypeOK, Conn, OwnReply, InService, Unfinished, OwnAnswer, Connected, serverVars, Answers
  <2> QED  BY <1>3, <2>2, <2>3 DEF Write
<1>4. CASE Read
  <2>1. \A k \in DOMAIN conns : conns[k].asked = "none"
    BY <1>4 DEF Read, OwnConnection
  <2>2. CASE Throws("READING_SOCK")
    BY <1>4, <2>1, <2>2, ThrowsIInv DEF Read
  <2>3. CASE /\ reply # "reset"
             /\ Returns(IF reply = "eof" THEN "empty" ELSE reply)
             /\ Close
             /\ UNCHANGED <<twin, host_known, serverVars>>
    <3> DEFINE answer == IF reply = "eof" THEN "empty" ELSE reply
    <3>1. /\ answer \in Result
          /\ \/ answer \in {Answer(Request), "error"}
             \/ answer = "empty" /\ crashes > 0
      BY <1>4, <2>3 DEF Read, OwnReply, TypeOK, Result
    <3>2. /\ answers' \in Seq(Result) /\ Len(answers') <= 6
          /\ at' \in {"attempt", "done"}
          /\ i' \in 0..(MAX_NB_OF_ATTEMPTS + 1)
          /\ Unfinished' /\ OwnAnswer'
      <4>1. Returns(answer) /\ at # "done" /\ UNCHANGED <<twin, crashes>>
        BY <1>4, <2>3 DEF Read, serverVars
      <4> HIDE DEF answer
      <4> QED  BY <3>1, <4>1, ReturnsFacts
    <3>3. /\ conns' \in Seq(Conn) /\ Len(conns') = Len(conns)
          /\ (conns = <<>>) <=> (conns' = <<>>)
          /\ \A k \in DOMAIN conns' : conns'[k].asked = "none" /\ conns'[k].closed
          /\ reply' = "none"
      BY <2>1, <2>3, CloseFacts
    <3>4. TypeOK'
      <4>1. Len(conns') <= 2
        BY <3>3, TypeFacts
      <4> QED  BY <2>3, <3>2, <3>3, <4>1 DEF TypeOK, Conn, Result, serverVars
    <3> QED
      BY <2>3, <3>2, <3>3, <3>4 DEF OwnConnection, OwnReply, InService, serverVars, Answers
  <2> QED  BY <1>4, <2>2, <2>3 DEF Read
<1> QED  BY <1>1, <1>2, <1>3, <1>4 DEF Client

\* The server's steps: only the client's own request can be answered.
LEMMA ServerIInv == ASSUME IInv, Server PROVE IInv'
<1> USE DEF IInv
<1>1. conns \in Seq(Conn)
  BY DEF TypeOK, Conn
<1>2. CASE Accept
  BY <1>2 DEF Accept, clientVars, TypeOK, OwnConnection, OwnReply, InService, Unfinished,
              OwnAnswer, Connected, Request
<1>3. CASE Respond
  <2>1. 1 \in DOMAIN conns /\ conns[1].asked # "none" /\ conns # <<>>
    BY <1>1, <1>3 DEF Respond, InService
  <2>2. /\ Len(conns) = 1 /\ at = "read" /\ conns[1].asked = Request /\ ~conns[1].closed
    BY <1>1, <2>1 DEF OwnConnection
  <2>3. conns' = [conns EXCEPT ![1].asked = "none"]
    BY <1>3 DEF Respond
  <2>4. /\ conns' \in Seq(Conn) /\ Len(conns') = 1 /\ conns' # <<>>
        /\ conns'[1].asked = "none" /\ DOMAIN conns' = {1}
    <3> DEFINE answered == [conns[1] EXCEPT !.asked = "none"]
    <3>1. conns[1] \in Conn /\ 1 \in 1..Len(conns)
      BY <1>1, <2>1, ElementOfSeq, LenProperties
    <3>2. answered \in Conn /\ answered.asked = "none"
      BY <3>1 DEF Conn
    <3>3. conns' = [conns EXCEPT ![1] = answered]
      BY <2>3
    <3> HIDE DEF answered
    <3>4. conns' \in Seq(Conn) /\ Len(conns') = 1 /\ conns'[1] = answered
      <4>1. /\ conns' \in Seq(Conn) /\ Len(conns') = Len(conns)
            /\ \A k \in 1..Len(conns) : conns'[k] = IF k = 1 THEN answered ELSE conns[k]
        BY <1>1, <3>1, <3>2, <3>3, ExceptSeq
      <4> QED  BY <2>2, <3>1, <4>1
    <3>5. DOMAIN conns' = 1..1 /\ conns' # <<>>
      BY <3>4, LenProperties, EmptySeq
    <3> QED  BY <3>2, <3>4, <3>5
  <2>5. UNCHANGED <<twin, host_known, at, i, answers, up, srv, crashes>>
    BY <1>3 DEF Respond, clientVars, serverVars
  <2>6. reply' = Answer(Request) /\ reply' \in Answers /\ Request' = Request
    BY <1>3, <2>2, <2>5 DEF Respond, Answer, Answers, Request
  <2>7. OwnConnection' /\ OwnReply' /\ InService'
    BY <2>2, <2>4, <2>5, <2>6 DEF OwnConnection, OwnReply, InService, Connected, Answers
  <2> QED  BY <2>4, <2>5, <2>6, <2>7 DEF TypeOK, Conn, Unfinished, OwnAnswer
<1>4. CASE CloseConnection
  <2>1. conns # <<>> /\ conns' = Tail(conns)
    BY <1>4 DEF CloseConnection, InService
  <2>2. /\ conns' \in Seq(Conn) /\ Len(conns') = Len(conns) - 1
        /\ \A k \in 1..Len(conns) - 1 : conns'[k] = conns[k + 1]
    BY <1>1, <2>1
  <2>3. UNCHANGED <<twin, host_known, at, i, answers, up, crashes, reply>> /\ srv' = "accept"
    BY <1>4 DEF CloseConnection, clientVars
  <2>4. OwnConnection'
    <3> SUFFICES ASSUME NEW k \in 1..Len(conns) - 1
                 PROVE  /\ ~conns'[k].closed => k = Len(conns') /\ Connected'
                        /\ conns'[k].asked # "none" =>
                             /\ ~conns'[k].closed
                             /\ at' = "read" /\ conns'[k].asked = Request' /\ reply' = "none"
      BY <1>1, <2>2 DEF OwnConnection
    <3>1. k + 1 \in DOMAIN conns /\ conns'[k] = conns[k + 1]
      BY <1>1, <2>2
    <3> QED  BY <1>1, <2>2, <2>3, <3>1 DEF OwnConnection, Connected, Request
  <2>5. reply \notin {"eof", "reset"}
    BY <2>1 DEF OwnReply
  <2> QED
    BY <1>1, <2>2, <2>3, <2>4, <2>5
       DEF TypeOK, Conn, OwnReply, InService, Unfinished, OwnAnswer, Connected, Request
<1> QED  BY <1>2, <1>3, <1>4 DEF Server

\* A crash takes every connection; an answer that was sent stays.
LEMMA CrashIInv == ASSUME IInv, NEW ending \in {"eof", "reset"}, Crash(ending) PROVE IInv'
<1> USE DEF IInv
<1>1. UNCHANGED <<twin, host_known, at, i, answers>> /\ conns' = <<>> /\ srv' = "accept"
  BY DEF Crash, clientVars
<1>2. crashes' \in 0..MaxCrashes /\ crashes' > 0 /\ crashes' > crashes
  BY CallAssumption DEF Crash, TypeOK
<1>3. reply' \in {reply, ending} /\ (reply' # reply => Connected)
  BY DEF Crash
<1>4. TypeOK'
  <2>1. up' \in BOOLEAN /\ srv' = "accept"
    BY <1>1 DEF Crash
  <2>3. conns' \in Seq(Conn) /\ Len(conns') = 0
    BY <1>1, EmptySeq
  <2>4. /\ conns' \in Seq([asked : {"none", "sel", "in", "delay"}, closed : BOOLEAN])
        /\ Len(conns') <= 2
    BY <2>3 DEF Conn
  <2>2. reply' \in Answers \cup {"none", "eof", "reset"}
    BY <1>3 DEF TypeOK
  <2> QED  BY <1>1, <1>2, <2>1, <2>2, <2>4 DEF TypeOK
<1>5. OwnConnection' /\ OwnReply' /\ InService' /\ Unfinished'
  BY <1>1, <1>2, <1>3 DEF OwnConnection, OwnReply, InService, Unfinished, Connected, Request, Answers
<1>6. OwnAnswer'
  BY <1>1, <1>2 DEF OwnAnswer, TypeOK
<1> QED  BY <1>4, <1>5, <1>6

\* Every step keeps the invariant.
THEOREM NextIInv == IInv /\ [Next]_vars => IInv'
<1> SUFFICES ASSUME IInv, [Next]_vars PROVE IInv'
  OBVIOUS
<1>1. CASE Client
  BY <1>1, ClientIInv
<1>2. CASE Server
  BY <1>2, ServerIInv
<1>3. ASSUME NEW ending \in {"eof", "reset"}, Crash(ending) PROVE IInv'
  BY <1>3, CrashIInv
<1>4. CASE Restart
  BY <1>4 DEF Restart, clientVars, IInv, TypeOK, OwnConnection, OwnReply, InService, Unfinished,
              OwnAnswer, Connected, Request
<1>5. CASE UNCHANGED vars
  BY <1>5 DEF vars, clientVars, serverVars, IInv, TypeOK, OwnConnection, OwnReply, InService,
              Unfinished, OwnAnswer, Connected, Request
<1> QED  BY <1>1, <1>2, <1>3, <1>4, <1>5 DEF Next, Stay

\* No call is ever given the answer to another one, however often calls are
\* repeated and wherever the server's process dies and is started again.
THEOREM AnswersAreOwn == Spec => []OwnAnswer
<1>1. IInv => OwnAnswer
  BY DEF IInv
<1> QED  BY InitIInv, NextIInv, <1>1, PTL DEF Spec

\* Every variable keeps its type.
THEOREM TypeCorrect == Spec => []TypeOK
<1>1. IInv => TypeOK
  BY DEF IInv
<1> QED  BY InitIInv, NextIInv, <1>1, PTL DEF Spec
-----------------------------------------------------------------------------
\* What the packets to come may wait at most.
Room == max_delay * (nof_packets - driven)

Fits == (driven = 0 /\ spent = 0) \/ (driven >= 1 /\ window_delay - spent <= Room)

DelaysInv == DelaysTypeOK /\ Fits

\* One packet less has max_delay less room.
LEMMA RoomOfOne ==
  ASSUME DelaysTypeOK, driven < nof_packets
  PROVE  /\ Room \in Nat /\ max_delay * (nof_packets - driven - 1) \in Nat
         /\ Room = max_delay * (nof_packets - driven - 1) + max_delay
<1> USE WindowAssumption
<1> DEFINE k == nof_packets - driven - 1
<1>1. k \in Nat /\ nof_packets - driven = k + 1
  BY DEF DelaysTypeOK
<1>2. max_delay * (k + 1) = max_delay * k + max_delay /\ max_delay * k \in Nat
  <2> HIDE DEF k
  <2> QED  BY <1>1
<1> QED  BY <1>1, <1>2 DEF Room

THEOREM InitDelaysInv == OnTheFlyInit => DelaysInv
BY WindowAssumption DEF OnTheFlyInit, DelaysInv, DelaysTypeOK, Fits

\* A step leaves as much of the window as the packets to come can fill.
THEOREM NextDelaysInv == DelaysInv /\ [OnTheFlyNext]_delayVars => DelaysInv'
<1> USE WindowAssumption
<1> SUFFICES ASSUME DelaysInv, [OnTheFlyNext]_delayVars PROVE DelaysInv'
  OBVIOUS
<1> USE DEF DelaysInv
<1>1. CASE FirstPacket
  BY <1>1 DEF FirstPacket, DelaysTypeOK, Fits, Room
<1>2. ASSUME NEW new_delay \in 0..max_delay, Drive(new_delay) PROVE DelaysInv'
  <2>1. /\ driven \in 1..nof_packets - 1 /\ driven' = driven + 1 /\ spent' = spent + new_delay
        /\ new_delay \in 0..max_delay /\ new_delay <= window_delay - spent
        /\ new_delay >= window_delay - spent - max_delay * (nof_packets - driven - 1)
    BY <1>2 DEF Drive, Legal, min_delay, available_window_delay
  <2>2. DelaysTypeOK'
    BY <2>1 DEF DelaysTypeOK
  <2>3. Room' = max_delay * (nof_packets - driven - 1)
    <3>1. nof_packets - driven' = nof_packets - driven - 1
      BY <2>1
    <3> QED  BY <3>1 DEF Room
  <2>4. max_delay * (nof_packets - driven - 1) \in Nat
    BY <2>1, RoomOfOne DEF DelaysTypeOK
  <2>5. Fits'
    <3> DEFINE room == max_delay * (nof_packets - driven - 1)
    <3>1. room \in Nat /\ Room' = room /\ new_delay >= window_delay - spent - room
      BY <2>1, <2>3, <2>4
    <3> HIDE DEF room
    <3> QED  BY <2>1, <3>1 DEF Fits, DelaysTypeOK
  <2> QED  BY <2>2, <2>5
<1>3. CASE UNCHANGED delayVars
  BY <1>3 DEF delayVars, DelaysTypeOK, Fits, Room
<1> QED  BY <1>1, <1>2, <1>3 DEF OnTheFlyNext

\* The packets driven, and the window used, keep within their bounds.
THEOREM DelaysTypeCorrect == OnTheFlySpec => []DelaysTypeOK
<1>1. DelaysInv => DelaysTypeOK
  BY DEF DelaysInv
<1> QED  BY InitDelaysInv, NextDelaysInv, <1>1, PTL DEF OnTheFlySpec

\* assert(randomize(new_delay) with ...) never fails: either what is left fits
\* into the packets after this one, and 0 will do, or the difference will.
THEOREM ChoiceSucceeds == OnTheFlySpec => []RandomizeSucceeds
<1> USE WindowAssumption
<1>1. DelaysInv => RandomizeSucceeds
  <2> SUFFICES ASSUME DelaysInv, driven \in 1..nof_packets - 1
               PROVE  \E new_delay \in 0..max_delay : Legal(new_delay)
    BY DEF RandomizeSucceeds
  <2> DEFINE room == max_delay * (nof_packets - driven - 1)
             left == window_delay - spent
  <2>1. room \in Nat /\ left \in Nat /\ left <= room + max_delay
    <3>1. room \in Nat /\ Room = room + max_delay
      BY RoomOfOne DEF DelaysInv, DelaysTypeOK
    <3>2. left \in Nat /\ left <= Room
      BY DEF DelaysInv, DelaysTypeOK, Fits
    <3> HIDE DEF room, left
    <3> QED  BY <3>1, <3>2
  <2>2. min_delay = left - room /\ available_window_delay = left
    BY DEF min_delay, available_window_delay
  <2> HIDE DEF room, left
  <2>3. CASE left <= room
    <3>1. 0 \in 0..max_delay /\ Legal(0)
      BY <2>1, <2>2, <2>3 DEF Legal
    <3> QED  BY <3>1
  <2>4. CASE left > room
    <3>1. left - room \in 0..max_delay /\ Legal(left - room)
      BY <2>1, <2>2, <2>4 DEF Legal
    <3> QED  BY <3>1
  <2> QED  BY <2>1, <2>3, <2>4
<1> QED  BY InitDelaysInv, NextDelaysInv, <1>1, PTL DEF OnTheFlySpec

\* When the last packet has been driven there is no room, so nothing is left.
THEOREM WindowIsFilled == OnTheFlySpec => []WindowFilled
<1> USE WindowAssumption
<1>1. DelaysInv => WindowFilled
  <2> SUFFICES ASSUME DelaysInv, driven = nof_packets PROVE spent = window_delay
    BY DEF WindowFilled
  <2>1. Room = 0
    BY DEF Room
  <2> QED  BY <2>1 DEF DelaysInv, DelaysTypeOK, Fits
<1> QED  BY InitDelaysInv, NextDelaysInv, <1>1, PTL DEF OnTheFlySpec
=============================================================================
