------------------------- MODULE RegisterBenchProofs ------------------------
(***************************************************************************)
(* For any threads, registers and data and any number of accesses: no      *)
(* request is lost at the register file, and, where each access gets its   *)
(* own response, the mirror is exact and the bench implements atomic       *)
(* registers.                                                              *)
(***************************************************************************)
EXTENDS RegisterBench, TLAPS

\* The register file works on a request from the edge that takes it to the next
\* one; at that edge the request is on the pins, at the next one its response.
Answering == int_state = "SEND_RESP"

Pins ==
  /\ Answering <=> req # None
  /\ Answering <=> rsp_next # None
  /\ Answering => rsp = None
  /\ req_next = IF driver = "clear" THEN item ELSE None
  /\ driver # "get" => item # None
  /\ driver = "clear" => (Answering <=> "driver" \in woken)
  /\ driver = "clear" /\ Answering => req = item
  /\ driver = "drive" /\ "driver" \in woken => ~Answering
  /\ "driver" \in woken => driver # "get"

\* Requests go from their thread over the queue to the driver: the last one sent
\* is the item of the driver, ...
Sent == last_req = item /\ (item # None => item.n <= issued[item.thread])

\* ... a thread has its own access, the last one it began, ...
Owned ==
  \A t \in Threads : thread[t] # Idle =>
    thread[t].access.thread = t /\ thread[t].access.n <= issued[t]

\* ... the queue has one request for each of some threads that wait for it, ...
Queued ==
  /\ \A i \in DOMAIN queue :
       thread[queue[i].thread] = [at |-> "grant", access |-> queue[i]]
  /\ \A i, j \in DOMAIN queue : queue[i].thread = queue[j].thread => i = j

\* ... and the driver drives the access of the one thread in finish_item.
Driven ==
  /\ \A t \in Threads : thread[t].at = "grant" => thread[t].access # item
  /\ driver \in {"drive", "clear"} =>
       thread[item.thread] = [at |-> "done", access |-> item]
  /\ \A t \in Threads : thread[t].at = "done" =>
       driver \in {"drive", "clear"} /\ thread[t].access = item

Requests == Sent /\ Owned /\ Queued /\ Driven

\* The monitor follows the register file: it holds a request from the edge at
\* which this was taken until it has seen the response.
Collected ==
  /\ Answering => item # None
  /\ monitor = "response" => m_collected_item # None /\ item # None
  /\ Answering /\ monitor = "response" => m_collected_item = req
  /\ Answering /\ monitor = "request" => "monitor" \in woken
  /\ ~Answering /\ monitor = "response" => "monitor" \in woken /\ rsp # None

\* What the predictor will be told is what the register holds; the other
\* mirrored values are right.
Predicted ==
  /\ Answering => bus2reg(req, rsp_next) = regs[req.reg]
  /\ ~Answering /\ monitor = "response" =>
       bus2reg(m_collected_item, rsp) = regs[m_collected_item.reg]
  /\ \A r \in Regs :
       \/ mirror[r] = regs[r]
       \/ Answering /\ r = req.reg
       \/ ~Answering /\ monitor = "response" /\ r = m_collected_item.reg

BenchInv == TypeOK /\ Pins /\ Requests /\ Collected /\ Predicted

\* Each access gets its own response, or none: without the driver's response
\* the handshake component serves one thread.
Served(s) ==
  s.send_response \/ ~s.handshake \/ \E t \in Threads : s.threads \subseteq {t}

Responds == setup.send_response \/ setup.handshake

\* The threads are those of such a test, ...
TestThreads == Served(setup) /\ \A t \in Threads : thread[t] # Idle => t \in setup.threads

\* ... no response comes before its thread waits for it, ...
InTime ==
  /\ \A t \in Threads : responses[t] = <<>>
  /\ driver = "respond" =>
       setup.send_response /\ (Answering \/ (rsp # None /\ "driver" \in woken))

\* ... the request on the pins is that of its thread and has had its effect, ...
Effective ==
  Answering => /\ thread[req.thread].at \in {"done", "response"}
               /\ thread[req.thread].access = req
               /\ effect[req.thread] = regs[req.reg]

\* ... and, where anything responds, the last one sent; so that ...
Current ==
  Answering /\ Responds =>
    /\ req = item /\ driver # "drive"
    /\ driver = "get" => ~setup.send_response

\* ... what is collected is its response, and tells the thread its effect.
OwnResponse ==
  ~Answering /\ Responds /\ rsp # None /\ woken # {} =>
    /\ driver \in {"get", "respond"} /\ item # None
    /\ monitor = "response" => m_collected_item = item
    /\ thread[item.thread] = [at |-> "response", access |-> item] =>
         effect[item.thread] = bus2reg(item, rsp)

Answers == TestThreads /\ InTime /\ Effective /\ Current /\ OwnResponse

IInv == BenchInv /\ Answers

-----------------------------------------------------------------------------
(* What an access, a response and the state of a thread consist of.        *)

LEMMA AccessFacts ==
  ASSUME NEW a \in Access
  PROVE  /\ a # None /\ a.valid = TRUE /\ a.thread \in Threads /\ a.n \in 1..MaxAccesses
         /\ a.reg \in Regs /\ a.rnw \in BOOLEAN /\ a.data \in Data
<1>1. a.valid = TRUE
  BY DEF Access
<1>2. a # None
  BY DEF Access, None
<1>3. /\ a.thread \in Threads /\ a.n \in 1..MaxAccesses
      /\ a.reg \in Regs /\ a.data \in Data
  BY DEF Access
<1>4. a.rnw \in BOOLEAN
  BY DEF Access
<1> QED  BY <1>1, <1>2, <1>3, <1>4

LEMMA ResponseFacts ==
  ASSUME NEW d \in Response
  PROVE  d # None /\ d.valid = TRUE /\ d.data \in Data
<1>1. d.valid = TRUE
  BY DEF Response
<1>2. d # None
  BY DEF Response, None
<1>3. d.data \in Data
  BY DEF Response
<1> QED  BY <1>1, <1>2, <1>3

LEMMA NoneFacts == None.valid = FALSE
BY DEF None

LEMMA ThreadFacts ==
  ASSUME NEW s \in ThreadStates
  PROVE  /\ s # Idle <=> s.at \in {"grant", "done", "response"}
         /\ s = Idle <=> s.at = "idle"
         /\ s # Idle => s.access \in Access /\ s = [at |-> s.at, access |-> s.access]
BY DEF ThreadStates, Idle

LEMMA QueueFacts ==
  ASSUME queue \in Seq(Access), queue # <<>>
  PROVE  /\ Head(queue) \in Access /\ Head(queue) = queue[1] /\ 1 \in DOMAIN queue
         /\ Tail(queue) \in Seq(Access)
         /\ \A i \in DOMAIN Tail(queue) :
              i \in Nat \ {0} /\ i + 1 \in DOMAIN queue /\ Tail(queue)[i] = queue[i + 1]
OBVIOUS

-----------------------------------------------------------------------------
(* The pins.                                                               *)

LEMMA PinsStep ==
  ASSUME TypeOK, Pins, [Next]_vars
  PROVE  Pins'
<1> USE DEF Pins, Answering
<1>1. ASSUME NEW t \in Threads, NEW r \in Regs, NEW rnw \in BOOLEAN, NEW d \in Data,
             Start(t, r, rnw, d)
      PROVE  Pins'
  BY <1>1 DEF Start, regFileVars
<1>2. CASE Grant
  <2>1. Head(queue) # None
    <3>1. queue \in Seq(Access) /\ queue # <<>>
      BY <1>2 DEF TypeOK, Grant, CanGrant
    <3> QED  BY <3>1, QueueFacts, AccessFacts
  <2> QED  BY <1>2, <2>1 DEF Grant, CanGrant, regFileVars
<1>3. CASE Edge
  <2>1. Accepts <=> driver = "clear"
    BY <1>3, AccessFacts, NoneFacts DEF TypeOK, RegFileTypeOK, Edge, Accepts
  <2>2. CASE driver = "clear"
    <3>1. rsp_next' # None
      BY <1>3, <2>1, <2>2 DEF Edge, RegFileEdge, None
    <3>2. /\ int_state' = "SEND_RESP" /\ req' = item /\ rsp' = None
          /\ "driver" \in woken' /\ UNCHANGED <<driver, item, req_next>>
      BY <1>3, <2>1, <2>2 DEF Edge, RegFileEdge
    <3> QED  BY <2>2, <3>1, <3>2
  <2>3. CASE driver # "clear"
    BY <1>3, <2>1, <2>3 DEF Edge, RegFileEdge
  <2> QED  BY <2>2, <2>3
<1>4. CASE Drive
  BY <1>4 DEF Drive, Waits, TypeOK
<1>5. CASE ClearAndItemDone
  BY <1>5 DEF ClearAndItemDone, Waits, TypeOK
<1>6. CASE Respond
  BY <1>6 DEF Respond, Waits, regFileVars, TypeOK
<1>7. CASE CollectRequest
  BY <1>7 DEF CollectRequest, Waits, regFileVars, TypeOK
<1>8. CASE CollectResponse
  BY <1>8 DEF CollectResponse, Waits, regFileVars, TypeOK
<1>9. CASE UNCHANGED vars
  BY <1>9 DEF vars, regFileVars, benchVars
<1> QED
  BY <1>1, <1>2, <1>3, <1>4, <1>5, <1>6, <1>7, <1>8, <1>9 DEF Next, Simulate

-----------------------------------------------------------------------------
(* What the steps do to the threads.                                       *)

\* Thread t has begun the access a.
Began(t, a) ==
  /\ a.thread = t /\ a.n = issued[t] + 1
  /\ [at |-> "grant", access |-> a] \in ThreadStates \ {Idle}
  /\ thread' = [thread EXCEPT ![t] = [at |-> "grant", access |-> a]]
  /\ queue' = Append(queue, a)
  /\ issued[t] + 1 \in 0..MaxAccesses

LEMMA StartFacts ==
  ASSUME TypeOK, NEW t \in Threads, NEW r \in Regs, NEW rnw \in BOOLEAN, NEW d \in Data,
         Start(t, r, rnw, d)
  PROVE  \E a \in Access : Began(t, a)
<1> DEFINE a == [valid |-> TRUE, thread |-> t, n |-> issued[t] + 1,
                 reg |-> r, rnw |-> rnw, data |-> d]
<1>1. issued[t] + 1 \in 1..MaxAccesses
  BY RegAssumption DEF TypeOK, Start
<1>2. a \in Access
  BY <1>1 DEF Access
<1>3. [at |-> "grant", access |-> a] \in ThreadStates
  BY <1>2 DEF ThreadStates
<1>4. [at |-> "grant", access |-> a] # Idle
  BY DEF Idle
<1>5. /\ thread' = [thread EXCEPT ![t] = [at |-> "grant", access |-> a]]
      /\ queue' = Append(queue, a)
  BY DEF Start
<1>6. a.thread = t /\ a.n = issued[t] + 1
  OBVIOUS
<1>7. issued[t] + 1 \in 0..MaxAccesses
  BY <1>1, RegAssumption DEF TypeOK
<1> HIDE DEF a
<1> QED  BY <1>2, <1>3, <1>4, <1>5, <1>6, <1>7 DEF Began

LEMMA GrantFacts ==
  ASSUME TypeOK, Requests, Grant
  PROVE  LET a == Head(queue) IN
         /\ a \in Access /\ a = queue[1]
         /\ thread[a.thread] = [at |-> "grant", access |-> a]
         /\ [at |-> "done", access |-> a] \in ThreadStates
         /\ thread' = [thread EXCEPT ![a.thread] = [at |-> "done", access |-> a]]
<1> DEFINE a == Head(queue)
<1>1. queue \in Seq(Access) /\ queue # <<>>
  BY DEF TypeOK, Grant, CanGrant
<1>2. a \in Access /\ a = queue[1] /\ 1 \in DOMAIN queue
  BY <1>1, QueueFacts
<1>3. thread[a.thread] = [at |-> "grant", access |-> a]
  BY <1>2 DEF Requests, Queued
<1>4. thread' = [thread EXCEPT ![a.thread].at = "done"]
  BY DEF Grant
<1>5. thread' = [thread EXCEPT ![a.thread] = [thread[a.thread] EXCEPT !.at = "done"]]
  BY <1>4
<1>6. [thread[a.thread] EXCEPT !.at = "done"] = [at |-> "done", access |-> a]
  BY <1>3
<1>7. [at |-> "done", access |-> a] \in ThreadStates
  BY <1>2 DEF ThreadStates
<1> QED  BY <1>2, <1>3, <1>5, <1>6, <1>7

LEMMA ItemDoneFacts ==
  ASSUME TypeOK, Pins, Requests, driver = "clear", AfterItemDone(item)
  PROVE  /\ item \in Access
         /\ \/ /\ responses[item.thread] = <<>>
               /\ thread' = [thread EXCEPT ![item.thread] = [at |-> "response", access |-> item]]
               /\ [at |-> "response", access |-> item] \in ThreadStates
               /\ rdata' = rdata
            \/ /\ responses[item.thread] # <<>>
               /\ thread' = [thread EXCEPT ![item.thread] = Idle]
               /\ rdata' = [rdata EXCEPT ![item.thread] = Head(responses[item.thread])]
               /\ Head(responses[item.thread]) \in Data
<1>1. item \in Access
  BY DEF TypeOK, Pins
<1>2. item.thread \in Threads
  BY <1>1, AccessFacts
<1>3. thread[item.thread] = [at |-> "done", access |-> item]
  BY DEF Requests, Driven
<1>4. [thread EXCEPT ![item.thread].at = "response"]
        = [thread EXCEPT ![item.thread] = [thread[item.thread] EXCEPT !.at = "response"]]
  OBVIOUS
<1>5. [thread[item.thread] EXCEPT !.at = "response"] = [at |-> "response", access |-> item]
  BY <1>3
<1>6. [at |-> "response", access |-> item] \in ThreadStates
  BY <1>1 DEF ThreadStates
<1>7. responses[item.thread] \in Seq(Data)
  BY <1>2 DEF TypeOK
<1>8. CASE responses[item.thread] = <<>>
  BY <1>1, <1>4, <1>5, <1>6, <1>8 DEF AfterItemDone
<1>9. CASE responses[item.thread] # <<>>
  BY <1>1, <1>7, <1>9 DEF AfterItemDone
<1> QED  BY <1>8, <1>9

\* A response ends the wait of its thread, or waits for it, or is dropped.
LEMMA PutFacts ==
  ASSUME TypeOK, NEW a \in Access, NEW d \in Data, PutResponse(a, d)
  PROVE  \/ /\ thread[a.thread] = [at |-> "response", access |-> a]
            /\ thread' = [thread EXCEPT ![a.thread] = Idle]
            /\ rdata' = [rdata EXCEPT ![a.thread] = d]
            /\ UNCHANGED responses
         \/ /\ thread[a.thread].at = "done" /\ thread[a.thread].access = a
            /\ responses' = [responses EXCEPT ![a.thread] = Append(@, d)]
            /\ UNCHANGED <<thread, rdata>>
         \/ UNCHANGED <<thread, rdata, responses>>
<1>1. thread[a.thread] \in ThreadStates
  BY AccessFacts DEF TypeOK
<1>2. thread[a.thread].at = "response" /\ thread[a.thread].access = a
        => thread[a.thread] = [at |-> "response", access |-> a]
  BY <1>1, ThreadFacts
<1> QED  BY <1>2 DEF PutResponse

LEMMA PutTypes ==
  ASSUME TypeOK, NEW a \in Access, NEW d \in Data, PutResponse(a, d)
  PROVE  /\ thread' \in [Threads -> ThreadStates] /\ rdata' \in [Threads -> Data]
         /\ responses' \in [Threads -> Seq(Data)]
<1>1. Idle \in ThreadStates /\ a.thread \in Threads
  BY AccessFacts DEF ThreadStates
<1>2. CASE /\ thread' = [thread EXCEPT ![a.thread] = Idle]
           /\ rdata' = [rdata EXCEPT ![a.thread] = d]
           /\ UNCHANGED responses
  BY <1>1, <1>2 DEF TypeOK
<1>3. CASE /\ responses' = [responses EXCEPT ![a.thread] = Append(@, d)]
           /\ UNCHANGED <<thread, rdata>>
  <2>1. responses[a.thread] \in Seq(Data)
    BY <1>1 DEF TypeOK
  <2>2. Append(responses[a.thread], d) \in Seq(Data)
    BY <2>1
  <2> QED  BY <1>1, <1>3, <2>2 DEF TypeOK
<1>4. CASE UNCHANGED <<thread, rdata, responses>>
  BY <1>4 DEF TypeOK
<1> QED  BY <1>2, <1>3, <1>4, PutFacts

LEMMA BusData ==
  ASSUME NEW a \in Access, NEW d \in Response
  PROVE  bus2reg(a, d) \in Data
BY AccessFacts, ResponseFacts DEF bus2reg

-----------------------------------------------------------------------------
(* Types.                                                                  *)

LEMMA TypeStep ==
  ASSUME TypeOK, Pins, Requests, Collected, [Next]_vars
  PROVE  TypeOK'
<1> USE DEF TypeOK
<1>1. ASSUME NEW t \in Threads, NEW r \in Regs, NEW rnw \in BOOLEAN, NEW d \in Data,
             Start(t, r, rnw, d)
      PROVE  TypeOK'
  <2>1. /\ thread' \in [Threads -> ThreadStates] /\ queue' \in Seq(Access)
        /\ issued' \in [Threads -> 0..MaxAccesses]
    <3>1. PICK a \in Access : Began(t, a)
      <4> HIDE DEF TypeOK
      <4> QED  BY <1>1, StartFacts
    <3>2. thread' \in [Threads -> ThreadStates] /\ queue' \in Seq(Access)
      BY <3>1 DEF Began
    <3>3. issued' \in [Threads -> 0..MaxAccesses]
      BY <1>1, <3>1 DEF Start, Began
    <3> QED  BY <3>2, <3>3
  <2>2. responses' \in [Threads -> Seq(Data)]
    BY <1>1 DEF Start
  <2> QED  BY <1>1, <2>1, <2>2 DEF Start, regFileVars, RegFileTypeOK
<1>2. CASE Grant
  <2>1. /\ queue' \in Seq(Access) /\ item' \in Access /\ last_req' \in Access
        /\ thread' \in [Threads -> ThreadStates]
    BY <1>2, GrantFacts, QueueFacts DEF Grant, CanGrant
  <2> QED  BY <1>2, <2>1 DEF Grant, regFileVars, RegFileTypeOK
<1>3. CASE Edge
  <2>1. ASSUME Accepts
        PROVE  req_next \in Access /\ Effect(req_next) \in Data
    BY <2>1, AccessFacts, NoneFacts DEF RegFileTypeOK, Accepts, Effect
  <2>2. regs' \in [Regs -> Data] /\ effect' \in [Threads -> Data]
    BY <1>3, <2>1, AccessFacts DEF Edge, RegFileEdge, RegFileTypeOK
  <2>3. rsp_next' \in Response \cup {None}
    <3>1. ASSUME NEW d \in Data
          PROVE  [valid |-> TRUE, data |-> d] \in Response
      BY DEF Response
    <3>2. (IF req_next.rnw THEN Effect(req_next) ELSE 0) \in Data \/ ~Accepts
      BY <2>1, RegAssumption
    <3> QED  BY <1>3, <3>1, <3>2 DEF Edge, RegFileEdge
  <2>4. int_state' \in {"GET_REQ", "SEND_RESP"} /\ woken' \subseteq {"driver", "monitor"}
    BY <1>3 DEF Edge, RegFileEdge
  <2> QED  BY <1>3, <2>2, <2>3, <2>4 DEF Edge, RegFileEdge, RegFileTypeOK
<1>4. CASE Drive
  BY <1>4 DEF Drive, Waits, RegFileTypeOK
<1>5. CASE ClearAndItemDone
  <2>1. thread' \in [Threads -> ThreadStates] /\ rdata' \in [Threads -> Data]
    <3>1. driver = "clear" /\ AfterItemDone(item) /\ Idle \in ThreadStates
      BY <1>5 DEF ClearAndItemDone, ThreadStates
    <3>2. CASE responses[item.thread] = <<>>
      BY <3>1, <3>2, ItemDoneFacts
    <3>3. CASE responses[item.thread] # <<>>
      BY <3>1, <3>3, ItemDoneFacts
    <3> QED  BY <3>2, <3>3
  <2>2. /\ driver' \in {"get", "drive", "clear", "respond"}
        /\ woken' \subseteq {"driver", "monitor"}
    BY <1>5 DEF ClearAndItemDone, Waits
  <2> QED  BY <1>5, <2>1, <2>2 DEF ClearAndItemDone, RegFileTypeOK
<1>6. CASE Respond
  <2>1. ASSUME rsp.valid
        PROVE  /\ item \in Access /\ bus2reg(item, rsp) \in Data
               /\ PutResponse(item, bus2reg(item, rsp))
    BY <1>6, <2>1, NoneFacts, BusData DEF Respond, RegFileTypeOK, Pins
  <2>2. /\ thread' \in [Threads -> ThreadStates] /\ rdata' \in [Threads -> Data]
        /\ responses' \in [Threads -> Seq(Data)]
    <3>1. CASE rsp.valid
      BY <2>1, <3>1, PutTypes
    <3> QED  BY <1>6, <3>1 DEF Respond
  <2> QED  BY <1>6, <2>2 DEF Respond, Waits, regFileVars, RegFileTypeOK
<1>7. CASE CollectRequest
  BY <1>7, NoneFacts DEF CollectRequest, Waits, regFileVars, RegFileTypeOK
<1>8. CASE CollectResponse
  <2>1. ASSUME rsp.valid
        PROVE  /\ m_collected_item \in Access /\ last_req \in Access
               /\ bus2reg(m_collected_item, rsp) \in Data
    <3>1. m_collected_item \in Access /\ last_req \in Access
      BY <1>8 DEF CollectResponse, Collected, Requests, Sent
    <3>2. rsp \in Response
      BY <2>1, NoneFacts DEF RegFileTypeOK
    <3> QED  BY <3>1, <3>2, BusData
  <2>2. /\ thread' \in [Threads -> ThreadStates] /\ rdata' \in [Threads -> Data]
        /\ responses' \in [Threads -> Seq(Data)]
    <3>1. CASE rsp.valid /\ setup.handshake
      <4>1. PutResponse(last_req, bus2reg(m_collected_item, rsp))
        BY <1>8, <3>1 DEF CollectResponse, Handshake
      <4> QED  BY <2>1, <3>1, <4>1, PutTypes
    <3> QED  BY <1>8, <3>1 DEF CollectResponse, Handshake
  <2>3. mirror' \in [Regs -> Data]
    BY <1>8, <2>1, AccessFacts DEF CollectResponse, Predict
  <2> QED  BY <1>8, <2>2, <2>3 DEF CollectResponse, Waits, regFileVars, RegFileTypeOK
<1>9. CASE UNCHANGED vars
  BY <1>9 DEF vars, regFileVars, benchVars, RegFileTypeOK
<1> QED
  BY <1>1, <1>2, <1>3, <1>4, <1>5, <1>6, <1>7, <1>8, <1>9 DEF Next, Simulate

-----------------------------------------------------------------------------
(* The way of the requests.                                                *)

LEMMA Places ==
  Idle.at = "idle" /\ \A a \in Access : [at |-> "grant", access |-> a] # Idle
BY DEF Idle

\* A step that leaves requests alone, and at most ends the wait of a thread.
LEMMA RequestsFrame ==
  ASSUME TypeOK, Requests, UNCHANGED <<queue, last_req, item, issued>>,
         driver # "get" => item # None,
         driver \in {"drive", "clear"} <=> driver' \in {"drive", "clear"},
         \A t \in Threads : \/ thread'[t] = thread[t]
                            \/ thread[t].at = "response" /\ thread'[t] = Idle
  PROVE  Requests'
<1>1. Sent'
  BY DEF Requests, Sent
<1>2. Owned'
  BY DEF Requests, Owned
<1>3. Queued'
  <2>1. queue \in Seq(Access)
    BY DEF TypeOK
  <2>2. ASSUME NEW i \in DOMAIN queue
        PROVE  thread'[queue[i].thread] = [at |-> "grant", access |-> queue[i]]
    <3>1. queue[i] \in Access
      BY <2>1
    <3>2. queue[i].thread \in Threads
      BY <3>1, AccessFacts
    <3>3. thread[queue[i].thread] = [at |-> "grant", access |-> queue[i]]
      BY DEF Requests, Queued
    <3> QED  BY <3>2, <3>3 DEF Requests, Queued
  <2> QED  BY <2>2 DEF Requests, Queued
<1>4. Driven'
  <2>1. \A t \in Threads : thread'[t].at \in {"grant", "done"} => thread'[t] = thread[t]
    BY Places
  <2>2. ASSUME driver \in {"drive", "clear"}
        PROVE  thread'[item.thread] = thread[item.thread]
    <3>1. item.thread \in Threads
      BY <2>2, AccessFacts DEF TypeOK
    <3>2. thread[item.thread].at = "done"
      BY <2>2 DEF Requests, Driven
    <3> QED  BY <3>1, <3>2
  <2> QED  BY <2>1, <2>2 DEF Requests, Driven
<1> QED  BY <1>1, <1>2, <1>3, <1>4 DEF Requests

LEMMA RequestsStart ==
  ASSUME TypeOK, Pins, Requests,
         NEW t \in Threads, NEW r \in Regs, NEW rnw \in BOOLEAN, NEW d \in Data,
         Start(t, r, rnw, d)
  PROVE  Requests'
<1>1. PICK a \in Access : Began(t, a)
  BY StartFacts
<1>2. /\ thread[t] = Idle /\ issued' = [issued EXCEPT ![t] = @ + 1]
      /\ UNCHANGED <<last_req, item, driver>>
  BY DEF Start
<1>3. issued[t] \in Nat /\ a.thread = t /\ a.n = issued[t] + 1
  BY <1>1, RegAssumption DEF TypeOK, Began
<1>4. ASSUME item # None
      PROVE  item \in Access /\ item.thread \in Threads /\ item.n \in Nat
  <2>1. item \in Access
    BY <1>4 DEF TypeOK
  <2>2. item.n \in 1..MaxAccesses /\ item.thread \in Threads
    BY <2>1, AccessFacts
  <2> QED  BY <2>1, <2>2, RegAssumption
<1>5. \A u \in Threads : u # t => thread'[u] = thread[u] /\ issued'[u] = issued[u]
  BY <1>1, <1>2 DEF TypeOK, Began
<1>6. thread'[t] = [at |-> "grant", access |-> a] /\ issued'[t] = issued[t] + 1
  BY <1>1, <1>2 DEF TypeOK, Began
<1>7. Sent'
  <2>1. ASSUME item # None
        PROVE  item.n <= issued'[item.thread]
    <3>1. item.n <= issued[item.thread]
      BY <2>1 DEF Requests, Sent
    <3> QED  BY <2>1, <3>1, <1>3, <1>4, <1>5, <1>6
  <2> QED  BY <1>2, <2>1 DEF Requests, Sent
<1>8. Owned'
  BY <1>3, <1>5, <1>6 DEF Requests, Owned
<1>9. Queued'
  <2>1. queue \in Seq(Access)
    BY DEF TypeOK
  <2>2. ASSUME NEW i \in DOMAIN queue
        PROVE  queue[i].thread \in Threads \ {t}
    <3>1. queue[i] \in Access
      BY <2>1
    <3>2. queue[i].thread \in Threads
      BY <3>1, AccessFacts
    <3>3. thread[queue[i].thread] = [at |-> "grant", access |-> queue[i]]
      BY DEF Requests, Queued
    <3> QED  BY <1>2, <3>2, <3>3, Places
  <2>3. queue' = Append(queue, a)
    BY <1>1 DEF Began
  <2>4. /\ DOMAIN queue' = 1..Len(queue) + 1 /\ queue'[Len(queue) + 1] = a
        /\ DOMAIN queue = 1..Len(queue) /\ Len(queue) \in Nat
        /\ \A i \in DOMAIN queue : queue'[i] = queue[i]
    BY <2>1, <2>3
  <2>5. ASSUME NEW i \in DOMAIN queue'
        PROVE  thread'[queue'[i].thread] = [at |-> "grant", access |-> queue'[i]]
    <3>1. CASE i = Len(queue) + 1
      BY <1>3, <1>6, <2>4, <3>1
    <3>2. CASE i \in DOMAIN queue
      BY <1>5, <2>2, <2>4, <3>2 DEF Requests, Queued
    <3> QED  BY <2>4, <3>1, <3>2
  <2>6. ASSUME NEW i \in DOMAIN queue', NEW j \in DOMAIN queue',
               queue'[i].thread = queue'[j].thread
        PROVE  i = j
    BY <1>3, <2>2, <2>4, <2>6 DEF Requests, Queued
  <2> QED  BY <2>5, <2>6 DEF Queued
<1>10. Driven'
  <2>1. a # item
    <3>1. ASSUME a = item
          PROVE  FALSE
      <4>1. item # None
        BY <3>1, AccessFacts
      <4>2. item.n <= issued[item.thread]
        BY <4>1 DEF Requests, Sent
      <4> QED  BY <1>3, <3>1, <4>2
    <3> QED  BY <3>1
  <2>2. \A u \in Threads : thread'[u].at = "grant" => thread'[u].access # item
    BY <1>5, <1>6, <2>1 DEF Requests, Driven
  <2>3. \A u \in Threads : thread'[u].at = "done" =>
          driver \in {"drive", "clear"} /\ thread'[u].access = item
    BY <1>5, <1>6 DEF Requests, Driven
  <2>4. ASSUME driver \in {"drive", "clear"}
        PROVE  thread'[item.thread] = [at |-> "done", access |-> item]
    <3>1. item.thread \in Threads
      BY <1>4, <2>4 DEF Pins
    <3>2. thread[item.thread] = [at |-> "done", access |-> item]
      BY <2>4 DEF Requests, Driven
    <3>3. item.thread # t
      BY <1>2, <3>2, Places
    <3> QED  BY <1>5, <3>1, <3>2, <3>3
  <2> QED  BY <1>2, <2>2, <2>3, <2>4 DEF Driven
<1> QED
  BY <1>7, <1>8, <1>9, <1>10 DEF Requests

LEMMA RequestsGrant ==
  ASSUME TypeOK, Requests, Grant
  PROVE  Requests'
<1> DEFINE a == Head(queue)
<1>1. /\ a \in Access /\ a = queue[1]
      /\ thread[a.thread] = [at |-> "grant", access |-> a]
      /\ thread' = [thread EXCEPT ![a.thread] = [at |-> "done", access |-> a]]
  BY GrantFacts
<1>2. /\ item' = a /\ last_req' = a /\ driver = "get" /\ driver' = "drive"
      /\ queue' = Tail(queue) /\ UNCHANGED issued
      /\ queue \in Seq(Access) /\ queue # <<>>
  BY DEF Grant, CanGrant, TypeOK
<1>3. /\ \A i \in DOMAIN queue' : i \in Nat \ {0} /\ i + 1 \in DOMAIN queue /\ queue'[i] = queue[i + 1]
      /\ 1 \in DOMAIN queue
  BY <1>2, QueueFacts
<1> HIDE DEF a
<1>4. a.thread \in Threads
  BY <1>1, AccessFacts
<1>5. /\ thread'[a.thread] = [at |-> "done", access |-> a]
      /\ \A u \in Threads : u # a.thread => thread'[u] = thread[u]
  BY <1>1, <1>4 DEF TypeOK
<1>6. thread[a.thread] # Idle
  BY <1>1, Places
<1>7. Sent'
  BY <1>1, <1>2, <1>4, <1>6 DEF Requests, Sent, Owned
<1>8. Owned'
  BY <1>1, <1>2, <1>4, <1>5, <1>6 DEF Requests, Owned
<1>9. Queued'
  <2>1. ASSUME NEW i \in DOMAIN queue'
        PROVE  queue'[i].thread \in Threads \ {a.thread}
    <3>1. queue[i + 1] \in Access
      BY <1>2, <1>3
    <3>2. i + 1 # 1 /\ i + 1 \in DOMAIN queue
      BY <1>3
    <3>3. queue[i + 1].thread # queue[1].thread
      BY <1>3, <3>2 DEF Requests, Queued
    <3> QED  BY <1>1, <1>3, <3>1, <3>3, AccessFacts
  <2>2. ASSUME NEW i \in DOMAIN queue'
        PROVE  thread'[queue'[i].thread] = [at |-> "grant", access |-> queue'[i]]
    <3>1. thread[queue'[i].thread] = [at |-> "grant", access |-> queue'[i]]
      BY <1>3 DEF Requests, Queued
    <3> QED  BY <1>5, <2>1, <3>1
  <2>3. ASSUME NEW i \in DOMAIN queue', NEW j \in DOMAIN queue',
               queue'[i].thread = queue'[j].thread
        PROVE  i = j
    <3>1. i + 1 = j + 1
      BY <1>3, <2>3 DEF Requests, Queued
    <3> QED  BY <1>3, <3>1
  <2> QED  BY <2>2, <2>3 DEF Queued
<1>10. Driven'
  <2>1. ASSUME NEW u \in Threads, thread'[u].at = "grant"
        PROVE  thread'[u].access # a
    <3>1. u # a.thread /\ thread'[u] = thread[u]
      BY <1>5, <2>1
    <3>2. thread[u] # Idle
      BY <2>1, <3>1, Places
    <3> QED  BY <3>1, <3>2 DEF Requests, Owned
  <2>2. ASSUME NEW u \in Threads, thread'[u].at = "done"
        PROVE  thread'[u].access = a
    BY <1>2, <1>5, <2>2 DEF Requests, Driven
  <2> QED  BY <1>2, <1>5, <2>1, <2>2 DEF Driven
<1> QED
  BY <1>7, <1>8, <1>9, <1>10 DEF Requests

LEMMA RequestsItemDone ==
  ASSUME TypeOK, Pins, Requests, ClearAndItemDone
  PROVE  Requests'
<1>1. /\ driver = "clear" /\ AfterItemDone(item) /\ driver' \in {"get", "respond"}
      /\ UNCHANGED <<queue, last_req, item, issued>>
  BY DEF ClearAndItemDone
<1>2. item \in Access /\ item.thread \in Threads
  BY <1>1, AccessFacts DEF TypeOK, Pins
<1>3. PICK s \in {[at |-> "response", access |-> item], Idle} :
        thread' = [thread EXCEPT ![item.thread] = s]
  BY <1>1, ItemDoneFacts
<1>4. /\ thread'[item.thread] = s
      /\ \A u \in Threads : u # item.thread => thread'[u] = thread[u]
  BY <1>2, <1>3 DEF TypeOK
<1>5. s.at \notin {"grant", "done"} /\ (s # Idle => s.access = item)
  BY <1>3, Places
<1>6. thread[item.thread] = [at |-> "done", access |-> item]
  BY <1>1 DEF Requests, Driven
<1>7. Sent'
  BY <1>1 DEF Requests, Sent
<1>8. Owned'
  <2>1. thread[item.thread] # Idle
    BY <1>6, Places
  <2>2. item.n <= issued[item.thread]
    BY <1>2, <1>6, <2>1 DEF Requests, Owned
  <2> QED  BY <1>1, <1>4, <1>5, <2>2 DEF Requests, Owned
<1>9. Queued'
  <2>1. queue \in Seq(Access)
    BY DEF TypeOK
  <2>2. ASSUME NEW i \in DOMAIN queue
        PROVE  thread'[queue[i].thread] = thread[queue[i].thread]
    <3>1. queue[i] \in Access
      BY <2>1
    <3>2. queue[i].thread \in Threads
      BY <3>1, AccessFacts
    <3>3. thread[queue[i].thread] = [at |-> "grant", access |-> queue[i]]
      BY DEF Requests, Queued
    <3>4. queue[i].thread # item.thread
      BY <1>6, <3>3
    <3> QED  BY <1>4, <3>2, <3>4
  <2> QED  BY <1>1, <2>2 DEF Requests, Queued
<1>10. Driven'
  <2>1. ASSUME NEW u \in Threads, thread'[u].at \in {"grant", "done"}
        PROVE  thread'[u].at = "grant" /\ thread'[u].access # item
    <3>1. u # item.thread /\ thread'[u] = thread[u]
      BY <1>4, <1>5, <2>1
    <3>2. thread[u] # Idle /\ thread[u].access.thread = u
      BY <2>1, <3>1, Places DEF Requests, Owned
    <3> QED  BY <2>1, <3>1, <3>2 DEF Requests, Driven
  <2>2. \A u \in Threads : thread'[u].at # "done"
    BY <2>1
  <2> QED  BY <1>1, <2>1, <2>2 DEF Driven
<1> QED
  BY <1>7, <1>8, <1>9, <1>10 DEF Requests

LEMMA RequestsStep ==
  ASSUME TypeOK, Pins, Requests, Collected, [Next]_vars
  PROVE  Requests'
<1>1. driver # "get" => item # None
  BY DEF Pins
<1>2. ASSUME NEW a \in Access, NEW d \in Data, PutResponse(a, d)
      PROVE  \A t \in Threads : \/ thread'[t] = thread[t]
                                \/ thread[t].at = "response" /\ thread'[t] = Idle
  <2>1. CASE /\ thread[a.thread] = [at |-> "response", access |-> a]
             /\ thread' = [thread EXCEPT ![a.thread] = Idle]
    <3>1. thread[a.thread].at = "response"
      BY <2>1
    <3> QED  BY <2>1, <3>1 DEF TypeOK
  <2>2. CASE UNCHANGED thread
    BY <2>2
  <2> QED  BY <1>2, <2>1, <2>2, PutFacts
<1>3. ASSUME rsp # None
      PROVE  /\ rsp.valid /\ rsp \in Response
             /\ driver # "get" => item \in Access /\ bus2reg(item, rsp) \in Data
             /\ monitor = "response" =>
                  last_req \in Access /\ bus2reg(m_collected_item, rsp) \in Data
  <2>1. rsp \in Response /\ rsp.valid
    BY <1>3, ResponseFacts DEF TypeOK, RegFileTypeOK
  <2>2. driver # "get" => item \in Access
    BY DEF TypeOK, Pins
  <2>3. monitor = "response" => last_req \in Access /\ m_collected_item \in Access
    BY DEF TypeOK, Collected, Requests, Sent
  <2> QED  BY <2>1, <2>2, <2>3, BusData
<1>4. ASSUME NEW t \in Threads, NEW r \in Regs, NEW rnw \in BOOLEAN, NEW d \in Data,
             Start(t, r, rnw, d)
      PROVE  Requests'
  BY <1>4, RequestsStart
<1>5. CASE Grant
  BY <1>5, RequestsGrant
<1>6. CASE Edge
  BY <1>1, <1>6, RequestsFrame DEF Edge
<1>7. CASE Drive
  BY <1>1, <1>7, RequestsFrame DEF Drive
<1>8. CASE ClearAndItemDone
  BY <1>8, RequestsItemDone
<1>9. CASE Respond
  <2>1. CASE rsp.valid
    BY <1>1, <1>2, <1>3, <1>9, <2>1, NoneFacts, RequestsFrame DEF Respond
  <2>2. CASE ~rsp.valid
    BY <1>1, <1>9, <2>2, RequestsFrame DEF Respond
  <2> QED  BY <2>1, <2>2
<1>10. CASE CollectRequest
  BY <1>1, <1>10, RequestsFrame DEF CollectRequest
<1>11. CASE CollectResponse
  <2>1. CASE rsp.valid /\ setup.handshake
    BY <1>1, <1>2, <1>3, <1>11, <2>1, NoneFacts, RequestsFrame DEF CollectResponse, Handshake
  <2>2. CASE ~(rsp.valid /\ setup.handshake)
    BY <1>1, <1>11, <2>2, RequestsFrame DEF CollectResponse, Handshake
  <2> QED  BY <2>1, <2>2
<1>12. CASE UNCHANGED vars
  BY <1>1, <1>12, RequestsFrame DEF vars, benchVars
<1> QED
  BY <1>4, <1>5, <1>6, <1>7, <1>8, <1>9, <1>10, <1>11, <1>12 DEF Next, Simulate

-----------------------------------------------------------------------------
(* The monitor and the predictor.                                          *)

\* What the register file takes at an edge.
LEMMA EdgeFacts ==
  ASSUME TypeOK, Pins, Edge
  PROVE  /\ Accepts <=> driver = "clear"
         /\ Answering' <=> Accepts
         /\ Accepts => ~Answering /\ req_next \in Access /\ req_next = item
         /\ req' = req_next /\ rsp' = rsp_next
         /\ woken = {} /\ "monitor" \in woken'
<1>1. Accepts <=> driver = "clear"
  BY AccessFacts, NoneFacts DEF TypeOK, RegFileTypeOK, Edge, Accepts, Pins, Answering
<1>2. Accepts => req_next \in Access
  BY NoneFacts DEF TypeOK, RegFileTypeOK, Accepts
<1>3. Accepts => ~Answering /\ req_next = item
  BY <1>1 DEF Pins, Accepts, Answering
<1>4. Answering' <=> Accepts
  BY DEF Edge, RegFileEdge, Answering
<1> QED  BY <1>1, <1>2, <1>3, <1>4 DEF Edge, RegFileEdge

LEMMA CollectedStep ==
  ASSUME TypeOK, Pins, Requests, Collected, [Next]_vars
  PROVE  Collected'
<1>1. ASSUME NEW t \in Threads, NEW r \in Regs, NEW rnw \in BOOLEAN, NEW d \in Data,
             Start(t, r, rnw, d)
      PROVE  Collected'
  BY <1>1 DEF Start, regFileVars, Collected, Answering
<1>2. CASE Grant
  <2>1. item' # None
    BY <1>2, GrantFacts, AccessFacts DEF Grant
  <2> QED  BY <1>2, <2>1 DEF Grant, CanGrant, regFileVars, Collected, Answering
<1>3. CASE Edge
  <2>1. UNCHANGED <<item, monitor, m_collected_item>>
    BY <1>3 DEF Edge
  <2>2. CASE Accepts
    <3>1. item # None /\ monitor # "response"
      BY <1>3, <2>2, EdgeFacts, AccessFacts DEF Collected
    <3> QED  BY <1>3, <2>1, <2>2, <3>1, EdgeFacts DEF Collected
  <2>3. CASE ~Accepts
    <3>1. monitor = "response" => Answering
      BY <1>3, EdgeFacts DEF Collected
    <3>2. Answering => rsp' # None
      BY <1>3, EdgeFacts DEF Pins
    <3> QED  BY <1>3, <2>1, <2>3, <3>1, <3>2, EdgeFacts DEF Collected
  <2> QED  BY <2>2, <2>3
<1>4. CASE Drive
  BY <1>4 DEF Drive, Waits, Collected, Answering
<1>5. CASE ClearAndItemDone
  BY <1>5 DEF ClearAndItemDone, Waits, Collected, Answering
<1>6. CASE Respond
  BY <1>6 DEF Respond, Waits, regFileVars, Collected, Answering
<1>7. CASE CollectRequest
  <2>1. req.valid <=> Answering
    BY AccessFacts, NoneFacts DEF TypeOK, RegFileTypeOK, Pins
  <2>2. CASE req.valid
    BY <1>7, <2>1, <2>2, NoneFacts DEF CollectRequest, regFileVars, Collected, Answering, Pins
  <2>3. CASE ~req.valid
    BY <1>7, <2>1, <2>3 DEF CollectRequest, Waits, regFileVars, Collected, Answering
  <2> QED  BY <2>2, <2>3
<1>8. CASE CollectResponse
  <2>1. rsp.valid => ~Answering
    BY NoneFacts DEF Pins
  <2>2. ~rsp.valid => rsp = None
    BY ResponseFacts DEF TypeOK, RegFileTypeOK
  <2>3. CASE rsp.valid
    BY <1>8, <2>1, <2>3 DEF CollectResponse, regFileVars, Collected, Answering
  <2>4. CASE ~rsp.valid
    BY <1>8, <2>2, <2>4 DEF CollectResponse, Waits, regFileVars, Collected, Answering
  <2> QED  BY <2>3, <2>4
<1>9. CASE UNCHANGED vars
  BY <1>9 DEF vars, regFileVars, benchVars, Collected, Answering
<1> QED
  BY <1>1, <1>2, <1>3, <1>4, <1>5, <1>6, <1>7, <1>8, <1>9 DEF Next, Simulate

LEMMA PredictedEdge ==
  ASSUME TypeOK, Pins, Collected, Predicted, Edge
  PROVE  Predicted'
<1>1. UNCHANGED <<item, monitor, m_collected_item, mirror>>
  BY DEF Edge
<1>2. CASE Accepts
  <2>1. req_next \in Access /\ req' = req_next /\ Answering' /\ ~Answering
    BY <1>2, EdgeFacts
  <2>2. req_next.reg \in Regs /\ req_next.rnw \in BOOLEAN
    BY <2>1, AccessFacts
  <2>3. /\ regs' = [regs EXCEPT ![req_next.reg] = Effect(req_next)]
        /\ rsp_next' = [valid |-> TRUE, data |-> IF req_next.rnw THEN Effect(req_next) ELSE 0]
    BY <1>2 DEF Edge, RegFileEdge
  <2>4. regs'[req_next.reg] = Effect(req_next)
    BY <2>2, <2>3 DEF TypeOK, RegFileTypeOK
  <2>5. bus2reg(req_next, rsp_next') = Effect(req_next)
    BY <2>3 DEF bus2reg, Effect
  <2>6. \A r \in Regs : mirror[r] = regs[r]
    BY <2>1, EdgeFacts DEF Predicted, Collected
  <2>7. \A r \in Regs : r # req_next.reg => regs'[r] = regs[r]
    BY <2>3 DEF TypeOK, RegFileTypeOK
  <2>8. (Answering => bus2reg(req, rsp_next) = regs[req.reg])'
    BY <2>1, <2>4, <2>5 DEF bus2reg
  <2> QED  BY <1>1, <2>1, <2>6, <2>7, <2>8 DEF Predicted
<1>3. CASE ~Accepts
  <2>1. ~Answering' /\ regs' = regs /\ rsp' = rsp_next
    BY <1>3, EdgeFacts DEF Edge, RegFileEdge
  <2>2. CASE Answering
    <3>1. monitor = "response" /\ m_collected_item = req
      BY <2>2, EdgeFacts DEF Collected, TypeOK
    <3> QED  BY <1>1, <2>1, <2>2, <3>1 DEF Predicted, bus2reg
  <2>3. CASE ~Answering
    <3>1. monitor # "response"
      BY <2>3, EdgeFacts DEF Collected
    <3> QED  BY <1>1, <2>1, <2>3, <3>1 DEF Predicted, bus2reg
  <2> QED  BY <2>2, <2>3
<1> QED  BY <1>2, <1>3

LEMMA PredictedStep ==
  ASSUME TypeOK, Pins, Requests, Collected, Predicted, [Next]_vars
  PROVE  Predicted'
<1>1. ASSUME NEW t \in Threads, NEW r \in Regs, NEW rnw \in BOOLEAN, NEW d \in Data,
             Start(t, r, rnw, d)
      PROVE  Predicted'
  BY <1>1 DEF Start, regFileVars, Predicted, Answering, bus2reg
<1>2. CASE Grant
  BY <1>2 DEF Grant, regFileVars, Predicted, Answering, bus2reg
<1>3. CASE Edge
  BY <1>3, PredictedEdge
<1>4. CASE Drive
  BY <1>4 DEF Drive, Predicted, Answering, bus2reg
<1>5. CASE ClearAndItemDone
  BY <1>5 DEF ClearAndItemDone, Predicted, Answering, bus2reg
<1>6. CASE Respond
  BY <1>6 DEF Respond, regFileVars, Predicted, Answering, bus2reg
<1>7. CASE CollectRequest
  <2>1. req.valid => Answering
    BY NoneFacts DEF Pins
  <2>2. CASE req.valid
    BY <1>7, <2>1, <2>2 DEF CollectRequest, regFileVars, Predicted, Answering, bus2reg
  <2>3. CASE ~req.valid
    BY <1>7, <2>3 DEF CollectRequest, regFileVars, Predicted, Answering, bus2reg
  <2> QED  BY <2>2, <2>3
<1>8. CASE CollectResponse
  <2>1. rsp.valid => ~Answering
    BY NoneFacts DEF Pins
  <2>2. CASE rsp.valid
    <3>1. /\ mirror' = [mirror EXCEPT ![m_collected_item.reg] = regs[m_collected_item.reg]]
          /\ monitor = "response" /\ monitor' = "request"
      BY <1>8, <2>1, <2>2 DEF CollectResponse, Predict, Predicted
    <3> QED  BY <1>8, <2>1, <2>2, <3>1 DEF CollectResponse, regFileVars, Predicted, Answering, TypeOK
  <2>3. CASE ~rsp.valid
    BY <1>8, <2>3 DEF CollectResponse, regFileVars, Predicted, Answering, bus2reg
  <2> QED  BY <2>2, <2>3
<1>9. CASE UNCHANGED vars
  BY <1>9 DEF vars, regFileVars, benchVars, Predicted, Answering, bus2reg
<1> QED
  BY <1>1, <1>2, <1>3, <1>4, <1>5, <1>6, <1>7, <1>8, <1>9 DEF Next, Simulate

-----------------------------------------------------------------------------
(* Types, and no request lost, for every test.                             *)

LEMMA InitBench ==
  ASSUME Init
  PROVE  BenchInv
<1> USE DEF Init, RegFileInit
<1>1. TypeOK
  <2>1. Idle \in ThreadStates /\ <<>> \in Seq(Data) /\ <<>> \in Seq(Access)
    BY DEF ThreadStates
  <2> QED  BY <2>1, RegAssumption DEF TypeOK, RegFileTypeOK
<1>2. Pins
  BY DEF Pins, Answering
<1>3. Requests
  BY Places DEF Requests, Sent, Owned, Queued, Driven
<1>4. Collected /\ Predicted
  BY DEF Collected, Predicted, Answering
<1> QED  BY <1>1, <1>2, <1>3, <1>4 DEF BenchInv

LEMMA BenchStep ==
  ASSUME BenchInv, [Next]_vars
  PROVE  BenchInv'
BY PinsStep, TypeStep, RequestsStep, CollectedStep, PredictedStep DEF BenchInv

\* The invariant holds in every run of the bench.
THEOREM BenchInvariant == Spec => []BenchInv
BY InitBench, BenchStep, PTL DEF Spec

\* Types: of the pins, of the agent's and the threads' variables.
THEOREM BenchTypeCorrect == Spec => []TypeOK
BY BenchInvariant, PTL DEF BenchInv

\* Whatever the test's plusargs, threads and accesses: when the processes of an
\* edge have run and a request is on the pins, the register file is in GET_REQ
\* and will take it (amiq_simple_reg_file.sv looks at no request in SEND_RESP).
THEOREM RequestsTaken == Spec => []NoRequestLost
<1>1. BenchInv => NoRequestLost
  BY NoneFacts DEF BenchInv, TypeOK, RegFileTypeOK, Pins, Answering, NoRequestLost
<1> QED  BY <1>1, BenchInvariant, PTL

-----------------------------------------------------------------------------
(* Each access gets its own response.                                      *)

\* Unless the driver drives a request, its access waits or is over.
LEMMA AnswerFacts ==
  ASSUME TypeOK, Requests, driver \notin {"drive", "clear"},
         NEW a \in Access, NEW d \in Data, PutResponse(a, d)
  PROVE  /\ UNCHANGED responses
         /\ \/ /\ thread[a.thread] = [at |-> "response", access |-> a]
               /\ thread' = [thread EXCEPT ![a.thread] = Idle]
               /\ thread'[a.thread] = Idle
               /\ rdata' = [rdata EXCEPT ![a.thread] = d]
            \/ UNCHANGED <<thread, rdata>>
<1>1. a.thread \in Threads
  BY AccessFacts
<1>2. thread[a.thread].at # "done"
  BY <1>1 DEF Requests, Driven
<1>3. thread' = [thread EXCEPT ![a.thread] = Idle] => thread'[a.thread] = Idle
  BY <1>1 DEF TypeOK
<1> QED  BY <1>2, <1>3, PutFacts

\* The thread of a request that is answered still waits for its access.
LEMMA AnsweringFacts ==
  ASSUME TypeOK, Pins, Effective, Answering
  PROVE  /\ req \in Access /\ req.thread \in Threads /\ rsp = None
         /\ thread[req.thread] # Idle /\ thread[req.thread].at # "grant"
<1>1. req \in Access
  BY DEF TypeOK, RegFileTypeOK, Pins
<1>2. req.thread \in Threads
  BY <1>1, AccessFacts
<1> QED  BY <1>1, <1>2, Places DEF Effective, Pins

LEMMA AnswersStart ==
  ASSUME BenchInv, Answers,
         NEW t \in Threads, NEW r \in Regs, NEW rnw \in BOOLEAN, NEW d \in Data,
         Start(t, r, rnw, d)
  PROVE  Answers'
<1> USE DEF BenchInv, Answers
<1>1. PICK a \in Access : Began(t, a)
  <2> HIDE DEF Answers
  <2> QED  BY StartFacts
<1>2. /\ t \in setup.threads /\ thread[t] = Idle
      /\ responses' = [responses EXCEPT ![t] = <<>>]
      /\ UNCHANGED <<regFileVars, setup, woken, driver, item, monitor, m_collected_item, effect>>
  BY DEF Start
<1>3. /\ thread'[t] = [at |-> "grant", access |-> a]
      /\ \A u \in Threads : u # t => thread'[u] = thread[u]
  BY <1>1 DEF TypeOK, Began
<1>4. TestThreads'
  BY <1>2, <1>3 DEF TestThreads, Served
<1>5. InTime'
  BY <1>2 DEF InTime, Answering, regFileVars, TypeOK
<1>6. Effective'
  <2>1. ASSUME Answering
        PROVE  req.thread \in Threads \ {t}
    BY <1>2, <2>1, AnsweringFacts
  <2> QED  BY <1>2, <1>3, <2>1 DEF Effective, Answering, regFileVars
<1>7. Current'
  BY <1>2 DEF Current, Responds, Answering, regFileVars
<1>8. OwnResponse'
  <2>1. ASSUME item # None
        PROVE  thread'[item.thread] = thread[item.thread] \/ thread'[item.thread].at = "grant"
    <3>1. item.thread \in Threads
      BY <2>1, AccessFacts DEF TypeOK
    <3> QED  BY <1>3, <3>1
  <2>2. [at |-> "response", access |-> item].at # "grant"
    OBVIOUS
  <2> QED  BY <1>2, <2>1, <2>2 DEF OwnResponse, Responds, Answering, regFileVars, bus2reg
<1> QED  BY <1>4, <1>5, <1>6, <1>7, <1>8

LEMMA AnswersGrant ==
  ASSUME BenchInv, Answers, Grant
  PROVE  Answers'
<1> USE DEF BenchInv, Answers
<1> DEFINE a == Head(queue)
<1>1. /\ a \in Access /\ thread[a.thread] = [at |-> "grant", access |-> a]
      /\ thread' = [thread EXCEPT ![a.thread] = [at |-> "done", access |-> a]]
  <2> HIDE DEF Answers
  <2> QED  BY GrantFacts
<1> HIDE DEF a
<1>2. a.thread \in Threads
  BY <1>1, AccessFacts
<1>3. /\ driver = "get" /\ driver' = "drive" /\ woken = {}
      /\ UNCHANGED <<regFileVars, setup, woken, responses, monitor, m_collected_item, effect>>
  BY DEF Grant, CanGrant
<1>4. /\ thread[a.thread].at = "grant" /\ thread[a.thread] # Idle
      /\ \A u \in Threads : u # a.thread => thread'[u] = thread[u]
  BY <1>1, <1>2, Places DEF TypeOK
<1>5. ASSUME Answering
      PROVE  ~Responds
  <2>1. ASSUME Responds
        PROVE  FALSE
    <3>1. ~setup.send_response /\ setup.handshake
      BY <1>3, <1>5, <2>1 DEF Current, Responds
    <3>2. PICK u \in Threads : setup.threads \subseteq {u}
      BY <3>1 DEF TestThreads, Served
    <3>3. a.thread = u
      BY <1>2, <1>4, <3>2 DEF TestThreads
    <3>4. req.thread = u
      BY <1>5, <3>2, AnsweringFacts DEF TestThreads
    <3> QED  BY <1>4, <1>5, <3>3, <3>4, AnsweringFacts
  <2> QED  BY <2>1
<1>6. TestThreads'
  BY <1>3, <1>4 DEF TestThreads, Served
<1>7. InTime'
  BY <1>3 DEF InTime
<1>8. Effective'
  <2>1. ASSUME Answering
        PROVE  req.thread \in Threads \ {a.thread}
    BY <1>4, <2>1, AnsweringFacts
  <2> QED  BY <1>3, <1>4, <2>1 DEF Effective, Answering, regFileVars
<1>9. Current'
  BY <1>3, <1>5 DEF Current, Responds, Answering, regFileVars
<1>10. OwnResponse'
  BY <1>3 DEF OwnResponse
<1> QED  BY <1>6, <1>7, <1>8, <1>9, <1>10

LEMMA AnswersEdge ==
  ASSUME BenchInv, Answers, Edge
  PROVE  Answers'
<1> USE DEF BenchInv, Answers
<1>1. /\ woken = {} /\ UNCHANGED <<setup, thread, responses, driver, item, monitor, m_collected_item>>
      /\ driver # "get" => "driver" \in woken'
  BY DEF Edge
<1>2. TestThreads'
  BY <1>1 DEF TestThreads, Served
<1>3. CASE Accepts
  <2>1. /\ driver = "clear" /\ Answering' /\ ~Answering /\ req' = item
        /\ req_next = item /\ item \in Access
    BY <1>3, EdgeFacts
  <2>2. item.thread \in Threads /\ item.reg \in Regs
    BY <2>1, AccessFacts
  <2>3. effect'[item.thread] = Effect(item) /\ regs'[item.reg] = Effect(item)
    <3>1. /\ effect' = [effect EXCEPT ![req_next.thread] = Effect(req_next)]
          /\ regs' = [regs EXCEPT ![req_next.reg] = Effect(req_next)]
      BY <1>3 DEF Edge, RegFileEdge
    <3> QED  BY <2>1, <2>2, <3>1 DEF TypeOK, RegFileTypeOK
  <2>4. thread[item.thread] = [at |-> "done", access |-> item]
    BY <2>1 DEF Requests, Driven
  <2>5. Effective'
    BY <1>1, <2>1, <2>3, <2>4 DEF Effective
  <2>6. InTime' /\ Current' /\ OwnResponse'
    BY <1>1, <2>1 DEF InTime, Current, OwnResponse
  <2> QED  BY <1>2, <2>5, <2>6
<1>4. CASE ~Accepts
  <2>1. ~Answering' /\ rsp' = rsp_next /\ effect' = effect
    BY <1>4, EdgeFacts DEF Edge
  <2>2. InTime'
    BY <1>1, <2>1 DEF InTime, Pins
  <2>3. Effective' /\ Current'
    BY <2>1 DEF Effective, Current
  <2>4. OwnResponse'
    <3>1. ASSUME Responds, rsp_next # None
          PROVE  /\ Answering /\ req = item /\ driver \in {"get", "respond"} /\ item # None
                 /\ monitor = "response" => m_collected_item = item
                 /\ effect[item.thread] = regs[item.reg]
                 /\ bus2reg(item, rsp_next) = regs[item.reg]
      <4>1. Answering
        BY <3>1 DEF Pins
      <4>2. req = item /\ driver # "drive"
        BY <3>1, <4>1 DEF Current
      <4>3. driver # "clear"
        BY <1>1, <4>1 DEF Pins
      <4>4. driver \in {"get", "respond"}
        BY <4>2, <4>3 DEF TypeOK
      <4> QED
        BY <4>1, <4>2, <4>4 DEF Collected, Effective, Predicted
    <3>2. Responds' => Responds
      BY <1>1 DEF Responds
    <3>3. bus2reg(item, rsp_next) = bus2reg(item, rsp)'
      BY <1>1, <2>1 DEF bus2reg
    <3> QED  BY <1>1, <2>1, <3>1, <3>2, <3>3 DEF OwnResponse
  <2> QED  BY <1>2, <2>2, <2>3, <2>4
<1> QED  BY <1>3, <1>4

LEMMA AnswersItemDone ==
  ASSUME BenchInv, Answers, ClearAndItemDone
  PROVE  Answers'
<1> USE DEF BenchInv, Answers
<1>1. /\ "driver" \in woken /\ driver = "clear" /\ AfterItemDone(item)
      /\ driver' = IF setup.send_response THEN "respond" ELSE "get"
      /\ UNCHANGED <<regs, int_state, req, rsp, setup, responses, item, effect>>
  BY DEF ClearAndItemDone
<1>2. Answering /\ Answering' /\ item \in Access /\ item.thread \in Threads
  BY <1>1, AccessFacts DEF TypeOK, Pins, Answering
<1>3. thread' = [thread EXCEPT ![item.thread] = [at |-> "response", access |-> item]]
  <2>1. responses[item.thread] = <<>>
    BY <1>2 DEF InTime
  <2> HIDE DEF Answers
  <2> QED  BY <1>1, <2>1, ItemDoneFacts
<1>4. /\ thread'[item.thread] = [at |-> "response", access |-> item]
      /\ \A u \in Threads : u # item.thread => thread'[u] = thread[u]
  BY <1>2, <1>3 DEF TypeOK
<1>5. thread[item.thread] = [at |-> "done", access |-> item]
  BY <1>1 DEF Requests, Driven
<1>6. thread[item.thread] # Idle
  BY <1>5, Places
<1>7. TestThreads'
  BY <1>1, <1>2, <1>4, <1>6 DEF TestThreads, Served
<1>8. InTime' /\ OwnResponse'
  BY <1>1, <1>2 DEF InTime, OwnResponse
<1>9. Effective'
  <2>1. thread[item.thread].access = item
    BY <1>5
  <2>2. thread'[item.thread].at = "response" /\ thread'[item.thread].access = item
    BY <1>4
  <2>3. /\ req.thread \in Threads /\ thread[req.thread].at \in {"done", "response"}
        /\ thread[req.thread].access = req /\ effect[req.thread] = regs[req.reg]
    BY <1>2, AnsweringFacts DEF Effective
  <2>4. thread'[req.thread].at \in {"done", "response"} /\ thread'[req.thread].access = req
    BY <1>4, <2>1, <2>2, <2>3
  <2> QED  BY <1>1, <2>3, <2>4 DEF Effective
<1>10. Current'
  BY <1>1, <1>2 DEF Current, Responds
<1> QED  BY <1>7, <1>8, <1>9, <1>10

LEMMA AnswersRespond ==
  ASSUME BenchInv, Answers, Respond
  PROVE  Answers'
<1> USE DEF BenchInv, Answers
<1>1. /\ "driver" \in woken /\ driver = "respond" /\ woken' = woken \ {"driver"}
      /\ UNCHANGED <<regFileVars, setup, item, monitor, m_collected_item, effect>>
  BY DEF Respond, Waits
<1>2. CASE rsp.valid
  <2>1. ~Answering /\ ~Answering' /\ rsp # None /\ rsp \in Response /\ item \in Access
    BY <1>1, <1>2, NoneFacts DEF Pins, TypeOK, RegFileTypeOK, Answering, regFileVars
  <2>2. driver' = "get" /\ PutResponse(item, bus2reg(item, rsp))
    BY <1>2 DEF Respond
  <2>3. /\ UNCHANGED responses /\ item.thread \in Threads
        /\ \/ thread' = [thread EXCEPT ![item.thread] = Idle] /\ thread'[item.thread] = Idle
           \/ UNCHANGED thread
    <3> HIDE DEF Answers
    <3> QED  BY <1>1, <2>1, <2>2, AnswerFacts, AccessFacts, BusData
  <2>4. TestThreads'
    BY <1>1, <2>3 DEF TestThreads, Served, TypeOK
  <2>5. InTime' /\ Effective' /\ Current'
    BY <2>1, <2>2, <2>3 DEF InTime, Effective, Current
  <2>6. OwnResponse'
    <3>1. Responds
      BY <1>1 DEF InTime, Responds
    <3>2. [at |-> "response", access |-> item] # Idle
      BY DEF Idle
    <3>3. thread'[item.thread] = Idle \/ thread'[item.thread] = thread[item.thread]
      BY <2>3
    <3> QED  BY <1>1, <2>1, <2>2, <3>1, <3>2, <3>3 DEF OwnResponse, regFileVars, bus2reg
  <2> QED  BY <2>4, <2>5, <2>6
<1>3. CASE ~rsp.valid
  <2>1. rsp = None /\ UNCHANGED <<thread, responses, driver>>
    BY <1>3, ResponseFacts DEF Respond, TypeOK, RegFileTypeOK
  <2>2. TestThreads' /\ InTime' /\ Effective' /\ Current' /\ OwnResponse'
    BY <1>1, <2>1 DEF TestThreads, Served, InTime, Effective, Current, OwnResponse, Responds,
                      Answering, regFileVars
  <2> QED  BY <2>2
<1> QED  BY <1>2, <1>3

LEMMA AnswersCollected ==
  ASSUME BenchInv, Answers, CollectResponse
  PROVE  Answers'
<1> USE DEF BenchInv, Answers
<1>1. /\ "monitor" \in woken /\ monitor = "response"
      /\ UNCHANGED <<regFileVars, setup, driver, item, m_collected_item, effect>>
  BY DEF CollectResponse
<1>2. CASE rsp.valid
  <2>1. ~Answering /\ ~Answering' /\ rsp # None /\ rsp \in Response
    BY <1>1, <1>2, NoneFacts DEF Pins, TypeOK, RegFileTypeOK, Answering, regFileVars
  <2>2. monitor' = "request" /\ UNCHANGED woken /\ Handshake
    BY <1>2 DEF CollectResponse
  <2>3. /\ UNCHANGED responses
        /\ item # None =>
             \/ thread' = [thread EXCEPT ![item.thread] = Idle] /\ thread'[item.thread] = Idle
             \/ UNCHANGED thread
        /\ item = None => UNCHANGED thread
    <3>1. CASE setup.handshake
      <4>1. driver \in {"get", "respond"} /\ item \in Access
        BY <1>1, <2>1, <3>1 DEF OwnResponse, Responds, TypeOK
      <4>2. last_req = item /\ m_collected_item \in Access
        BY <1>1 DEF Requests, Sent, Collected, TypeOK
      <4>3. PutResponse(item, bus2reg(m_collected_item, rsp))
        BY <2>2, <3>1, <4>2 DEF Handshake
      <4> HIDE DEF Answers
      <4> QED  BY <2>1, <4>1, <4>2, <4>3, AnswerFacts, AccessFacts, BusData
    <3>2. CASE ~setup.handshake
      BY <2>2, <3>2 DEF Handshake
    <3> QED  BY <3>1, <3>2
  <2>4. TestThreads'
    BY <1>1, <2>3 DEF TestThreads, Served, TypeOK
  <2>5. InTime' /\ Effective' /\ Current'
    BY <1>1, <2>1, <2>2, <2>3 DEF InTime, Effective, Current, Responds, regFileVars
  <2>6. OwnResponse'
    <3>1. [at |-> "response", access |-> item] # Idle
      BY DEF Idle
    <3>2. item # None =>
            thread'[item.thread] = Idle \/ thread'[item.thread] = thread[item.thread]
      BY <2>3
    <3> QED  BY <1>1, <2>1, <2>2, <3>1, <3>2 DEF OwnResponse, Responds, regFileVars, bus2reg
  <2> QED  BY <2>4, <2>5, <2>6
<1>3. CASE ~rsp.valid
  <2>1. rsp = None /\ UNCHANGED <<thread, responses>> /\ woken' = woken \ {"monitor"}
    BY <1>3, ResponseFacts DEF CollectResponse, Waits, TypeOK, RegFileTypeOK
  <2>2. TestThreads' /\ InTime' /\ Effective' /\ Current' /\ OwnResponse'
    BY <1>1, <2>1 DEF TestThreads, Served, InTime, Effective, Current, OwnResponse, Responds,
                      Answering, regFileVars
  <2> QED  BY <2>2
<1> QED  BY <1>2, <1>3

LEMMA AnswersStep ==
  ASSUME BenchInv, Answers, [Next]_vars
  PROVE  Answers'
<1>1. ASSUME NEW t \in Threads, NEW r \in Regs, NEW rnw \in BOOLEAN, NEW d \in Data,
             Start(t, r, rnw, d)
      PROVE  Answers'
  BY <1>1, AnswersStart
<1>2. CASE Drive
  <2>1. /\ ~Answering /\ ~Answering' /\ driver = "drive" /\ driver' = "clear" /\ woken # {}
        /\ UNCHANGED <<rsp, setup, thread, responses>>
    BY <1>2 DEF BenchInv, Pins, Drive, Answering
  <2>2. TestThreads' /\ InTime' /\ Effective' /\ Current' /\ OwnResponse'
    BY <2>1 DEF Answers, TestThreads, Served, InTime, Effective, Current, OwnResponse, Responds
  <2> QED  BY <2>2 DEF Answers
<1>3. CASE CollectRequest
  <2>1. /\ req.valid <=> Answering
        /\ UNCHANGED <<regFileVars, setup, thread, responses, driver, item, effect>>
    BY <1>3, AccessFacts, NoneFacts DEF CollectRequest, BenchInv, TypeOK, RegFileTypeOK, Pins
  <2>2. ~Answering => woken' = woken \ {"monitor"} /\ UNCHANGED <<monitor, m_collected_item>>
    BY <1>3, <2>1 DEF CollectRequest, Waits
  <2>3. Answering => UNCHANGED woken
    BY <1>3, <2>1 DEF CollectRequest
  <2>4. TestThreads' /\ InTime'
    BY <2>1, <2>2, <2>3 DEF Answers, TestThreads, Served, InTime, Answering, regFileVars
  <2>5. Effective' /\ Current' /\ OwnResponse'
    BY <2>1, <2>2 DEF Answers, Effective, Current, OwnResponse, Responds,
                      Answering, regFileVars, bus2reg
  <2> QED  BY <2>4, <2>5 DEF Answers
<1>4. CASE UNCHANGED vars
  BY <1>4 DEF vars, regFileVars, benchVars, Answers, TestThreads, Served, InTime, Effective,
              Current, OwnResponse, Responds, Answering, bus2reg
<1> QED
  BY <1>1, <1>2, <1>3, <1>4, AnswersGrant, AnswersEdge, AnswersItemDone, AnswersRespond,
     AnswersCollected DEF Next, Simulate

THEOREM AnswersInvariant ==
  ASSUME \A s \in Setups : Served(s)
  PROVE  Spec => []IInv
<1>1. Init => Answers
  BY DEF Init, RegFileInit, Answers, TestThreads, InTime, Effective, Current, OwnResponse,
         Answering
<1> QED  BY <1>1, InitBench, BenchStep, AnswersStep, PTL DEF Spec, IInv

\* Where each access gets its own response, or none: when the processes of an
\* edge have run, the mirrored value of a register that no thread accesses is
\* the register's value, as the monitor and the predictor are to keep it.
THEOREM MirrorCorrect ==
  ASSUME \A s \in Setups : Served(s)
  PROVE  Spec => []MirrorExact
<1>1. IInv => MirrorExact
  <2> SUFFICES ASSUME IInv, woken = {}, NEW r \in Regs, ~InUse(r)
               PROVE  mirror[r] = regs[r]
    BY DEF MirrorExact
  <2> USE DEF IInv, BenchInv, Answers
  <2>1. ~(Answering /\ r = req.reg)
    BY AnsweringFacts DEF InUse, Effective
  <2>2. Answering \/ monitor # "response"
    BY DEF Collected
  <2> QED  BY <2>1, <2>2 DEF Predicted
<1> QED  BY <1>1, AnswersInvariant, PTL

-----------------------------------------------------------------------------
(* The bench implements atomic registers.                                  *)

\* What an access of thread t looks like in the abstract specification.
Shown(t) ==
  IF thread[t] = Idle THEN [at |-> "idle"]
  ELSE [at |-> IF InEffect(t) THEN "done" ELSE "called",
        reg |-> thread[t].access.reg,
        rnw |-> thread[t].access.rnw,
        data |-> thread[t].access.data]

LEMMA ShownStutter ==
  ASSUME UNCHANGED <<regs, effect, rdata>>, \A t \in Threads : Shown(t)' = Shown(t)
  PROVE  UNCHANGED Registers!registerVars
BY DEF Registers!registerVars, Shown

LEMMA ShownExcept ==
  ASSUME NEW t \in Threads, NEW v, Shown(t)' = v,
         \A u \in Threads : u # t => Shown(u)' = Shown(u)
  PROVE  [u \in Threads |-> Shown(u)]' = [[u \in Threads |-> Shown(u)] EXCEPT ![t] = v]
OBVIOUS

LEMMA ShownCall ==
  ASSUME NEW t \in Threads, NEW a \in Access, Shown(t) = [at |-> "idle"],
         Shown(t)' = [at |-> "called", reg |-> a.reg, rnw |-> a.rnw, data |-> a.data],
         \A u \in Threads : u # t => Shown(u)' = Shown(u),
         UNCHANGED <<regs, effect, rdata>>
  PROVE  Registers!RegistersNext
<1> DEFINE v == [at |-> "called", reg |-> a.reg, rnw |-> a.rnw, data |-> a.data]
<1>1. a.reg \in Regs /\ a.rnw \in BOOLEAN /\ a.data \in Data
  BY AccessFacts
<1>2. v \in Registers!Accesses /\ v.at = "called"
  BY <1>1 DEF Registers!Accesses
<1>3. Shown(t)' = v
  OBVIOUS
<1> HIDE DEF v
<1>4. [u \in Threads |-> Shown(u)]' = [[u \in Threads |-> Shown(u)] EXCEPT ![t] = v]
  BY <1>3, ShownExcept
<1>5. [u \in Threads |-> Shown(u)][t] = [at |-> "idle"]
  OBVIOUS
<1>6. Registers!Call(t)
  BY <1>2, <1>4, <1>5 DEF Registers!Call, Registers!NoAccess, Shown
<1> QED  BY <1>6 DEF Registers!RegistersNext

LEMMA ShownEffect ==
  ASSUME NEW t \in Threads, Shown(t).at = "called", Shown(t)' = [Shown(t) EXCEPT !.at = "done"],
         \A u \in Threads : u # t => Shown(u)' = Shown(u),
         NEW d, d = IF Shown(t).rnw THEN regs[Shown(t).reg] ELSE Shown(t).data,
         regs' = [regs EXCEPT ![Shown(t).reg] = d],
         effect' = [effect EXCEPT ![t] = d], UNCHANGED rdata
  PROVE  Registers!RegistersNext
<1> DEFINE f == [u \in Threads |-> Shown(u)]
<1>1. f[t] = Shown(t)
  OBVIOUS
<1>2. f' = [f EXCEPT ![t].at = "done"]
  <2>1. f' = [f EXCEPT ![t] = [Shown(t) EXCEPT !.at = "done"]]
    BY ShownExcept
  <2> HIDE DEF f
  <2> QED  BY <1>1, <2>1
<1>3. Registers!TakesEffect(t)
  BY <1>1, <1>2 DEF Registers!TakesEffect, Shown
<1> QED  BY <1>3 DEF Registers!RegistersNext

LEMMA ShownReturn ==
  ASSUME NEW t \in Threads, Shown(t).at = "done", Shown(t)' = [at |-> "idle"],
         \A u \in Threads : u # t => Shown(u)' = Shown(u),
         rdata' = [rdata EXCEPT ![t] = effect[t]], UNCHANGED <<regs, effect>>
  PROVE  Registers!RegistersNext
<1>1. Registers!Return(t)
  BY DEF Registers!Return, Registers!NoAccess, Shown
<1> QED  BY <1>1 DEF Registers!RegistersNext

LEMMA ShownSame ==
  ASSUME NEW t \in Threads, thread'[t] = thread[t],
         thread[t] # Idle => (InEffect(t)' <=> InEffect(t))
  PROVE  Shown(t)' = Shown(t)
BY DEF Shown

LEMMA OwnFacts ==
  ASSUME TypeOK, Requests, NEW t \in Threads, thread[t] # Idle
  PROVE  /\ thread[t].access \in Access /\ thread[t].access # None
         /\ thread[t].access.thread = t
<1>1. thread[t].access \in Access
  BY ThreadFacts DEF TypeOK
<1> QED  BY <1>1, AccessFacts DEF Requests, Owned

\* A step that moves no request leaves all accesses as they are shown.
LEMMA ShownFrame ==
  ASSUME UNCHANGED <<regs, effect, rdata, thread, item, req, req_next>>,
         driver = "drive" <=> driver' = "drive"
  PROVE  UNCHANGED Registers!registerVars
<1>1. ASSUME NEW t \in Threads
      PROVE  Shown(t)' = Shown(t)
  BY ShownSame DEF InEffect
<1> QED  BY <1>1, ShownStutter

LEMMA StartShown ==
  ASSUME IInv, NEW t \in Threads, NEW r \in Regs, NEW rnw \in BOOLEAN, NEW d \in Data,
         Start(t, r, rnw, d)
  PROVE  Registers!RegistersNext
<1> USE DEF IInv, BenchInv
<1>1. PICK a \in Access : Began(t, a)
  BY StartFacts
<1>2. /\ thread[t] = Idle /\ UNCHANGED <<regs, effect, rdata, req, req_next, driver, item>>
      /\ thread'[t] = [at |-> "grant", access |-> a] /\ thread'[t] # Idle
      /\ \A u \in Threads : u # t => thread'[u] = thread[u]
  BY <1>1, Places DEF Start, Began, TypeOK, regFileVars
<1>3. \A u \in Threads : u # t => Shown(u)' = Shown(u)
  BY <1>2, ShownSame DEF InEffect
<1>4. Shown(t) = [at |-> "idle"]
  BY <1>2 DEF Shown
<1>5. thread'[t].at = "grant" /\ thread'[t].access = a
  BY <1>2
<1>6. ~InEffect(t)'
  BY <1>5 DEF InEffect
<1>7. Shown(t)' = [at |-> "called", reg |-> a.reg, rnw |-> a.rnw, data |-> a.data]
  BY <1>2, <1>5, <1>6 DEF Shown
<1> QED  BY <1>2, <1>3, <1>4, <1>7, ShownCall

LEMMA GrantShown ==
  ASSUME IInv, Grant
  PROVE  UNCHANGED Registers!registerVars
<1> USE DEF IInv, BenchInv
<1>1. PICK a \in Access :
        /\ a = Head(queue) /\ thread[a.thread] = [at |-> "grant", access |-> a]
        /\ thread' = [thread EXCEPT ![a.thread] = [at |-> "done", access |-> a]]
  BY GrantFacts
<1>2. /\ driver = "get" /\ driver' = "drive" /\ item' = a
      /\ UNCHANGED <<regs, effect, rdata, req, req_next>>
  BY <1>1 DEF Grant, CanGrant, regFileVars
<1>3. a.thread \in Threads
  BY <1>1, AccessFacts
<1>4. /\ thread'[a.thread] = [at |-> "done", access |-> a]
      /\ \A u \in Threads : u # a.thread => thread'[u] = thread[u]
  BY <1>1, <1>3 DEF TypeOK
<1>5. /\ thread[a.thread].at = "grant" /\ thread[a.thread].access = a
      /\ thread'[a.thread].access = a
      /\ thread[a.thread] # Idle /\ thread'[a.thread] # Idle
  BY <1>1, <1>4 DEF Idle
<1>6. Shown(a.thread)' = Shown(a.thread)
  <2>1. ~InEffect(a.thread) /\ ~InEffect(a.thread)'
    BY <1>2, <1>5 DEF InEffect
  <2> QED  BY <1>5, <2>1 DEF Shown
<1>7. ASSUME NEW u \in Threads, u # a.thread
      PROVE  Shown(u)' = Shown(u)
  <2>1. ASSUME thread[u] # Idle
        PROVE  thread[u].access # a
    BY <1>7, <2>1, OwnFacts
  <2> QED  BY <1>2, <1>4, <1>7, <2>1, ShownSame DEF InEffect
<1> QED  BY <1>2, <1>6, <1>7, ShownStutter

LEMMA EdgeShown ==
  ASSUME IInv, Edge
  PROVE  Registers!RegistersNext \/ UNCHANGED Registers!registerVars
<1> USE DEF IInv, BenchInv
<1>1. /\ UNCHANGED <<thread, driver, item, req_next, rdata>> /\ req' = req_next
      /\ woken = {}
  BY DEF Edge, RegFileEdge
<1>2. CASE Accepts
  <2>1. /\ driver = "clear" /\ ~Answering /\ req_next = item /\ item \in Access
        /\ item.thread \in Threads
    BY <1>2, EdgeFacts, AccessFacts
  <2>2. req = None /\ item # None
    BY <2>1, AccessFacts DEF Pins
  <2>3. thread[item.thread] = [at |-> "done", access |-> item]
    BY <2>1 DEF Requests, Driven
  <2>4. /\ thread[item.thread].at = "done" /\ thread[item.thread].access = item
        /\ thread[item.thread] # Idle
    BY <2>3 DEF Idle
  <2>5. ~InEffect(item.thread) /\ InEffect(item.thread)'
    BY <1>1, <2>1, <2>2, <2>4 DEF InEffect
  <2>6. Shown(item.thread) =
          [at |-> "called", reg |-> item.reg, rnw |-> item.rnw, data |-> item.data]
    BY <2>4, <2>5 DEF Shown
  <2>7. Shown(item.thread)' =
          [at |-> "done", reg |-> item.reg, rnw |-> item.rnw, data |-> item.data]
    BY <1>1, <2>4, <2>5 DEF Shown
  <2>8. ASSUME NEW u \in Threads, u # item.thread
        PROVE  Shown(u)' = Shown(u)
    <3>1. ASSUME thread[u] # Idle
          PROVE  thread[u].access # item
      BY <2>8, <3>1, OwnFacts
    <3> QED  BY <1>1, <2>1, <3>1, ShownSame DEF InEffect
  <2>9. /\ regs' = [regs EXCEPT ![item.reg] = Effect(item)]
        /\ effect' = [effect EXCEPT ![item.thread] = Effect(item)]
    BY <1>2, <2>1 DEF Edge, RegFileEdge
  <2>10. /\ Shown(item.thread).at = "called"
         /\ Shown(item.thread)' = [Shown(item.thread) EXCEPT !.at = "done"]
    BY <2>6, <2>7
  <2>11. /\ Effect(item) = IF Shown(item.thread).rnw THEN regs[Shown(item.thread).reg]
                           ELSE Shown(item.thread).data
         /\ Shown(item.thread).reg = item.reg
    BY <2>6 DEF Effect
  <2> QED  BY <1>1, <2>1, <2>8, <2>9, <2>10, <2>11, ShownEffect
<1>3. CASE ~Accepts
  <2>1. req_next = None
    BY <1>3, EdgeFacts DEF Pins
  <2>2. UNCHANGED <<regs, effect>>
    BY <1>3 DEF Edge, RegFileEdge
  <2>3. ASSUME NEW u \in Threads
        PROVE  Shown(u)' = Shown(u)
    <3>1. ASSUME thread[u] # Idle
          PROVE  thread[u].access # None
      BY <3>1, OwnFacts
    <3> QED  BY <1>1, <2>1, <3>1, ShownSame DEF InEffect
  <2> QED  BY <1>1, <2>2, <2>3, ShownStutter
<1> QED  BY <1>2, <1>3

LEMMA DriveShown ==
  ASSUME IInv, Drive
  PROVE  UNCHANGED Registers!registerVars
<1> USE DEF IInv, BenchInv
<1>1. /\ driver = "drive" /\ driver' = "clear" /\ req_next' = item
      /\ UNCHANGED <<regs, effect, rdata, thread, item, req>>
  BY DEF Drive
<1>2. req = None /\ item # None /\ req_next = None
  BY <1>1 DEF Drive, Pins
<1>3. ASSUME NEW u \in Threads
      PROVE  Shown(u)' = Shown(u)
  <2>1. ASSUME thread[u] # Idle
        PROVE  thread[u].access # None
    BY <2>1, OwnFacts
  <2> QED  BY <1>1, <1>2, <2>1, ShownSame DEF InEffect
<1> QED  BY <1>1, <1>3, ShownStutter

LEMMA ItemDoneShown ==
  ASSUME IInv, ClearAndItemDone
  PROVE  UNCHANGED Registers!registerVars
<1> USE DEF IInv, BenchInv
<1>1. /\ driver = "clear" /\ "driver" \in woken /\ AfterItemDone(item) /\ req_next' = None
      /\ driver' # "drive" /\ UNCHANGED <<regs, effect, item, req>>
  BY DEF ClearAndItemDone
<1>2. /\ req_next = item /\ req = item /\ item # None /\ item \in Access
      /\ item.thread \in Threads
  BY <1>1, AccessFacts DEF Pins, TypeOK
<1>3. /\ thread' = [thread EXCEPT ![item.thread] = [at |-> "response", access |-> item]]
      /\ UNCHANGED rdata
  <2>1. responses[item.thread] = <<>>
    BY <1>2 DEF Answers, InTime
  <2> QED  BY <1>1, <2>1, ItemDoneFacts
<1>4. /\ thread'[item.thread] = [at |-> "response", access |-> item]
      /\ \A u \in Threads : u # item.thread => thread'[u] = thread[u]
  BY <1>2, <1>3 DEF TypeOK
<1>5. thread[item.thread] = [at |-> "done", access |-> item]
  BY <1>1 DEF Requests, Driven
<1>6. /\ thread[item.thread].at = "done" /\ thread'[item.thread].at = "response"
      /\ thread[item.thread].access = item /\ thread'[item.thread].access = item
      /\ thread[item.thread] # Idle /\ thread'[item.thread] # Idle
  BY <1>4, <1>5 DEF Idle
<1>7. Shown(item.thread)' = Shown(item.thread)
  <2>1. InEffect(item.thread) /\ InEffect(item.thread)'
    BY <1>1, <1>2, <1>6 DEF InEffect
  <2> QED  BY <1>1, <1>6, <2>1 DEF Shown
<1>8. ASSUME NEW u \in Threads, u # item.thread
      PROVE  Shown(u)' = Shown(u)
  <2>1. ASSUME thread[u] # Idle
        PROVE  thread[u].access # item /\ thread[u].access # None
    BY <1>8, <2>1, OwnFacts
  <2> QED  BY <1>1, <1>2, <1>4, <1>8, <2>1, ShownSame DEF InEffect
<1> QED  BY <1>1, <1>3, <1>7, <1>8, ShownStutter

\* A response that ends the wait of a thread tells it the effect of its access.
LEMMA PutShown ==
  ASSUME IInv, ~Answering, Responds, rsp # None, woken # {},
         NEW d \in Data, d = bus2reg(item, rsp), PutResponse(item, d),
         UNCHANGED <<regs, effect, item, req, req_next>>, driver' # "drive"
  PROVE  Registers!RegistersNext \/ UNCHANGED Registers!registerVars
<1> USE DEF IInv, BenchInv
<1>1. /\ driver \in {"get", "respond"} /\ item \in Access /\ item.thread \in Threads
      /\ req_next = None
  BY AccessFacts DEF Answers, OwnResponse, TypeOK, Pins
<1>2. ASSUME NEW u \in Threads, thread'[u] = thread[u]
      PROVE  Shown(u)' = Shown(u)
  BY <1>1, <1>2, ShownSame DEF InEffect
<1>3. CASE /\ thread[item.thread] = [at |-> "response", access |-> item]
           /\ thread' = [thread EXCEPT ![item.thread] = Idle]
           /\ thread'[item.thread] = Idle
           /\ rdata' = [rdata EXCEPT ![item.thread] = d]
  <2>1. /\ thread[item.thread].at = "response" /\ thread[item.thread] # Idle
        /\ thread[item.thread].access = item
    BY <1>3 DEF Idle
  <2>2. Shown(item.thread).at = "done"
    <3>1. item # None
      BY <1>1, AccessFacts
    <3>2. InEffect(item.thread)
      BY <1>1, <2>1, <3>1 DEF InEffect
    <3> QED  BY <2>1, <3>2 DEF Shown
  <2>3. Shown(item.thread)' = [at |-> "idle"]
    BY <1>3 DEF Shown
  <2>4. effect[item.thread] = d
    BY <1>3 DEF Answers, OwnResponse
  <2>5. \A u \in Threads : u # item.thread => Shown(u)' = Shown(u)
    BY <1>2, <1>3 DEF TypeOK
  <2> QED  BY <1>1, <1>3, <2>2, <2>3, <2>4, <2>5, ShownReturn
<1>4. CASE UNCHANGED <<thread, rdata>>
  BY <1>2, <1>4, ShownStutter
<1> QED  BY <1>1, <1>3, <1>4, AnswerFacts

LEMMA RegistersStep ==
  ASSUME IInv, [Next]_vars
  PROVE  [Registers!RegistersNext]_(Registers!registerVars)
<1> USE DEF IInv, BenchInv
<1>1. ASSUME rsp.valid
      PROVE  /\ ~Answering /\ rsp # None /\ rsp \in Response
             /\ item \in Access => bus2reg(item, rsp) \in Data
  BY <1>1, NoneFacts, BusData DEF Pins, TypeOK, RegFileTypeOK
<1>2. CASE Respond
  <2>1. /\ driver = "respond" /\ woken # {} /\ driver' # "drive" /\ item \in Access
        /\ UNCHANGED <<regs, effect, item, req, req_next>>
    BY <1>2 DEF Respond, regFileVars, Pins, TypeOK
  <2>2. CASE rsp.valid
    <3>1. PutResponse(item, bus2reg(item, rsp)) /\ Responds
      BY <1>2, <2>1, <2>2 DEF Respond, Responds, Answers, InTime
    <3> QED  BY <1>1, <2>1, <2>2, <3>1, PutShown
  <2>3. CASE ~rsp.valid
    BY <1>2, <2>1, <2>3, ShownFrame DEF Respond
  <2> QED  BY <2>2, <2>3
<1>3. CASE CollectResponse
  <2>1. /\ monitor = "response" /\ woken # {}
        /\ UNCHANGED <<regs, effect, item, req, req_next, driver>>
    BY <1>3 DEF CollectResponse, regFileVars
  <2>2. CASE rsp.valid /\ setup.handshake
    <3>1. Responds /\ last_req = item
      BY <2>2 DEF Responds, Requests, Sent
    <3>2. m_collected_item = item /\ item \in Access /\ driver # "drive"
      BY <1>1, <2>1, <2>2, <3>1 DEF Answers, OwnResponse, TypeOK
    <3>3. PutResponse(item, bus2reg(item, rsp))
      BY <1>3, <2>2, <3>1, <3>2 DEF CollectResponse, Handshake
    <3> QED  BY <1>1, <2>1, <2>2, <3>1, <3>2, <3>3, PutShown
  <2>3. CASE ~(rsp.valid /\ setup.handshake)
    BY <1>3, <2>1, <2>3, ShownFrame DEF CollectResponse, Handshake
  <2> QED  BY <2>2, <2>3
<1>4. CASE CollectRequest
  BY <1>4, ShownFrame DEF CollectRequest, regFileVars
<1>5. CASE UNCHANGED vars
  BY <1>5, ShownFrame DEF vars, regFileVars, benchVars
<1> QED
  <2> HIDE DEF IInv, BenchInv
  <2> QED
    BY <1>2, <1>3, <1>4, <1>5, StartShown, GrantShown, EdgeShown, DriveShown, ItemDoneShown
    DEF Next, Simulate

\* Where each access gets its own response, or none, the bench does what the
\* register model promises: each access takes effect once, at one moment between
\* its call and its return, and a read returns what the register held then.
\* (That it takes effect and returns at all is what the run checks.)
THEOREM RegistersImplemented ==
  ASSUME \A s \in Setups : Served(s)
  PROVE  Spec => Registers!RegistersInit /\ [][Registers!RegistersNext]_(Registers!registerVars)
<1>1. Init => Registers!RegistersInit
  BY DEF Init, RegFileInit, Registers!RegistersInit, Registers!NoAccess
<1> QED  BY <1>1, AnswersInvariant, RegistersStep, PTL DEF Spec
=============================================================================
