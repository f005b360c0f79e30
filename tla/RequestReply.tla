---------------------------- MODULE RequestReply ----------------------------
(***************************************************************************)
(* What the connector and the server promise to the testbench, with no     *)
(* threads, buffers or messages: the items it submits are answered in      *)
(* order, each reply once and whole, up to the reply to "end_test".  A     *)
(* simulation that was killed leaves nothing to the one after it.          *)
(***************************************************************************)
EXTENDS Integers, Sequences

CONSTANTS
  Items,             \* the sequences of items a testbench may submit
  Replies(_)         \* the replies to such a sequence

VARIABLES
  asked,             \* the items submitted
  answers,           \* the replies the testbench has received
  attended           \* neither the simulator nor the server has died

rrVars == <<asked, answers, attended>>

RRInit == asked = <<>> /\ answers = <<>> /\ attended = TRUE

Submit ==
  /\ asked = <<>>
  /\ asked' \in Items
  /\ UNCHANGED <<answers, attended>>

\* Some more of the replies that are due arrive, in their order.
Answer ==
  /\ asked # <<>>
  /\ \E n \in (Len(answers) + 1)..Len(Replies(asked)) :
       answers' = SubSeq(Replies(asked), 1, n)
  /\ UNCHANGED <<asked, attended>>

Lost == attended /\ attended' = FALSE /\ UNCHANGED <<asked, answers>>

\* The simulator is started again, after all was answered or one has died.
Again ==
  /\ ~attended \/ (asked # <<>> /\ answers = Replies(asked))
  /\ asked' = <<>> /\ answers' = <<>>
  /\ attended' \in BOOLEAN

RRNext == Submit \/ Answer \/ Lost \/ Again

RRSpec ==
  /\ RRInit /\ [][RRNext]_rrVars
  /\ WF_rrVars(attended /\ Submit) /\ WF_rrVars(attended /\ Answer)
=============================================================================
