-------------------------------- MODULE Wire --------------------------------
(***************************************************************************)
(* The text that travels between the SystemVerilog testbench and the       *)
(* Python server of the non-blocking socket example: items, how they are   *)
(* framed with a delimiter, how each side cuts a piece of the byte stream  *)
(* back into items, and what the server answers to an item.                *)
(*                                                                         *)
(* A string is a sequence of tokens <<text, number>>.  A token stands for  *)
(* the characters of the source that no property needs to cut: an item has *)
(* two tokens and its delimiter, so a send or a receive may still stop     *)
(* inside an item and between an item and its delimiter.                   *)
(***************************************************************************)
EXTENDS Integers, SequencesExt

Token == {"\n", "div", "nop", ":", "end_", "test", "[d_", ")]"} \X Nat
Text == Seq(Token)

Delim == <<"\n", 0>>

\* The items of amiq_top.sv: "div:<v>", "nop:<v>" and "end_test".
Command(cmd, v) == << <<cmd, 0>>, <<":", v>> >>
EndTest == << <<"end_", 0>>, <<"test", 0>> >>

\* The reply "[d_<v>(..)]<d>": d is a divisor of v.
DivReply(v, d) == << <<"[d_", v>>, <<")]", d>> >>

\* The texts put end to end.
Joined(texts) == FoldLeft(\o, <<>>, texts)

Framed(item) == Append(item, Delim)

FramedAll(items) == Joined([i \in DOMAIN items |-> Framed(items[i])])

\* What is left of s once its first n tokens are gone.
From(s, n) == SubSeq(s, n + 1, Len(s))

-----------------------------------------------------------------------------
(* Cutting a string at its delimiters.                                     *)

Nothing == [items |-> <<>>, begun |-> <<>>]

\* Variant: of the items found only the last one is kept.
Cut_LastOnly(found, token) ==
  IF token = Delim
  THEN [items |-> <<found.begun>>, begun |-> <<>>]
  ELSE [found EXCEPT !.begun = Append(@, token)]

\* One token more: a delimiter ends the item that was begun.
Cut(found, token) ==
  IF token = Delim
  THEN [items |-> Append(found.items, found.begun), begun |-> <<>>]
  ELSE [found EXCEPT !.begun = Append(@, token)]

Scan(s) == FoldLeft(Cut, Nothing, s)

\* The items that a delimiter ends, in order.
Split(s) == Scan(s).items

\* Variant: the truncated end of a message is not kept.
Truncated_Dropped(s) == <<>>

\* The text after the last delimiter: the beginning of an item whose end
\* has not come yet.
Truncated(s) == Scan(s).begun

-----------------------------------------------------------------------------
(* What the server answers to an item.                                     *)

\* The divisors the loop of send_response finds, and then the value itself.
DivReplies(v) ==
  Joined([i \in 1..(v \div 2) |-> IF v % i = 0 THEN <<DivReply(v, i)>> ELSE <<>>])
    \o <<DivReply(v, v)>>

ColonPositions(item) == {i \in DOMAIN item : item[i][1] = ":"}

\* item[item.find(":")+1:] is a number only when nothing follows it.
IsMalformed(item) ==
  /\ ColonPositions(item) # {}
  /\ Min(ColonPositions(item)) # Len(item)

IsDiv(item) ==
  /\ ColonPositions(item) = {Len(item)}
  /\ Front(item) = << <<"div", 0>> >>

HasEndTest(item) ==
  \E i \in 1..(Len(item) - 1) : SubSeq(item, i, i + 1) = EndTest

RepliesTo(item) ==
  IF IsMalformed(item) THEN <<>>
  ELSE (IF IsDiv(item) THEN DivReplies(Last(item)[2]) ELSE <<>>)
       \o (IF HasEndTest(item) THEN <<EndTest>> ELSE <<>>)

\* The items of a message the server works on: it leaves its loop at the
\* first "end_test" (break) or at the first malformed item (ValueError).
Stops(item) == IsMalformed(item) \/ HasEndTest(item)

WorkedOn(items) ==
  IF \E i \in DOMAIN items : Stops(items[i])
  THEN SubSeq(items, 1, Min({i \in DOMAIN items : Stops(items[i])}))
  ELSE items

Replies(items) == Joined([i \in DOMAIN items |-> RepliesTo(items[i])])
=============================================================================
