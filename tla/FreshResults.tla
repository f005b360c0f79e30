---------------------------- MODULE FreshResults ----------------------------
(***************************************************************************)
(* What a list of search results promises, page by page, to somebody who   *)
(* keeps changing the term: only what was asked last is ever put up, each  *)
(* page below the one before it, and every question ends.                  *)
(***************************************************************************)
EXTENDS Naturals, Sequences

CONSTANTS Terms, MaxPage

VARIABLES
  asked,         \* the last question: a term and a page
  shown,         \* the pages in the list
  state          \* "idle" | "waiting" | "failed"

freshVars == <<asked, shown, state>>

Init ==
  /\ asked \in [term : Terms, page : {0}]
  /\ shown = <<>>
  /\ state = "idle"

Ask(t) ==
  /\ asked' = [term |-> t, page |-> 1]
  /\ state' = "waiting"
  /\ UNCHANGED shown

More ==
  /\ state = "idle" /\ asked.page \in 1..MaxPage
  /\ asked' = [asked EXCEPT !.page = @ + 1]
  /\ state' = "waiting"
  /\ UNCHANGED shown

Deliver ==
  /\ state = "waiting"
  /\ shown' = IF asked.page = 1 THEN <<asked>> ELSE Append(shown, asked)
  /\ state' = "idle"
  /\ UNCHANGED asked

GiveUp ==
  /\ state = "waiting"
  /\ state' = "failed"
  /\ UNCHANGED <<asked, shown>>

Next == (\E t \in Terms : Ask(t)) \/ More \/ Deliver \/ GiveUp

Spec == Init /\ [][Next]_freshVars /\ WF_freshVars(Deliver \/ GiveUp)
=============================================================================
