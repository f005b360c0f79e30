------------------------------- MODULE Button -------------------------------
(***************************************************************************)
(* Bootstrap buttons: the states of one button, whose disabling waits for  *)
(* the event loop, and a group of buttons that stand for inputs.           *)
(***************************************************************************)
EXTENDS Naturals, Sequences, FiniteSets

CONSTANTS
  Choices,       \* the buttons of a group
  MaxDue         \* bound on the timeouts due

VARIABLE button

States == {"loading", "reset", "complete"}

TypeOK ==
  button \in [radio : BOOLEAN,              \* radio buttons, or check boxes
              active : SUBSET Choices,      \* buttons with class "active"
              checked : SUBSET Choices,     \* inputs that are checked
              isLoading : BOOLEAN, disabled : BOOLEAN,
              due : Seq(States),            \* the timeouts of setState
              last : States]                \* the last state asked for

Init ==
  \E radio \in BOOLEAN, on \in SUBSET Choices :
    /\ radio => Cardinality(on) <= 1
    /\ button = [radio |-> radio, active |-> on, checked |-> on, isLoading |-> FALSE,
                 disabled |-> FALSE, due |-> <<>>, last |-> "reset"]

\* Button.setState
SetState(s) ==
  /\ Len(button.due) < MaxDue
  /\ button' = [button EXCEPT !.due = Append(@, s), !.last = s]

\* The timeout of setState, in the order of the calls
Ran(b, s) ==
  IF s = "loading" THEN [b EXCEPT !.isLoading = TRUE, !.disabled = TRUE]
  ELSE IF b.isLoading THEN [b EXCEPT !.isLoading = FALSE, !.disabled = FALSE]
  ELSE b

Timeout ==
  /\ button.due # <<>>
  /\ button' = Ran([button EXCEPT !.due = Tail(@)], Head(button.due))

\* What toggling checks: the browser keeps one radio button checked at most.
Checked(b, c, on) ==
  LET others == IF b.radio /\ on THEN {} ELSE b.checked \ {c}
  IN IF on THEN others \union {c} ELSE others

\* Button.toggle of one button of the group
Toggle(c) ==
  LET kept == IF button.radio THEN {} ELSE button.active
      on   == c \notin kept
  IN IF button.radio /\ c \in button.active \intersect button.checked
       THEN UNCHANGED button
     ELSE button' = [button EXCEPT !.active = IF on THEN kept \union {c} ELSE kept \ {c},
                                   !.checked = Checked(button, c, on)]

Next == Timeout \/ \E s \in States : SetState(s) \/ \E c \in Choices : Toggle(c)

\* Once no timeout is due the button is disabled exactly if the last state
\* asked for was "loading", and the buttons that look pressed are always those
\* whose inputs are checked: one at most among radio buttons.
ButtonSettled ==
  /\ button.due = <<>> => button.disabled = (button.last = "loading")
  /\ button.active = button.checked
  /\ button.radio => Cardinality(button.checked) <= 1
=============================================================================
