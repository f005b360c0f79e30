------------------------------- MODULE Modal --------------------------------
(***************************************************************************)
(* A Bootstrap dialog: showing fades in the backdrop, then the dialog;     *)
(* hiding fades out the dialog, then the backdrop.                         *)
(***************************************************************************)
EXTENDS Transitions, FiniteSets

CONSTANTS
  MaxBackdrops,     \* bound on the backdrops left in the document
  MaxAwaited        \* bound on the callbacks awaited when the user acts

VARIABLES
  modal,
  hasty             \* history: turned round while a transition was running

Backdrops == 1..MaxBackdrops
NoBackdrop == 0

Elements ==
  {<<"dialog", 0>>, <<"modal", 0>>} \union {<<"backdrop", b>> : b \in Backdrops}

TypeOK ==
  /\ hasty \in BOOLEAN
  /\ modal \in
    [fade : BOOLEAN, backdrop : {"true", "static", "false"}, keyboard : BOOLEAN,
     isShown : BOOLEAN, displayed : BOOLEAN, modalOpen : BOOLEAN,
     current : Backdrops \union {NoBackdrop},    \* this.$backdrop
     inBody : SUBSET Backdrops,                  \* backdrops in the document
     dismiss : Nat, keyup : Nat, focusin : BOOLEAN,   \* handlers bound
     pending : [Elements -> Seq({"entered", "shown", "hideModal", "left"})]]

Init ==
  /\ hasty = FALSE
  /\ \E fade \in BOOLEAN, backdrop \in {"true", "static", "false"}, keyboard \in BOOLEAN :
       modal = [fade |-> fade, backdrop |-> backdrop, keyboard |-> keyboard,
                isShown |-> FALSE, displayed |-> FALSE, modalOpen |-> FALSE,
                current |-> NoBackdrop, inBody |-> {}, dismiss |-> 0, keyup |-> 0,
                focusin |-> FALSE, pending |-> NoneAwaited(Elements)]

\* What a callback does, after the transition or at once without one.
RemoveBackdrop(m) ==
  [m EXCEPT !.inBody = @ \ {m.current}, !.current = NoBackdrop,
            !.pending = Disarm(@, {<<"backdrop", m.current>>}),
            !.modalOpen = FALSE]

Entered(m) ==
  LET n == [m EXCEPT !.displayed = TRUE, !.focusin = TRUE]
  IN IF m.fade THEN [n EXCEPT !.pending = Arm(@, <<"dialog", 0>>, "shown")] ELSE n

Callback(m, do) == IF do = "entered" THEN Entered(m) ELSE RemoveBackdrop(m)

\* Modal.backdrop(callback)
Backdrop(m, do) ==
  IF m.isShown /\ m.backdrop # "false" THEN
    LET b == CHOOSE n \in Backdrops : n \notin m.inBody
        n == [m EXCEPT !.current = b, !.inBody = @ \union {b}, !.dismiss = @ + 1]
    IN IF m.fade THEN [n EXCEPT !.pending = Arm(@, <<"backdrop", b>>, do)]
       ELSE Callback(n, do)
  ELSE IF ~m.isShown /\ m.current # NoBackdrop /\ m.fade THEN
    [m EXCEPT !.pending = Arm(@, <<"backdrop", m.current>>, do)]
  ELSE Callback(m, do)

HideModal(m) == Backdrop([m EXCEPT !.displayed = FALSE], "left")

Run(m, do) ==
  CASE do = "entered" -> Entered(m)
    [] do = "shown" -> m
    [] do = "hideModal" -> HideModal(m)
    [] do = "left" -> RemoveBackdrop(m)

\* Modal.show, the dialog being hidden; escape() binds the escape key.
Show(m) ==
  Backdrop([m EXCEPT !.isShown = TRUE, !.modalOpen = TRUE, !.dismiss = @ + 1,
                     !.keyup = IF m.keyboard THEN @ + 1 ELSE @],
           "entered")

\* Variant: the escape key stays bound.
Hide_Escape(m) ==
  LET n == [m EXCEPT !.isShown = FALSE, !.focusin = FALSE, !.dismiss = 0]
  IN IF m.fade THEN [n EXCEPT !.pending = Arm(@, <<"modal", 0>>, "hideModal")]
     ELSE HideModal(n)

\* Modal.hide, the dialog being shown.
Hide(m) ==
  LET n == [m EXCEPT !.isShown = FALSE, !.keyup = 0, !.focusin = FALSE, !.dismiss = 0]
  IN IF m.fade THEN [n EXCEPT !.pending = Arm(@, <<"modal", 0>>, "hideModal")]
     ELSE HideModal(n)

\* A hideModal() still awaited may make a backdrop too.
WithinBounds ==
  /\ Awaited(modal.pending) < MaxAwaited
  /\ Cardinality(modal.inBody) + Len(modal.pending[<<"modal", 0>>]) < MaxBackdrops

TurnedRound == hasty' = (hasty \/ ~Quiet(modal.pending))

\* A button that opens the dialog, or toggles it.
ShowMethod ==
  ~modal.isShown /\ WithinBounds /\ modal' = Show(modal) /\ TurnedRound

HideMethod ==
  modal.isShown /\ WithinBounds /\ modal' = Hide(modal) /\ TurnedRound

\* A cross in the dialog, a click beside it, the escape key.
DismissClick == modal.displayed /\ modal.dismiss > 0 /\ HideMethod
BackdropClick == modal.backdrop = "true" /\ DismissClick
EscapeKey == modal.displayed /\ modal.keyup > 0 /\ HideMethod

\* The end of the dialog's transition bubbles to the element around it.
DialogEnd ==
  /\ modal.pending[<<"dialog", 0>>] # <<>>
  /\ modal' = Ended(Ended(modal, <<"dialog", 0>>, Run), <<"modal", 0>>, Run)

ModalEnd ==
  /\ modal.pending[<<"modal", 0>>] # <<>>
  /\ modal' = Ended(modal, <<"modal", 0>>, Run)

BackdropEnd(b) ==
  /\ modal.pending[<<"backdrop", b>>] # <<>>
  /\ modal' = Ended(modal, <<"backdrop", b>>, Run)

TransitionEnds ==
  /\ DialogEnd \/ ModalEnd \/ \E b \in Backdrops : BackdropEnd(b)
  /\ UNCHANGED hasty

Next ==
  \/ ShowMethod \/ HideMethod \/ DismissClick \/ BackdropClick \/ EscapeKey
  \/ TransitionEnds

-----------------------------------------------------------------------------
\* When the transitions of a dialog that was not turned round midway are
\* over, what the user sees agrees with isShown: the dialog, one backdrop at
\* most, the class that stops the page from scrolling, and every handler.
ModalSettled ==
  Quiet(modal.pending) /\ ~hasty =>
    /\ modal.displayed = modal.isShown
    /\ modal.modalOpen = modal.isShown
    /\ modal.focusin = modal.isShown
    /\ (modal.keyup > 0) = (modal.isShown /\ modal.keyboard)
    /\ (modal.dismiss > 0) = modal.isShown
    /\ Cardinality(modal.inBody) = IF modal.isShown /\ modal.backdrop # "false" THEN 1 ELSE 0
    /\ modal.inBody = {modal.current} \ {NoBackdrop}
=============================================================================
