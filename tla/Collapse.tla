------------------------------ MODULE Collapse ------------------------------
(***************************************************************************)
(* The collapsible panels of a page: each heading opens and closes its     *)
(* panel, and in an accordion opening one closes the one that is open.     *)
(* toc.js marks the heading as well, by a click handler of its own.        *)
(***************************************************************************)
EXTENDS Transitions, FiniteSets

CONSTANT Panels

VARIABLES
  panels,
  hasty             \* history: clicked before a transition it disturbs ended

TypeOK ==
  /\ hasty \in BOOLEAN
  /\ panels \in [accordion : BOOLEAN,       \* the headings name a parent
                 first : SUBSET Panels,     \* the panels open at the beginning
                 in : SUBSET Panels,        \* class "in": open
                 data : SUBSET Panels,      \* has an instance of Collapse
                 trans : SUBSET Panels,     \* its instance is transitioning
                 collapsed : SUBSET Panels, \* headings with class "collapsed"
                 mark : SUBSET Panels,      \* headings toc.js toggled
                 pending : [Panels -> Seq({"shown", "hidden", "orphan"} \X Panels)]]

Init ==
  /\ hasty = FALSE
  /\ \E accordion \in BOOLEAN, first \in SUBSET Panels :
       /\ accordion => Cardinality(first) <= 1
       /\ panels = [accordion |-> accordion, first |-> first, in |-> first, data |-> {},
                    trans |-> {}, collapsed |-> Panels \ first, mark |-> {},
                    pending |-> NoneAwaited(Panels)]

\* The callbacks of the transitions.  "orphan" ends the hiding of a panel whose
\* instance was dropped meanwhile: its flag is not that of a later instance.
Run(w, do) ==
  CASE do[1] = "shown"  -> [w EXCEPT !.in = @ \union {do[2]}, !.trans = @ \ {do[2]}]
    [] do[1] = "hidden" -> [w EXCEPT !.trans = @ \ {do[2]}]
    [] do[1] = "orphan" -> w

\* Collapse.hide
Hide(w, p) ==
  IF p \in w.trans \/ p \notin w.in THEN w
  ELSE [w EXCEPT !.in = @ \ {p}, !.trans = @ \union {p},
                 !.pending = Arm(@, p, <<"hidden", p>>)]

\* The open panels of the accordion, which a panel that opens closes; the
\* instance made for one that had none is dropped again.
Actives(w) == IF w.accordion THEN w.in ELSE {}

HideActives(w) ==
  LET off == Actives(w) \ (w.data \intersect w.trans)
  IN [w EXCEPT !.in = @ \ off, !.trans = @ \union (off \intersect w.data),
               !.pending = ArmAll(@, off, LAMBDA q :
                 <<IF q \in w.data THEN "hidden" ELSE "orphan", q>>)]

\* Collapse.show; of several open panels the first one's instance decides.
\* (Which one is first does not matter: several are open only after hasty
\* clicks, and then each has an instance, which is at rest.)
Show(w, p) ==
  LET first == CHOOSE q \in Actives(w) : TRUE
  IN IF \/ p \in w.trans \/ p \in w.in
        \/ Actives(w) # {} /\ first \in w.data \intersect w.trans
       THEN w
     ELSE [HideActives(w) EXCEPT !.trans = @ \union {p}, !.pending = Arm(@, p, <<"shown", p>>)]

Toggle(w, p) == IF p \in w.in THEN Hide(w, p) ELSE Show(w, p)

\* Variant: the headings of the other panels of the accordion stay as they are.
Headings_Alone(w, p) ==
  IF p \in w.trans THEN w.collapsed
  ELSE IF p \in w.in THEN w.collapsed \union {p} ELSE w.collapsed \ {p}

\* The class "collapsed" of the headings, by the handler of the document.
Headings(w, p) ==
  IF p \in w.trans THEN w.collapsed
  ELSE LET others == IF w.accordion THEN Panels \ {p} ELSE {}
           rest   == (w.collapsed \union others) \ {p}
       IN IF p \in w.in THEN rest \union {p} ELSE rest

\* toc.js, whatever becomes of the click
Marked(w, p) == IF p \in w.mark THEN w.mark \ {p} ELSE w.mark \union {p}

Hasty(w, p) ==
  IF w.accordion THEN ~Quiet(w.pending) ELSE w.pending[p] # <<>>

-----------------------------------------------------------------------------
\* The user does not click when as many callbacks are awaited as panels.
Click(p) ==
  /\ Awaited(panels.pending) < Cardinality(Panels)
  /\ LET w == [panels EXCEPT !.mark = Marked(panels, p),
                             !.collapsed = Headings(panels, p), !.data = @ \union {p}]
     IN panels' = Toggle(w, p)
  /\ hasty' = (hasty \/ Hasty(panels, p))

TransitionEnds(p) ==
  /\ panels.pending[p] # <<>>
  /\ panels' = Ended(panels, p, Run)
  /\ UNCHANGED hasty

Next == \E p \in Panels : Click(p) \/ TransitionEnds(p)

\* When the transitions are over and no click came while one it could disturb
\* was running: the headings tell which panels are open, an accordion has one
\* open at most, and the marks of toc.js tell which panels have changed.
CollapseSettled ==
  Quiet(panels.pending) /\ ~hasty =>
    /\ panels.collapsed = Panels \ panels.in
    /\ panels.accordion => Cardinality(panels.in) <= 1
    /\ ~panels.accordion =>
         panels.mark = (panels.in \ panels.first) \union (panels.first \ panels.in)
=============================================================================
