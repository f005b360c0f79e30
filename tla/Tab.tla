-------------------------------- MODULE Tab ---------------------------------
(***************************************************************************)
(* Bootstrap tabs: a click moves the class "active" of the headings at     *)
(* once, and that of the panes when the pane shown before has faded out.   *)
(***************************************************************************)
EXTENDS Transitions

CONSTANT Tabs

VARIABLES
  tabs,
  hasty             \* history: clicked before a fade was over

TypeOK ==
  /\ hasty \in BOOLEAN
  /\ tabs \in [li : SUBSET Tabs,         \* headings with class "active"
               pane : SUBSET Tabs,       \* panes with class "active"
               fade : SUBSET Tabs,       \* panes with class "fade"
               in : SUBSET Tabs,         \* panes with class "in"
               pending : [Tabs -> Seq((SUBSET Tabs) \X Tabs)]]

Init ==
  /\ hasty = FALSE
  /\ \E t \in Tabs, fade \in SUBSET Tabs :
       tabs = [li |-> {t}, pane |-> {t}, fade |-> fade, in |-> {t},
               pending |-> NoneAwaited(Tabs)]

\* next() of Tab.activate, for the panes that were active and the new one
Replaced(w, old, t, faded) ==
  LET n == [w EXCEPT !.pane = (@ \ old) \union {t}]
  IN IF faded THEN [n EXCEPT !.in = @ \union {t}] ELSE [n EXCEPT !.fade = @ \ {t}]

Run(w, do) == Replaced(w, do[1], do[2], TRUE)

\* Tab.activate for the panes: the callback waits on every pane that fades.
ActivatePane(w, t) ==
  LET old == w.pane
      n   == IF old \intersect w.fade # {}
               THEN [w EXCEPT !.pending = ArmAll(@, old, LAMBDA o : <<old, t>>)]
             ELSE Replaced(w, old, t, FALSE)
  IN [n EXCEPT !.in = @ \ old]

\* Tab.show
Click(t) ==
  /\ t \notin tabs.li
  /\ Awaited(tabs.pending) < 2                   \* bound
  /\ hasty' = (hasty \/ ~Quiet(tabs.pending))
  /\ tabs' = ActivatePane([tabs EXCEPT !.li = {t}], t)

TransitionEnds(t) ==
  /\ tabs.pending[t] # <<>>
  /\ tabs' = Ended(tabs, t, Run)
  /\ UNCHANGED hasty

Next == \E t \in Tabs : Click(t) \/ TransitionEnds(t)

Visible(t) == t \in tabs.pane /\ (t \in tabs.fade => t \in tabs.in)

\* When the fades are over and no tab was clicked during one, the one pane that
\* is active and visible is that of the one heading that is active.
TabSettled ==
  Quiet(tabs.pending) /\ ~hasty =>
    \E t \in Tabs : tabs.li = {t} /\ tabs.pane = {t} /\ Visible(t)
=============================================================================
