------------------------------ MODULE Tooltip -------------------------------
(***************************************************************************)
(* A Bootstrap tooltip.  The mouse or the focus entering its element shows *)
(* it and leaving hides it, each after a delay if one is configured; the   *)
(* pages of the grammars show it from a mouseover handler of their own.    *)
(***************************************************************************)
EXTENDS Transitions

VARIABLE tip

TypeOK ==
  tip \in [page : BOOLEAN,                 \* shown by the page's handler too
           bound : BOOLEAN,                \* init() bound enter() and leave()
           animation : BOOLEAN, delay : SUBSET {"show", "hide"},
           attached : BOOLEAN, fade : BOOLEAN,
           hoverState : {"none", "in", "out"},
           timeout : {"none", "show", "hide"},
           want : BOOLEAN,                 \* the last event was an entry
           hasty : BOOLEAN,                \* shown while it was fading out
           pending : [{"tip"} -> Seq({"shown", "hidden"})]]

Blank(page, animation, delay) ==
  [page |-> page, bound |-> ~page, animation |-> animation, delay |-> delay,
   attached |-> FALSE, fade |-> FALSE, hoverState |-> "none", timeout |-> "none",
   want |-> FALSE, hasty |-> FALSE, pending |-> NoneAwaited({"tip"})]

Init ==
  \/ tip = Blank(TRUE, FALSE, {})
  \/ \E animation \in BOOLEAN, delay \in SUBSET {"show", "hide"} :
       tip = Blank(FALSE, animation, delay)

\* Tooltip.show, for a tip that has content and is enabled.
Show(t) ==
  [t EXCEPT !.attached = TRUE, !.fade = t.animation, !.hoverState = "none",
            !.hasty = @ \/ Contains(t.pending["tip"], "hidden"),
            !.pending = IF t.animation THEN Arm(@, "tip", "shown") ELSE @]

Hidden(t) == [t EXCEPT !.attached = @ /\ t.hoverState = "in"]

\* Tooltip.hide
Hide(t) ==
  IF t.fade THEN [t EXCEPT !.hoverState = "none", !.pending = Arm(@, "tip", "hidden")]
  ELSE [Hidden(t) EXCEPT !.hoverState = "none"]

Run(t, do) == IF do = "hidden" THEN Hidden(t) ELSE t

\* Tooltip.enter
Entry(t) ==
  LET n == [t EXCEPT !.timeout = "none", !.hoverState = "in"]
  IN IF "show" \in t.delay THEN [n EXCEPT !.timeout = "show"] ELSE Show(n)

\* Variant: leaving does not take the tip's state out of "in" or "none".
Departure_Unsaid(t) ==
  LET n == [t EXCEPT !.timeout = "none"]
  IN IF "hide" \in t.delay THEN [n EXCEPT !.timeout = "hide"] ELSE Hide(n)

\* Tooltip.leave
Departure(t) ==
  LET n == [t EXCEPT !.timeout = "none", !.hoverState = "out"]
  IN IF "hide" \in t.delay THEN [n EXCEPT !.timeout = "hide"] ELSE Hide(n)

-----------------------------------------------------------------------------
\* The user does not act when more than two callbacks are awaited.
MaxFades == 2

Enter ==
  /\ ~tip.page
  /\ Len(tip.pending["tip"]) < MaxFades
  /\ tip' = Entry([tip EXCEPT !.want = TRUE])

Leave ==
  /\ tip.bound
  /\ Len(tip.pending["tip"]) < MaxFades
  /\ tip' = Departure([tip EXCEPT !.want = FALSE])

\* The page's handler: tooltip(options), which binds the events of a new tip,
\* then tooltip("show"); a bound tip sees the mouse enter as well.
MouseOver ==
  /\ tip.page
  /\ LET shown == Show([tip EXCEPT !.bound = TRUE, !.want = TRUE])
     IN tip' = IF tip.bound THEN Entry(shown) ELSE shown

ShowTimer ==
  /\ tip.timeout = "show"
  /\ LET t == [tip EXCEPT !.timeout = "none"]
     IN tip' = IF t.hoverState = "in" THEN Show(t) ELSE t

HideTimer ==
  /\ tip.timeout = "hide"
  /\ LET t == [tip EXCEPT !.timeout = "none"]
     IN tip' = IF t.hoverState = "out" THEN Hide(t) ELSE t

TransitionEnds ==
  /\ tip.pending["tip"] # <<>>
  /\ tip' = Ended(tip, "tip", Run)

Next == Enter \/ Leave \/ MouseOver \/ ShowTimer \/ HideTimer \/ TransitionEnds

\* Once nothing is awaited the tip is in the document exactly when the last
\* thing the mouse or the focus did was to enter, however its delays, its fades
\* and the page's own handler interleaved; only a tip shown again while it was
\* fading out may have been detached by the end of that fade.
TipFollows ==
  Quiet(tip.pending) /\ tip.timeout = "none" /\ ~tip.hasty => tip.attached = tip.want
=============================================================================
